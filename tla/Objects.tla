------------------------------- MODULE Objects -------------------------------
(***************************************************************************)
(* The native halves of JS objects (native/sdk .. jqutil_v2: JQBaseObject, *)
(* JQBaseObjectExt, JQPublishObject, JQSignal, JQProperty and the maps of  *)
(* JQObjectTemplate).  What an object keeps besides its members, that is   *)
(* its value holder, its reference holder, the listeners of its signals    *)
(* and its GC hooks, is stored in maps of its template under the address   *)
(* of the object, and the allocator uses addresses again.  The script's    *)
(* functions in these slots are counted by hand (JS_DupValue,              *)
(* JS_FreeValue).                                                          *)
(*                                                                         *)
(* Objects are used by the script thread, and by a worker that may hold    *)
(* one, set its property or publish on it.  Each object has one property   *)
(* (JQProperty, its on_change signal bound to the object) and one topic.   *)
(* A listener that is no function, which _SubscribeTopic lets in, is one   *)
(* that throws.  Left out: emissions from within a listener.               *)
(***************************************************************************)
EXTENDS Naturals, Sequences, SequencesExt, FiniteSets

CONSTANTS
    Addresses,  \* where an object may be
    Functions,  \* of the script
    None,
    MaxObjects, \* bound: objects made
    MaxActs     \* bound: subscriptions, publications and things stored

\* A publication that runs: its kind, its object, the functions to call and all
\* its copies.
Publications ==
    [kind : {"signal", "now", "task"}, object : Addresses,
     todo : Seq(Functions), copies : Seq(Functions)]

ASSUME ObjectsAssumption ==
    /\ IsFiniteSet(Addresses)
    /\ None \notin Addresses \cup Functions \cup Publications
    /\ {"value", "methods", "worker", "task"} \cap Addresses = {}
    /\ {MaxObjects, MaxActs} \subseteq Nat

VARIABLES
    made, acts, \* counters of the bounds
    attached,   \* per address: the object there has its JS value
    refs,       \* per address: who holds the object there, {} if there is none
    valueHolders,   \* _objInternalValueHolderMap, one field
    refHolders,     \* _objInternalRefHolderMap, one field
    registers,      \* _objSignalRegisterMap: the listeners in order; a token names one
    hooks,          \* _objGCRegisterMap: who has hooked its collection
    topics,     \* per object: _topicCallbacksMap, one topic
    counts,     \* references to each function taken natively
    script,     \* the functions the script itself refers to
    value,      \* per object: value_ of its JQProperty
    unsent,     \* per object: set by the worker, on_change not emitted yet
    setters,    \* history: the threads that have set it
    told,       \* history: the value last handed to _OnSignalMagic
    tasks,      \* of the script thread
    publishing, \* the publication that runs, or None
    calling,    \* the listener that runs, or None
    late        \* history: functions given to an object behind its collection

counters == <<made, acts>>
maps == <<valueHolders, refHolders, registers, hooks, topics>>
property == <<value, unsent, setters, told>>
publication == <<publishing, calling>>
vars == <<counters, attached, refs, maps, counts, script, property, tasks,
          publication, late>>

Places(f, s) == {i \in DOMAIN s : s[i] = f}

Times(f, s) == Cardinality(Places(f, s))

\* The elements of s that are in K, in their order.
Among(s, K) ==
    LET among[i \in 0..Len(s)] ==
            IF i = 0 THEN <<>>
            ELSE IF s[i] \in K THEN Append(among[i - 1], s[i])
            ELSE among[i - 1]
    IN among[Len(s)]

\* JS_DupValue and JS_FreeValue of every function of a sequence.
Dup(s) == counts' = [f \in Functions |-> counts[f] + Times(f, s)]

FreeEach(s) == counts' = [f \in Functions |-> counts[f] - Times(f, s)]

Freed(f) == counts[f] = 0 /\ f \notin script

Field(h) == IF h = None THEN <<>> ELSE <<h>>

\* An entry of one of the maps.
Put(map, a, e) == [b \in DOMAIN map \cup {a} |-> IF b = a THEN e ELSE map[b]]

Without(map, S) == [b \in DOMAIN map \ S |-> map[b]]

Entry(map, a, default) == IF a \in DOMAIN map THEN map[a] ELSE default

Init ==
    /\ made = 0 /\ acts = 0
    /\ attached = [a \in Addresses |-> FALSE]
    /\ refs = [a \in Addresses |-> {}]
    /\ valueHolders = <<>> /\ refHolders = <<>> /\ registers = <<>> /\ hooks = {}
    /\ topics = [a \in Addresses |-> <<>>]
    /\ counts = [f \in Functions |-> 0]
    /\ script = Functions
    /\ value = [a \in Addresses |-> 0]
    /\ unsent = [a \in Addresses |-> FALSE]
    /\ setters = [a \in Addresses |-> {}]
    /\ told = [a \in Addresses |-> 0]
    /\ tasks = <<>>
    /\ publishing = None /\ calling = None
    /\ late = {}

Act == acts < MaxActs /\ acts' = acts + 1

\* The script runs: no publication goes on, or one of its listeners does.
Running == publishing = None \/ calling # None

\* The script can reach the methods of the object at a.
Methods(a) == Running /\ "methods" \in refs[a]

-----------------------------------------------------------------------------
\* The tasks that do not go with the signals of these objects.
Unaffected(dead) == {t \in Range(tasks) : t.kind = "topic" \/ t.object \notin dead}

\* ~JQBaseObject for every object that has no reference any more, on the
\* thread that has dropped the last one; the tasks of its signal go with the
\* signal.  The fault: the register of the listeners stays in its map.
ReleaseKeepingRegisters(r, regs, holders) ==
    LET dead == {a \in Addresses : refs[a] # {} /\ r[a] = {}}
    IN /\ refs' = [a \in Addresses |-> r[a] \ dead]
       /\ registers' = regs
       /\ refHolders' = Without(holders, dead)
       /\ tasks' = Among(tasks, Unaffected(dead))

Release(r, regs, holders) ==
    LET dead == {a \in Addresses : refs[a] # {} /\ r[a] = {}}
    IN /\ refs' = [a \in Addresses |-> r[a] \ dead]
       /\ registers' = Without(regs, dead)
       /\ refHolders' = Without(holders, dead)
       /\ tasks' = Among(tasks, Unaffected(dead))

Drop(a, h) == Release([refs EXCEPT ![a] = @ \ {h}], registers, refHolders)

\* The constructors: no listener of a topic, and a property of value 0.
Constructed(a) ==
    /\ topics' = [topics EXCEPT ![a] = <<>>]
    /\ value' = [value EXCEPT ![a] = 0]
    /\ unsent' = [unsent EXCEPT ![a] = FALSE]
    /\ setters' = [setters EXCEPT ![a] = {}]
    /\ told' = [told EXCEPT ![a] = 0]

\* hookGCCollect and hookGCMark: the register is made on demand.
HookGC(a) == hooks' = hooks \cup {a}

\* JQPublishObject::OnInit, when the object gets its JS value.
OnInit(a) == HookGC(a)

Attach(a) ==
    /\ attached' = [attached EXCEPT ![a] = TRUE]
    /\ OnInit(a)

\* NewInstance and NewObject: the object is held by its JS value and by its
\* methods.
NewInstance(a) ==
    /\ Running /\ refs[a] = {} /\ made < MaxObjects
    /\ made' = made + 1
    /\ refs' = [refs EXCEPT ![a] = {"value", "methods"}]
    /\ Constructed(a)
    /\ Attach(a)
    /\ UNCHANGED <<acts, valueHolders, refHolders, registers,
                   counts, script, tasks, publication, late>>

\* The method that publishes on a topic at once has the object as its `this`.
Held(a) == publishing # None /\ publishing.kind = "now" /\ publishing.object = a

\* What the hooks of a collection release: the listeners of the topics.
Hooked(a) == IF a \in hooks THEN topics[a] ELSE <<>>

\* A deleted reference holder gives its references back.  The fault: it does
\* not.
OthersHeldLonger(a) == refs

OthersHeld(a) == [b \in Addresses |-> refs[b] \ {a}]

\* _on_js_detach and UNREF.
Collect(a) ==
    /\ attached[a] /\ Running /\ ~Held(a)
    /\ FreeEach(Hooked(a) \o Field(Entry(valueHolders, a, None))
                  \o Entry(registers, a, <<>>))
    /\ hooks' = hooks \ {a}
    /\ topics' = [topics EXCEPT ![a] = <<>>]
    /\ valueHolders' = Without(valueHolders, {a})
    /\ attached' = [attached EXCEPT ![a] = FALSE]
    /\ Release([OthersHeld(a) EXCEPT ![a] = @ \ {"value"}],
               IF a \in DOMAIN registers THEN Put(registers, a, <<>>) ELSE registers,
               Without(refHolders, {a}))
    /\ UNCHANGED <<counters, script, property, publication, late>>

\* The methods, which the script may have kept, are freed behind the object.
FreeMethods(a) ==
    /\ Running /\ "methods" \in refs[a] /\ ~attached[a]
    /\ Drop(a, "methods")
    /\ UNCHANGED <<counters, attached, valueHolders, hooks, topics, counts, script,
                   property, publication, late>>

\* The script forgets a function.
Forget(f) ==
    /\ Running /\ f \in script
    /\ script' = script \ {f}
    /\ UNCHANGED <<counters, attached, refs, maps, counts, property, tasks,
                   publication, late>>

-----------------------------------------------------------------------------
\* A holder is made on demand, but only for an object that is attached.
Holdable(a) == Methods(a) /\ attached[a]

\* setField releases what was in the field.
SetValue(a, f) ==
    /\ Holdable(a) /\ f \in script /\ Act
    /\ valueHolders' = Put(valueHolders, a, f)
    /\ LET old == Entry(valueHolders, a, None)
       IN counts' = [g \in Functions |-> counts[g] + Times(g, <<f>>) - Times(g, Field(old))]
    /\ UNCHANGED <<made, attached, refs, refHolders, registers, hooks, topics,
                   script, property, tasks, publication, late>>

RemoveValue(a) ==
    /\ Holdable(a) /\ Entry(valueHolders, a, None) # None
    /\ valueHolders' = Put(valueHolders, a, None)
    /\ FreeEach(<<valueHolders[a]>>)
    /\ UNCHANGED <<counters, attached, refs, refHolders, registers, hooks, topics,
                   script, property, tasks, publication, late>>

\* An object may hold others, also itself and in circles.
SetRef(a, b) ==
    /\ Holdable(a) /\ refs[b] # {} /\ Act
    /\ LET kept == OthersHeld(a)
       IN Release([kept EXCEPT ![b] = @ \cup {a}], registers, Put(refHolders, a, b))
    /\ UNCHANGED <<made, attached, valueHolders, hooks, topics, counts, script,
                   property, publication, late>>

RemoveRef(a) ==
    /\ Holdable(a) /\ Entry(refHolders, a, None) # None
    /\ Release(OthersHeld(a), registers, Put(refHolders, a, None))
    /\ UNCHANGED <<counters, attached, valueHolders, hooks, topics, counts, script,
                   property, publication, late>>

\* A worker promotes its weak pointer, and lets go.
Take(a) ==
    /\ refs[a] # {}
    /\ refs' = [refs EXCEPT ![a] = @ \cup {"worker"}]
    /\ UNCHANGED <<counters, attached, maps, counts, script, property, tasks,
                   publication, late>>

LetGo(a) ==
    /\ "worker" \in refs[a] /\ ~unsent[a]
    /\ Drop(a, "worker")
    /\ UNCHANGED <<counters, attached, valueHolders, hooks, topics, counts, script,
                   property, publication, late>>

-----------------------------------------------------------------------------
Entered(a, f) ==
    /\ f \in script /\ Act
    /\ Dup(<<f>>)
    /\ late' = IF attached[a] THEN late ELSE late \cup {f}

\* _SignalSubscribe and _SignalUnsubscribe: by token, by function, or all.
\* The register is made on demand, also for an object that is collected.
On(a, f) ==
    /\ Methods(a) /\ Entered(a, f)
    /\ registers' = Put(registers, a, Append(Entry(registers, a, <<>>), f))
    /\ UNCHANGED <<made, attached, refs, valueHolders, refHolders,
                   hooks, topics, script, property, tasks, publication>>

\* The first listener that is this function, or 0.
First(listeners, f) == SelectInSeq(listeners, LAMBDA l : l = f)

\* The fault: the listener is released and stays in the list.
FreedOnly(listeners, i) == listeners

Erased(listeners, i) == RemoveAt(listeners, i)

OffAt(a, i) ==
    /\ registers' = Put(registers, a, Erased(registers[a], i))
    /\ FreeEach(<<registers[a][i]>>)

Off(a) ==
    /\ Methods(a) /\ a \in DOMAIN registers /\ registers[a] # <<>>
    /\ \/ \E i \in DOMAIN registers[a] : OffAt(a, i)
       \/ \E f \in script :
            LET i == First(registers[a], f) IN i # 0 /\ OffAt(a, i)
       \/ /\ registers' = Put(registers, a, <<>>)
          /\ FreeEach(registers[a])
    /\ UNCHANGED <<counters, attached, refs, valueHolders, refHolders, hooks, topics,
                   script, property, tasks, publication, late>>

\* _SubscribeTopic and _UnsubscribeTopic: in the object itself.
OnTopic(a, f) ==
    /\ Methods(a) /\ Entered(a, f)
    /\ topics' = [topics EXCEPT ![a] = Append(@, f)]
    /\ UNCHANGED <<made, attached, refs, valueHolders, refHolders,
                   registers, hooks, script, property, tasks, publication>>

OffTopicAt(a, i) ==
    /\ topics' = [topics EXCEPT ![a] = Erased(@, i)]
    /\ FreeEach(<<topics[a][i]>>)

OffTopic(a) ==
    /\ Methods(a) /\ topics[a] # <<>>
    /\ \/ \E i \in DOMAIN topics[a] : OffTopicAt(a, i)
       \/ \E f \in script :
            LET i == First(topics[a], f) IN i # 0 /\ OffTopicAt(a, i)
       \/ /\ topics' = [topics EXCEPT ![a] = <<>>]
          /\ FreeEach(topics[a])
    /\ UNCHANGED <<counters, attached, refs, valueHolders, refHolders, registers,
                   hooks, script, property, tasks, publication, late>>

-----------------------------------------------------------------------------
Task(k, a, v) == [kind |-> k, object |-> a, value |-> v]

\* A publication with the listeners s.
Publish(k, a, s) == publishing' = [kind |-> k, object |-> a, todo |-> s, copies |-> s]

\* _OnSignalMagic: hand the value to the listeners, whose list is copied.
Signal(a, v) ==
    /\ told' = IF attached[a] THEN [told EXCEPT ![a] = v] ELSE told
    /\ IF attached[a] /\ Entry(registers, a, <<>>) # <<>>
         THEN /\ Publish("signal", a, registers[a])
              /\ refs' = [refs EXCEPT ![a] = @ \cup {"task"}]
         ELSE UNCHANGED <<publishing, refs>>

Changed(a, t) ==
    /\ Act
    /\ value' = [value EXCEPT ![a] = acts']
    /\ setters' = [setters EXCEPT ![a] = @ \cup {t}]

\* JQProperty::set by the script, to another value: _call runs the slot at
\* once, which promotes its weak pointer.
SetProperty(a) ==
    /\ Methods(a) /\ publishing = None
    /\ Changed(a, "script")
    /\ Signal(a, value'[a])
    /\ UNCHANGED <<made, attached, maps, counts, script, unsent,
                   tasks, calling, late>>

\* .. by the worker: the value first, then the signal, which makes a task for
\* each slot.  The fault: the task is queued before the others.
WorkerSets(a) ==
    /\ "worker" \in refs[a] /\ ~unsent[a]
    /\ Changed(a, "worker")
    /\ unsent' = [unsent EXCEPT ![a] = TRUE]
    /\ UNCHANGED <<made, attached, refs, maps, counts, script,
                   told, tasks, publication, late>>

QueuedFirst(t) == <<t>> \o tasks

Queued(t) == Append(tasks, t)

WorkerEmits(a) ==
    /\ unsent[a]
    /\ unsent' = [unsent EXCEPT ![a] = FALSE]
    /\ tasks' = Queued(Task("signal", a, value[a]))
    /\ UNCHANGED <<counters, attached, refs, maps, counts, script, value, setters, told,
                   publication, late>>

\* _OnPublish: references to all listeners are taken before the first is
\* called.  The fault: none is taken.
CopiesTaken(s) == UNCHANGED counts

TakeCopies(s) == Dup(s)

OnPublish(k, a) ==
    LET s == IF attached[a] THEN topics[a] ELSE <<>>
    IN Publish(k, a, s) /\ TakeCopies(s)

\* publish by a method of the object, at once; by the worker, as a task that
\* holds the object.
PublishAtOnce(a) ==
    /\ Methods(a) /\ publishing = None /\ attached[a] /\ Act
    /\ OnPublish("now", a)
    /\ UNCHANGED <<made, attached, refs, maps, script, property, tasks,
                   calling, late>>

WorkerPublishes(a) ==
    /\ "worker" \in refs[a] /\ Act
    /\ tasks' = Queued(Task("topic", a, 0))
    /\ refs' = [refs EXCEPT ![a] = @ \cup {"task"}]
    /\ UNCHANGED <<made, attached, maps, counts, script, property,
                   publication, late>>

\* The script thread takes a task.  What it holds is held until Finish.
Deliver ==
    /\ publishing = None /\ tasks # <<>>
    /\ tasks' = Tail(tasks)
    /\ LET t == Head(tasks)
       IN \/ /\ t.kind = "signal"
             /\ Signal(t.object, t.value)
             /\ UNCHANGED counts
          \/ /\ t.kind = "topic"
             /\ OnPublish("task", t.object)
             /\ UNCHANGED <<refs, told>>
    /\ UNCHANGED <<counters, attached, maps, script, value, unsent, setters, calling,
                   late>>

IsSignal == publishing.kind = "signal"

\* The next listener is called; _signalDoPublish takes a reference only now.
CallListener ==
    /\ publishing # None /\ calling = None /\ publishing.todo # <<>>
    /\ calling' = Head(publishing.todo)
    /\ publishing' = [publishing EXCEPT !.todo = Tail(@)]
    /\ IF IsSignal THEN Dup(<<calling'>>) ELSE UNCHANGED counts
    /\ UNCHANGED <<counters, attached, refs, maps, script, property, tasks, late>>

\* It returns; a topic is not published any further behind an exception.
Return ==
    /\ calling # None
    /\ calling' = None
    /\ IF IsSignal THEN FreeEach(<<calling>>) ELSE UNCHANGED counts
    /\ \/ UNCHANGED publishing
       \/ ~IsSignal /\ publishing' = [publishing EXCEPT !.todo = <<>>]
    /\ UNCHANGED <<counters, attached, refs, maps, script, property, tasks, late>>

Waiting(a) == \E i \in DOMAIN tasks : tasks[i].kind = "topic" /\ tasks[i].object = a

Finish ==
    /\ publishing # None /\ calling = None /\ publishing.todo = <<>>
    /\ publishing' = None
    /\ IF IsSignal THEN UNCHANGED counts ELSE FreeEach(publishing.copies)
    /\ IF Waiting(publishing.object)
         THEN UNCHANGED <<refs, registers, refHolders, tasks>>
         ELSE Drop(publishing.object, "task")
    /\ UNCHANGED <<counters, attached, valueHolders, hooks, topics, script, property,
                   calling, late>>

Life(a) == NewInstance(a) \/ Collect(a) \/ FreeMethods(a) \/ Take(a) \/ LetGo(a)

Hold(a) ==
    \/ \E f \in Functions : SetValue(a, f)
    \/ RemoveValue(a)
    \/ \E b \in Addresses : SetRef(a, b)
    \/ RemoveRef(a)

Listen(a) ==
    \/ \E f \in Functions : On(a, f) \/ OnTopic(a, f)
    \/ Off(a) \/ OffTopic(a)

Emit(a) ==
    SetProperty(a) \/ WorkerSets(a) \/ WorkerEmits(a) \/ PublishAtOnce(a) \/ WorkerPublishes(a)

Next ==
    \/ \E a \in Addresses : Life(a) \/ Hold(a) \/ Listen(a) \/ Emit(a)
    \/ \E f \in Functions : Forget(f)
    \/ Deliver \/ CallListener \/ Return \/ Finish

Spec == Init /\ [][Next]_vars

-----------------------------------------------------------------------------
\* Types of the variables.
TypeOK ==
    /\ made \in 0..MaxObjects /\ acts \in 0..MaxActs
    /\ attached \in [Addresses -> BOOLEAN]
    /\ refs \in [Addresses -> SUBSET ({"value", "methods", "worker", "task"} \cup Addresses)]
    /\ DOMAIN valueHolders \cup DOMAIN refHolders \cup DOMAIN registers \cup hooks
         \subseteq Addresses
    /\ counts \in [Functions -> Nat]
    /\ script \subseteq Functions /\ late \subseteq Functions
    /\ value \in [Addresses -> 0..MaxActs] /\ told \in [Addresses -> 0..MaxActs]
    /\ calling \in Functions \cup {None}

\* The functions in the slots of an object, and those a publication holds.
Slots(a) ==
    topics[a] \o Entry(registers, a, <<>>) \o Field(Entry(valueHolders, a, None))

Here ==
    IF publishing = None THEN <<>>
    ELSE IF IsSignal THEN Field(calling)
    ELSE publishing.copies

\* How many of them are f.
Owned(f) ==
    Times(f, Here) + Cardinality(UNION {{a} \X Places(f, Slots(a)) : a \in Addresses})

\* The functions of the script are counted right: none is released while a
\* slot refers to it, and none is kept when no slot does, unless it was given
\* to an object behind its collection, when nobody frees it any more.
RefsBalanced ==
    \A f \in Functions :
        /\ counts[f] >= Owned(f)
        /\ f \notin late => counts[f] = Owned(f)

\* A new object never finds what an earlier one at its address has left in
\* the maps of the template, nor a change of the earlier one's property in
\* the queue.
DeadLeavesNothing ==
    \A a \in Addresses : refs[a] = {} =>
        /\ a \notin DOMAIN valueHolders \cup DOMAIN refHolders \cup DOMAIN registers \cup hooks
        /\ \A i \in DOMAIN tasks : tasks[i].object # a

\* An object that neither the script nor the native side uses is gone, even if
\* objects hold each other in a circle.
CirclesGo ==
    \A a \in Addresses : refs[a] # {} =>
        \/ refs[a] \cap {"value", "methods", "worker", "task"} # {}
        \/ \E b \in Addresses : b \in refs[a] /\ attached[b]

\* Whatever a callback of a topic unsubscribes or collects, those behind it
\* are still there when their turn comes.
TopicCallsLive ==
    publishing # None /\ ~IsSignal =>
        \A f \in Range(publishing.todo) \cup Range(Field(calling)) : ~Freed(f)

\* If one thread only sets the property, its last value is the last one that
\* the script is told.
LastToldIsCurrent ==
    \A a \in Addresses :
        /\ attached[a] /\ ~unsent[a] /\ Cardinality(setters[a]) = 1
        /\ \A i \in DOMAIN tasks : tasks[i].kind = "topic" \/ tasks[i].object # a
        => told[a] = value[a]
=============================================================================
