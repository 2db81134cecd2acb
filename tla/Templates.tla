------------------------------ MODULE Templates ------------------------------
(***************************************************************************)
(* Classes and objects that a native module gives to the script            *)
(* (native/sdk .. JQFunctionTemplate, JQObjectTemplate): a function        *)
(* template has, when asked for them, an object template of its instances  *)
(* and one of its prototype; an object made from a template gets its       *)
(* properties at that moment, but what a call of one of them does is looked *)
(* up in the template when it is called.  An asynchronous method needs a   *)
(* native object behind its `this': it is made when the object is.         *)
(*                                                                         *)
(* The script constructs with `new F', or `F()' where that is allowed, and *)
(* calls the methods that it finds on an object, with that object.         *)
(***************************************************************************)
CONSTANTS
    ObjectTpls, Functions, Objects, Props,
    Kinds,      \* kinds of properties
    Async,      \* those that are asynchronous: ASYNC, ASYNC_STD, PROMISE
    Called,     \* those whose functions end in Caller
    None        \* no template, object, property or kind

ASSUME TemplatesAssumption ==
    /\ Async \subseteq Called /\ Called \subseteq Kinds
    /\ None \notin ObjectTpls \cup Objects \cup Kinds

VARIABLES
    tpls,       \* the object templates in use
    props,      \* their _propertyMap
    creator,    \* those with an _objCreator
    funs,       \* the function templates in use
    inst,       \* their _instanceTpl
    proto,      \* their _prototypeTpl
    born,       \* the objects of the script
    from,       \* the template that gave an object its properties
    has,        \* these properties
    native,     \* the objects with a native object
    parent,     \* the prototype of an object
    ctors       \* the functions made from function templates: [of, prototype]

templates == <<tpls, props, creator, funs, inst, proto, born, from, has, native, parent, ctors>>
classes == <<tpls, props, creator, funs, inst, proto>>
instances == <<born, from, has, native, parent, ctors>>

Init ==
    /\ tpls = {} /\ props = [t \in ObjectTpls |-> [p \in Props |-> None]]
    /\ creator = {}
    /\ funs = {} /\ inst = [f \in Functions |-> None] /\ proto = [f \in Functions |-> None]
    /\ born = {} /\ from = [o \in Objects |-> None]
    /\ has = [o \in Objects |-> [p \in Props |-> None]]
    /\ native = {} /\ parent = [o \in Objects |-> None]
    /\ ctors = {}

HasAsync(t) == \E p \in Props : props[t][p] \in Async

-----------------------------------------------------------------------------
\* JQObjectTemplate::New, JQFunctionTemplate::New.
NewObjectTpl ==
    /\ \E t \in ObjectTpls \ tpls : tpls' = tpls \cup {t}
    /\ UNCHANGED <<props, creator, funs, inst, proto, instances>>

NewFunction ==
    /\ \E f \in Functions \ funs : funs' = funs \cup {f}
    /\ UNCHANGED <<tpls, props, creator, inst, proto, instances>>

\* InstanceTemplate, PrototypeTemplate: made when they are asked for.
InstanceTemplate ==
    \E f \in funs, t \in ObjectTpls \ tpls :
        /\ inst[f] = None
        /\ inst' = [inst EXCEPT ![f] = t] /\ tpls' = tpls \cup {t}
        /\ UNCHANGED <<props, creator, funs, proto, instances>>

PrototypeOf(f, t) ==
    \/ t = proto[f] /\ t # None /\ UNCHANGED <<tpls, proto>>
    \/ /\ proto[f] = None /\ t \in ObjectTpls \ tpls
       /\ proto' = [proto EXCEPT ![f] = t] /\ tpls' = tpls \cup {t}

PrototypeTemplate ==
    \E f \in funs, t \in ObjectTpls :
        /\ PrototypeOf(f, t)
        /\ UNCHANGED <<props, creator, funs, inst, instances>>

\* _setProperty: emplace keeps the first property of a name.
SetProperty(t, p, k) ==
    props' = IF props[t][p] = None THEN [props EXCEPT ![t][p] = k] ELSE props

\* Set, SetAccessor, _SetAsync, _SetAsyncStd, _SetPromise.
Set ==
    \E t \in tpls, p \in Props, k \in Kinds :
        /\ SetProperty(t, p, k)
        /\ UNCHANGED <<tpls, creator, funs, inst, proto, instances>>

\* SetProtoMethod, SetProtoMethodAsync, SetProtoAccessor ...
SetProto ==
    \E f \in funs, t \in ObjectTpls, p \in Props, k \in Kinds :
        /\ PrototypeOf(f, t)
        /\ SetProperty(t, p, k)
        /\ UNCHANGED <<creator, funs, inst, instances>>

SetObjectCreator ==
    \E t \in tpls :
        /\ creator' = creator \cup {t}
        /\ UNCHANGED <<tpls, props, funs, inst, proto, instances>>

\* clone: the copies have what the originals have now.
Copy(t, c, of) == [of EXCEPT ![c] = of[t]]

CloneObject ==
    \E t \in tpls, c \in ObjectTpls \ tpls :
        /\ tpls' = tpls \cup {c}
        /\ props' = Copy(t, c, props)
        /\ creator' = IF t \in creator THEN creator \cup {c} ELSE creator
        /\ UNCHANGED <<funs, inst, proto, instances>>

CloneAs(f, g, c, d) ==
    /\ c = None <=> inst[f] = None
    /\ d = None <=> proto[f] = None
    /\ c = None \/ c # d
    /\ funs' = funs \cup {g}
    /\ inst' = [inst EXCEPT ![g] = c] /\ proto' = [proto EXCEPT ![g] = d]
    /\ tpls' = tpls \cup ({c, d} \ {None})
    /\ props' = [t \in ObjectTpls |->
                    IF t = c THEN props[inst[f]]
                    ELSE IF t = d THEN props[proto[f]] ELSE props[t]]
    /\ creator' = creator \cup {t \in ObjectTpls :
                                   \/ t = c /\ inst[f] \in creator
                                   \/ t = d /\ proto[f] \in creator}
    /\ UNCHANGED instances

CloneFunction ==
    \E f \in funs, g \in Functions \ funs :
    \E c, d \in (ObjectTpls \ tpls) \cup {None} : CloneAs(f, g, c, d)

-----------------------------------------------------------------------------
\* NewInstance and injectProperties: o is made from t, or is a plain object.
NewInstance(o, t, force, prototype) ==
    /\ born' = born \cup {o}
    /\ from' = [from EXCEPT ![o] = t]
    /\ has' = IF t = None THEN has ELSE [has EXCEPT ![o] = props[t]]
    /\ native' = IF t # None /\ (force \/ t \in creator \/ HasAsync(t))
                   THEN native \cup {o} ELSE native
    /\ parent' = [parent EXCEPT ![o] = prototype]

\* An object template may be instantiated by itself.
Instantiate ==
    \E t \in tpls, o \in Objects \ born :
        /\ NewInstance(o, t, FALSE, None)
        /\ UNCHANGED <<classes, ctors>>

\* GetFunction: the prototype object is made from its template, as it is now.
GetFunction ==
    \E f \in funs, o \in Objects \ born :
        /\ NewInstance(o, proto[f], FALSE, None)
        /\ ctors' = ctors \cup {[of |-> f, prototype |-> o]}
        /\ UNCHANGED classes

\* The fault: only the template of the instances is asked.
ForcesForInstance(f) == inst[f] # None /\ HasAsync(inst[f])

\* InstanceCtor: an asynchronous method in the prototype needs a native object
\* behind the instance.
Forces(f) == proto[f] # None /\ HasAsync(proto[f])

\* new F: then there must be a template of the instances, too.
New ==
    \E c \in ctors, o \in Objects \ born, t \in ObjectTpls \cup {None} :
        /\ IF inst[c.of] # None \/ ~Forces(c.of)
           THEN /\ t = inst[c.of]
                /\ UNCHANGED <<tpls, inst>>
           ELSE /\ t \in ObjectTpls \ tpls
                /\ tpls' = tpls \cup {t}
                /\ inst' = [inst EXCEPT ![c.of] = t]
        /\ NewInstance(o, t, Forces(c.of), c.prototype)
        /\ UNCHANGED <<props, creator, funs, proto, ctors>>

\* F(): an error if F has a template of its prototype.
CallAsFunction ==
    \E c \in ctors, o \in Objects \ born :
        /\ proto[c.of] = None
        /\ NewInstance(o, inst[c.of], FALSE, None)
        /\ UNCHANGED <<classes, ctors>>

Next ==
    \/ NewObjectTpl \/ NewFunction \/ InstanceTemplate \/ PrototypeTemplate
    \/ Set \/ SetProto \/ SetObjectCreator \/ CloneObject \/ CloneFunction
    \/ Instantiate \/ GetFunction \/ New \/ CallAsFunction

Spec == Init /\ [][Next]_templates

-----------------------------------------------------------------------------
\* Where the script finds p of o: at the object itself or at its prototype.
Found(o, p) == IF has[o][p] # None \/ parent[o] = None THEN o ELSE parent[o]

\* Caller, for the property that was injected as a function: it aborts if the
\* template now has something else there, and if an asynchronous method has no
\* native object to register its callback at.
Aborts(o, p) ==
    LET e == Found(o, p)
        kind == props[from[e]][p]
    IN \/ kind \notin Called
       \/ kind \in Async /\ o \notin native

\* Whatever is set on the templates, and when, before or after objects were made
\* from them or from their clones: a method that the script finds on an object can
\* be called with that object without aborting the process.
CallsAnswered ==
    \A o \in born, p \in Props :
        has[Found(o, p)][p] \in Called => ~Aborts(o, p)
=============================================================================
