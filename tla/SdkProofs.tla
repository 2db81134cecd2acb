------------------------------ MODULE SdkProofs ------------------------------
(***************************************************************************)
(* Proofs about four parts of the SDK that share no state.                 *)
(*                                                                         *)
(* The templates: for any number of templates, functions, objects and      *)
(* properties, a method that the script finds can be called.  What a call  *)
(* does is looked up in the template, so two things must survive every     *)
(* later step: the template still has under the name what it had when the  *)
(* object was made (Kept), and an object that finds an asynchronous        *)
(* method, at itself or at its prototype, has a native object (Backed,     *)
(* Inherits).  The second holds because whether a function forces one is   *)
(* never taken back (Forcing).                                             *)
(*                                                                         *)
(* The environment of a module: every reference to a JS value has one      *)
(* owner, and none is freed twice.                                         *)
(*                                                                         *)
(* The bounded cache: it keeps what was used last within its limit and     *)
(* tells of every entry that goes, for any number of threads.              *)
(*                                                                         *)
(* The codec: a text is read as what it means, and a value that is written *)
(* and read comes back.  The parser, the grammar and the writer are        *)
(* functions that name themselves on what is smaller: later in the text,   *)
(* a shorter span, a longer place.  So there are such functions, by        *)
(* induction over that measure, and what they agree on at the end they     *)
(* agree on everywhere.                                                    *)
(***************************************************************************)
EXTENDS Bson, Templates, ModuleEnv, LruCache, FiniteSetTheorems, SequenceTheorems,
        WellFoundedInduction, TLAPS

-----------------------------------------------------------------------------
(* The templates. *)

TemplateTypes ==
    /\ tpls \subseteq ObjectTpls
    /\ props \in [ObjectTpls -> [Props -> Kinds \cup {None}]]
    /\ funs \subseteq Functions
    /\ inst \in [Functions -> ObjectTpls \cup {None}]
    /\ proto \in [Functions -> ObjectTpls \cup {None}]
    /\ \A f \in Functions : {inst[f], proto[f]} \subseteq tpls \cup {None}
    /\ \A f \in Functions \ funs : proto[f] = None

InstanceTypes ==
    /\ born \subseteq Objects
    /\ from \in [Objects -> ObjectTpls \cup {None}]
    /\ has \in [Objects -> [Props -> Kinds \cup {None}]]
    /\ native \subseteq Objects
    /\ parent \in [Objects -> Objects \cup {None}]
    /\ \A o \in Objects : from[o] \in tpls \cup {None} /\ parent[o] \in born \cup {None}
    /\ ctors \subseteq [of : Functions, prototype : born]

\* What an object has it has from its template, where it still is.
Kept == \A o \in Objects, p \in Props :
    has[o][p] # None => from[o] # None /\ props[from[o]][p] = has[o][p]

\* An asynchronous property needs a native object,
Backed == \A o \in Objects, p \in Props : has[o][p] \in Async => o \in native

\* also when it is the prototype's,
Inherits == \A o \in Objects, p \in Props :
    parent[o] # None /\ has[parent[o]][p] \in Async => o \in native

\* which is why the function of that prototype forces one.
Forcing == \A c \in ctors, p \in Props :
    has[c.prototype][p] \in Async => Forces(c.of)

\* Objects that are not made yet have nothing.
Unborn == \A o \in Objects \ born, p \in Props : has[o][p] = None

TplInv ==
    /\ TemplateTypes /\ InstanceTypes
    /\ Kept /\ Backed /\ Inherits /\ Forcing /\ Unborn

\* What no step takes back: templates, their properties and prototypes.
Grows ==
    /\ tpls \subseteq tpls'
    /\ \A t \in tpls, p \in Props : props[t][p] # None => props'[t][p] = props[t][p]
    /\ \A f \in Functions : proto[f] # None => proto'[f] = proto[f]

-----------------------------------------------------------------------------
\* The initial state has neither templates nor objects.
LEMMA TplInit == Init => TplInv
<1>1. SUFFICES ASSUME Init PROVE TplInv
  OBVIOUS
<1>2. \A o \in Objects, p \in Props : has[o][p] = None /\ parent[o] = None
  BY <1>1 DEF Init
<1>3. None \notin Async
  BY TemplatesAssumption
<1>4. TemplateTypes /\ InstanceTypes
  BY <1>1 DEF Init, TemplateTypes, InstanceTypes
<1> QED
  BY <1>1, <1>2, <1>3, <1>4 DEF TplInv, Kept, Backed, Inherits, Forcing, Unborn, Init

\* A function that forces a native object goes on to do so.
LEMMA ForcesStays ==
    ASSUME TplInv, Grows, NEW f \in Functions, Forces(f)
    PROVE  Forces(f)'
<1>1. proto[f] \in tpls /\ proto[f] # None
  BY DEF TplInv, TemplateTypes, Forces
<1>2. PICK p \in Props : props[proto[f]][p] \in Async
  BY DEF Forces, HasAsync
<1>3. props[proto[f]][p] # None
  BY <1>2, TemplatesAssumption
<1>4. props'[proto[f]][p] \in Async /\ proto'[f] = proto[f]
  BY <1>1, <1>2, <1>3 DEF Grows
<1> QED
  BY <1>1, <1>4 DEF Forces, HasAsync

\* A step that only lets the templates grow leaves every object as it was.
LEMMA ClassStep ==
    ASSUME TplInv, Grows, TemplateTypes', UNCHANGED instances
    PROVE  TplInv'
<1>1. InstanceTypes'
  BY DEF TplInv, InstanceTypes, TemplateTypes, Grows, instances
<1>2. Kept'
  <2>1. SUFFICES ASSUME NEW o \in Objects, NEW p \in Props, has[o][p] # None
                 PROVE  from[o] # None /\ props'[from[o]][p] = has[o][p]
    BY DEF Kept, instances
  <2>2. from[o] \in tpls /\ props[from[o]][p] = has[o][p] /\ from[o] # None
    BY <2>1 DEF TplInv, Kept, InstanceTypes
  <2> QED
    BY <2>1, <2>2 DEF Grows
<1>3. Backed' /\ Inherits' /\ Unborn'
  BY DEF TplInv, Backed, Inherits, Unborn, instances
<1>4. Forcing'
  <2>1. SUFFICES ASSUME NEW c \in ctors, NEW p \in Props, has[c.prototype][p] \in Async
                 PROVE  Forces(c.of)'
    BY DEF Forcing, instances, Forces, HasAsync
  <2>2. c.of \in Functions /\ Forces(c.of)
    BY <2>1 DEF TplInv, InstanceTypes, Forcing
  <2> QED
    BY <2>2, ForcesStays
<1> QED
  BY <1>1, <1>2, <1>3, <1>4 DEF TplInv

\* Making a template for a function, or finding it, changes nothing that is there.
LEMMA PrototypeGrows ==
    ASSUME TemplateTypes, NEW f \in Functions, NEW t \in ObjectTpls, PrototypeOf(f, t)
    PROVE  /\ t \in tpls' /\ tpls \subseteq tpls' /\ tpls' \subseteq ObjectTpls
           /\ proto' \in [Functions -> ObjectTpls \cup {None}]
           /\ \A g \in Functions : /\ proto[g] # None \/ g # f => proto'[g] = proto[g]
                                   /\ proto'[g] \in tpls' \cup {None}
  BY DEF TemplateTypes, PrototypeOf

\* emplace does not replace.
LEMMA SetKeeps ==
    ASSUME TemplateTypes, NEW t \in ObjectTpls, NEW p \in Props, NEW k \in Kinds,
           SetProperty(t, p, k)
    PROVE  /\ props' \in [ObjectTpls -> [Props -> Kinds \cup {None}]]
           /\ \A u \in tpls, q \in Props : props[u][q] # None => props'[u][q] = props[u][q]
  BY DEF TemplateTypes, SetProperty

\* Every operation on the classes lets them grow.
LEMMA ClassesGrow ==
    ASSUME TplInv,
           \/ NewObjectTpl \/ NewFunction \/ InstanceTemplate \/ PrototypeTemplate
           \/ Set \/ SetProto \/ SetObjectCreator \/ CloneObject \/ CloneFunction
    PROVE  TplInv'
<1> USE DEF TplInv
<1>1. CASE NewObjectTpl
  <2>1. TemplateTypes' /\ Grows /\ UNCHANGED instances
    BY <1>1 DEF NewObjectTpl, TemplateTypes, Grows
  <2> QED
    BY <2>1, ClassStep
<1>2. CASE NewFunction
  <2>1. TemplateTypes' /\ Grows /\ UNCHANGED instances
    BY <1>2 DEF NewFunction, TemplateTypes, Grows
  <2> QED
    BY <2>1, ClassStep
<1>3. CASE InstanceTemplate
  <2>1. TemplateTypes' /\ Grows /\ UNCHANGED instances
    BY <1>3 DEF InstanceTemplate, TemplateTypes, Grows
  <2> QED
    BY <2>1, ClassStep
<1>4. CASE PrototypeTemplate
  <2>1. PICK f \in funs, t \in ObjectTpls :
            PrototypeOf(f, t) /\ UNCHANGED <<props, creator, funs, inst, instances>>
    BY <1>4 DEF PrototypeTemplate
  <2>2. f \in Functions
    BY DEF TemplateTypes
  <2>3. TemplateTypes' /\ Grows
    BY <2>1, <2>2, PrototypeGrows DEF TemplateTypes, Grows
  <2> QED
    BY <2>1, <2>3, ClassStep
<1>5. CASE Set
  <2>1. PICK t \in tpls, p \in Props, k \in Kinds :
            SetProperty(t, p, k) /\ UNCHANGED <<tpls, creator, funs, inst, proto, instances>>
    BY <1>5 DEF Set
  <2>2. t \in ObjectTpls
    BY DEF TemplateTypes
  <2>3. TemplateTypes' /\ Grows
    BY <2>1, <2>2, SetKeeps DEF TemplateTypes, Grows
  <2> QED
    BY <2>1, <2>3, ClassStep
<1>6. CASE SetProto
  <2>1. PICK f \in funs, t \in ObjectTpls, p \in Props, k \in Kinds :
            /\ PrototypeOf(f, t) /\ SetProperty(t, p, k)
            /\ UNCHANGED <<creator, funs, inst, instances>>
    BY <1>6 DEF SetProto
  <2>2. f \in Functions
    BY DEF TemplateTypes
  <2>3. TemplateTypes' /\ Grows
    BY <2>1, <2>2, PrototypeGrows, SetKeeps DEF TemplateTypes, Grows
  <2> QED
    BY <2>1, <2>3, ClassStep
<1>7. CASE SetObjectCreator
  <2>1. TemplateTypes' /\ Grows /\ UNCHANGED instances
    BY <1>7 DEF SetObjectCreator, TemplateTypes, Grows
  <2> QED
    BY <2>1, ClassStep
<1>8. CASE CloneObject
  <2>1. TemplateTypes' /\ Grows /\ UNCHANGED instances
    BY <1>8 DEF CloneObject, Copy, TemplateTypes, Grows
  <2> QED
    BY <2>1, ClassStep
<1>9. CASE CloneFunction
  <2>1. PICK f \in funs, g \in Functions \ funs,
             c \in (ObjectTpls \ tpls) \cup {None}, d \in (ObjectTpls \ tpls) \cup {None} :
            CloneAs(f, g, c, d)
    BY <1>9 DEF CloneFunction
  <2>2. inst[f] \in ObjectTpls \cup {None} /\ proto[f] \in ObjectTpls \cup {None}
    BY DEF TemplateTypes
  <2>3. props' \in [ObjectTpls -> [Props -> Kinds \cup {None}]]
    BY <2>1, <2>2, TemplatesAssumption DEF TemplateTypes, CloneAs
  <2>4. \A t \in tpls : props'[t] = props[t]
    BY <2>1, TemplatesAssumption DEF TemplateTypes, CloneAs
  <2>5. TemplateTypes'
    BY <2>1, <2>3 DEF TemplateTypes, CloneAs
  <2>6. Grows
    BY <2>1, <2>4 DEF TemplateTypes, Grows, CloneAs
  <2> QED
    BY <2>1, <2>5, <2>6, ClassStep DEF CloneAs
<1> QED
  BY <1>1, <1>2, <1>3, <1>4, <1>5, <1>6, <1>7, <1>8, <1>9

-----------------------------------------------------------------------------
\* A new object is in order, and the others stay in order, if it has a native
\* object whenever its prototype asks for one.
LEMMA NewInOrder ==
    ASSUME TplInv, TemplateTypes', Grows, UNCHANGED props,
           NEW o \in Objects \ born, NEW t \in tpls' \cup {None}, NEW force \in BOOLEAN,
           NEW q \in born \cup {None}, NewInstance(o, t, force, q),
           \A p \in Props : q # None /\ has[q][p] \in Async => force /\ t # None
    PROVE  /\ Kept' /\ Backed' /\ Inherits' /\ Unborn'
           /\ ctors' \subseteq [of : Functions, prototype : born'] => InstanceTypes'
<1> USE DEF TplInv
<1>1. o \in Objects /\ o \notin born /\ o # None /\ None \notin Async
  BY TemplatesAssumption
<1>2. has' \in [Objects -> [Props -> Kinds \cup {None}]]
  <2>1. t # None => props[t] \in [Props -> Kinds \cup {None}]
    BY DEF TemplateTypes
  <2> QED
    BY <2>1 DEF NewInstance, InstanceTypes
<1>3. ASSUME NEW x \in Objects, x # o
      PROVE  /\ has'[x] = has[x] /\ from'[x] = from[x] /\ parent'[x] = parent[x]
             /\ x \in native => x \in native'
             /\ parent'[x] # o
  BY <1>1, <1>3 DEF NewInstance, InstanceTypes
<1>4. from'[o] = t /\ parent'[o] = q /\ q # o
  BY <1>1 DEF NewInstance, InstanceTypes
<1>5. \A p \in Props : has'[o][p] = IF t = None THEN None ELSE props[t][p]
  BY <1>1 DEF NewInstance, InstanceTypes, Unborn
<1>6. Kept'
  <2>1. SUFFICES ASSUME NEW x \in Objects, NEW p \in Props, has'[x][p] # None
                 PROVE  from'[x] # None /\ props[from'[x]][p] = has'[x][p]
    BY DEF Kept
  <2>2. CASE x = o
    BY <2>1, <2>2, <1>4, <1>5
  <2>3. CASE x # o
    BY <2>1, <2>3, <1>3 DEF Kept
  <2> QED
    BY <2>2, <2>3
<1>7. Backed'
  <2>1. SUFFICES ASSUME NEW x \in Objects, NEW p \in Props, has'[x][p] \in Async
                 PROVE  x \in native'
    BY DEF Backed
  <2>2. CASE x = o
    <3>1. t # None /\ HasAsync(t)
      BY <2>1, <2>2, <1>1, <1>5 DEF HasAsync
    <3> QED
      BY <2>2, <3>1 DEF NewInstance
  <2>3. CASE x # o
    BY <2>1, <2>3, <1>3 DEF Backed
  <2> QED
    BY <2>2, <2>3
<1>8. Inherits'
  <2>1. SUFFICES ASSUME NEW x \in Objects, NEW p \in Props,
                        parent'[x] # None, has'[parent'[x]][p] \in Async
                 PROVE  x \in native'
    BY DEF Inherits
  <2>2. CASE x = o
    <3>1. q # None /\ q \in Objects /\ has'[q] = has[q]
      BY <2>1, <2>2, <1>3, <1>4 DEF InstanceTypes
    <3>2. force /\ t # None
      BY <2>1, <2>2, <1>4, <3>1
    <3> QED
      BY <2>2, <3>2 DEF NewInstance
  <2>3. CASE x # o
    <3>1. parent[x] \in Objects /\ parent[x] # o /\ parent[x] # None /\ parent'[x] = parent[x]
      BY <2>1, <2>3, <1>3 DEF InstanceTypes
    <3>2. has'[parent[x]] = has[parent[x]]
      BY <3>1, <1>3
    <3> QED
      BY <2>1, <2>3, <3>1, <3>2, <1>3 DEF Inherits
  <2> QED
    BY <2>2, <2>3
<1>9. Unborn'
  BY <1>3 DEF Unborn, NewInstance
<1>10. ctors' \subseteq [of : Functions, prototype : born'] => InstanceTypes'
  <2>1. /\ born' \subseteq Objects /\ native' \subseteq Objects
        /\ from' \in [Objects -> ObjectTpls \cup {None}]
        /\ parent' \in [Objects -> Objects \cup {None}]
    BY DEF NewInstance, InstanceTypes, TemplateTypes
  <2>2. \A x \in Objects : from'[x] \in tpls' \cup {None} /\ parent'[x] \in born' \cup {None}
    <3>1. born \subseteq born' /\ tpls \subseteq tpls'
      BY DEF NewInstance, Grows
    <3> SUFFICES ASSUME NEW x \in Objects
                 PROVE  from'[x] \in tpls' \cup {None} /\ parent'[x] \in born' \cup {None}
      OBVIOUS
    <3>2. CASE x = o
      BY <3>1, <3>2, <1>4
    <3>3. CASE x # o
      BY <3>1, <3>3, <1>3 DEF InstanceTypes
    <3> QED
      BY <3>2, <3>3
  <2> QED
    BY <2>1, <2>2, <1>2 DEF InstanceTypes
<1> QED
  BY <1>6, <1>7, <1>8, <1>9, <1>10

\* The functions that were there go on to force a native object.
LEMMA ForcingStays ==
    ASSUME TplInv, Grows, NEW c \in ctors, NEW p \in Props, NEW o \in Objects \ born,
           NEW t, NEW force, NEW q, NewInstance(o, t, force, q),
           has'[c.prototype][p] \in Async
    PROVE  Forces(c.of)'
<1>1. c.of \in Functions /\ c.prototype \in born /\ c.prototype \in Objects
  BY DEF TplInv, InstanceTypes
<1>2. has'[c.prototype] = has[c.prototype]
  BY <1>1 DEF NewInstance, TplInv, InstanceTypes
<1> QED
  BY <1>1, <1>2, ForcesStays DEF TplInv, Forcing

\* A step that makes an object and no function.
LEMMA ObjectStep ==
    ASSUME TplInv, TemplateTypes', Grows, UNCHANGED <<props, ctors>>,
           NEW o \in Objects \ born, NEW t \in tpls' \cup {None}, NEW force \in BOOLEAN,
           NEW q \in born \cup {None}, NewInstance(o, t, force, q),
           \A p \in Props : q # None /\ has[q][p] \in Async => force /\ t # None
    PROVE  TplInv'
<1>1. ctors' \subseteq [of : Functions, prototype : born']
  BY DEF TplInv, InstanceTypes, NewInstance
<1>2. Forcing'
  <2>1. SUFFICES ASSUME NEW c \in ctors, NEW p \in Props, has'[c.prototype][p] \in Async
                 PROVE  Forces(c.of)'
    BY DEF Forcing, Forces, HasAsync
  <2> QED
    BY <2>1, ForcingStays
<1> QED
  BY <1>1, <1>2, NewInOrder DEF TplInv

-----------------------------------------------------------------------------
\* An object made from its template alone has no prototype to ask.
LEMMA InstantiateStep == TplInv /\ Instantiate => TplInv'
<1>1. SUFFICES ASSUME TplInv, Instantiate PROVE TplInv'
  OBVIOUS
<1>2. PICK t \in tpls, o \in Objects \ born :
          NewInstance(o, t, FALSE, None) /\ UNCHANGED <<classes, ctors>>
  BY <1>1 DEF Instantiate
<1>3. TemplateTypes' /\ Grows /\ t \in tpls'
  BY <1>1, <1>2 DEF TplInv, TemplateTypes, Grows, classes
<1> QED
  BY <1>1, <1>2, <1>3, ObjectStep DEF classes

\* Nor has what a function makes that is called without new.
LEMMA CallStep == TplInv /\ CallAsFunction => TplInv'
<1>1. SUFFICES ASSUME TplInv, CallAsFunction PROVE TplInv'
  OBVIOUS
<1>2. PICK c \in ctors, o \in Objects \ born :
          NewInstance(o, inst[c.of], FALSE, None) /\ UNCHANGED <<classes, ctors>>
  BY <1>1 DEF CallAsFunction
<1>3. c.of \in Functions
  BY <1>1 DEF TplInv, InstanceTypes
<1>4. TemplateTypes' /\ Grows /\ inst[c.of] \in tpls' \cup {None}
  BY <1>1, <1>2, <1>3 DEF TplInv, TemplateTypes, Grows, classes
<1> QED
  BY <1>1, <1>2, <1>4, ObjectStep DEF classes

\* An instance of a function whose prototype is asynchronous has a native object.
LEMMA NewStep == TplInv /\ New => TplInv'
<1>1. SUFFICES ASSUME TplInv, New PROVE TplInv'
  OBVIOUS
<1>2. PICK c \in ctors, o \in Objects \ born, t \in ObjectTpls \cup {None} :
          /\ IF inst[c.of] # None \/ ~Forces(c.of)
             THEN t = inst[c.of] /\ UNCHANGED <<tpls, inst>>
             ELSE /\ t \in ObjectTpls \ tpls
                  /\ tpls' = tpls \cup {t}
                  /\ inst' = [inst EXCEPT ![c.of] = t]
          /\ NewInstance(o, t, Forces(c.of), c.prototype)
          /\ UNCHANGED <<props, creator, funs, proto, ctors>>
  BY <1>1 DEF New
<1>3. c.of \in Functions /\ c.prototype \in born /\ c.prototype \in Objects
  BY <1>1 DEF TplInv, InstanceTypes
<1>4. TemplateTypes' /\ Grows /\ t \in tpls' \cup {None}
  BY <1>1, <1>2, <1>3 DEF TplInv, TemplateTypes, Grows
<1>5. Forces(c.of) \in BOOLEAN /\ (Forces(c.of) => t # None)
  BY <1>2, TemplatesAssumption DEF Forces
<1>6. \A p \in Props : has[c.prototype][p] \in Async => Forces(c.of)
  BY <1>1 DEF TplInv, Forcing
<1> QED
  BY <1>1, <1>2, <1>3, <1>4, <1>5, <1>6, ObjectStep

\* A function is made with its prototype, and forces what that one asks for.
LEMMA FunctionStep == TplInv /\ GetFunction => TplInv'
<1>1. SUFFICES ASSUME TplInv, GetFunction PROVE TplInv'
  OBVIOUS
<1>2. PICK f \in funs, o \in Objects \ born :
          /\ NewInstance(o, proto[f], FALSE, None)
          /\ ctors' = ctors \cup {[of |-> f, prototype |-> o]}
          /\ UNCHANGED classes
  BY <1>1 DEF GetFunction
<1>3. f \in Functions
  BY <1>1 DEF TplInv, TemplateTypes
<1>4. TemplateTypes' /\ Grows /\ UNCHANGED props /\ proto[f] \in tpls' \cup {None}
  BY <1>1, <1>2, <1>3 DEF TplInv, TemplateTypes, Grows, classes
<1>5. ctors' \subseteq [of : Functions, prototype : born']
  BY <1>1, <1>2, <1>3 DEF TplInv, InstanceTypes, NewInstance
<1>6. Forcing'
  <2>1. SUFFICES ASSUME NEW c \in ctors', NEW p \in Props, has'[c.prototype][p] \in Async
                 PROVE  Forces(c.of)'
    BY DEF Forcing, Forces, HasAsync
  <2>2. CASE c \in ctors
    BY <1>1, <1>2, <1>4, <2>1, <2>2, ForcingStays
  <2>3. CASE c = [of |-> f, prototype |-> o]
    <3>1. has'[o][p] = IF proto[f] = None THEN None ELSE props[proto[f]][p]
      BY <1>1, <1>2 DEF TplInv, InstanceTypes, Unborn, NewInstance
    <3>2. proto[f] # None /\ props[proto[f]][p] \in Async
      BY <2>1, <2>3, <3>1, TemplatesAssumption
    <3>3. Forces(f)
      BY <3>2 DEF Forces, HasAsync
    <3> QED
      BY <1>1, <1>3, <1>4, <2>3, <3>3, ForcesStays
  <2> QED
    BY <1>2, <2>2, <2>3
<1>7. Kept' /\ Backed' /\ Inherits' /\ Unborn' /\ InstanceTypes'
  <2>1. \A p \in Props : None # None /\ has[None][p] \in Async => FALSE /\ proto[f] # None
    OBVIOUS
  <2> QED
    BY <1>1, <1>2, <1>4, <1>5, <2>1, NewInOrder
<1> QED
  BY <1>4, <1>6, <1>7 DEF TplInv

\* Every operation on classes and objects keeps the invariant.
THEOREM TplStep == TplInv /\ [Next]_templates => TplInv'
<1>1. SUFFICES ASSUME TplInv, [Next]_templates PROVE TplInv'
  OBVIOUS
<1>2. CASE \/ NewObjectTpl \/ NewFunction \/ InstanceTemplate \/ PrototypeTemplate
           \/ Set \/ SetProto \/ SetObjectCreator \/ CloneObject \/ CloneFunction
  BY <1>1, <1>2, ClassesGrow
<1>3. CASE Instantiate
  BY <1>1, <1>3, InstantiateStep
<1>4. CASE GetFunction
  BY <1>1, <1>4, FunctionStep
<1>5. CASE New
  BY <1>1, <1>5, NewStep
<1>6. CASE CallAsFunction
  BY <1>1, <1>6, CallStep
<1>7. CASE UNCHANGED templates
  BY <1>1, <1>7 DEF templates, TplInv, TemplateTypes, InstanceTypes, Kept, Backed,
                    Inherits, Forcing, Unborn, Forces, HasAsync
<1> QED
  BY <1>1, <1>2, <1>3, <1>4, <1>5, <1>6, <1>7 DEF Next

\* The invariant is enough: a call finds what was injected, and an asynchronous one
\* its native object.
LEMMA Answers == TplInv => CallsAnswered
<1>1. SUFFICES ASSUME TplInv, NEW o \in born, NEW p \in Props,
                      has[Found(o, p)][p] \in Called
               PROVE  ~Aborts(o, p)
  BY DEF CallsAnswered
<1>2. o \in Objects /\ Found(o, p) \in Objects
  BY <1>1 DEF TplInv, InstanceTypes, Found
<1>3. has[Found(o, p)][p] # None
  BY <1>1, TemplatesAssumption
<1>4. props[from[Found(o, p)]][p] = has[Found(o, p)][p]
  BY <1>1, <1>2, <1>3 DEF TplInv, Kept
<1>5. has[Found(o, p)][p] \in Async => o \in native
  BY <1>1, <1>2 DEF TplInv, Backed, Inherits, Found
<1> QED
  BY <1>1, <1>4, <1>5 DEF Aborts

\* Whatever is set on the templates and when, no method that the script finds on an
\* object aborts the process: for any number of templates, functions and objects.
THEOREM MethodsCanBeCalled == Spec => []CallsAnswered
<1>1. Spec => []TplInv
  BY TplInit, TplStep, PTL DEF Spec
<1> QED
  BY <1>1, Answers, PTL

-----------------------------------------------------------------------------
(* The environment of a module. *)

IsMap(map, V) == map \in [DOMAIN map -> V] /\ IsFiniteSet(DOMAIN map)

EnvTypes ==
    /\ counts \in [All -> Int]
    /\ hand \in [All -> Nat] /\ hand[Self] \in {0, 1}
    /\ IsMap(functions, Values) /\ IsMap(fields, Values) /\ IsMap(entries, Values)
    /\ IsMap(exports, All)
    /\ env \in Values \cup {NoObject}

\* Nothing is exported before the module is loaded, and it is loaded once.
ExportedOnce == Loading => exports = Empty /\ env = NoObject

EnvInv == EnvTypes /\ ExportedOnce /\ ExportsBalanced

\* How often a finite map has a value.
LEMMA UsesType ==
  ASSUME NEW map, IsFiniteSet(DOMAIN map), NEW v
  PROVE  /\ Uses(map, v) \in Nat
         /\ IsFiniteSet({n \in DOMAIN map : map[n] = v})
<1>1. {n \in DOMAIN map : map[n] = v} \subseteq DOMAIN map
  OBVIOUS
<1> QED
  BY <1>1, FS_Subset, FS_CardinalityType DEF Uses

LEMMA UsesOne ==
  ASSUME NEW v, NEW u
  PROVE  /\ Uses(<<>>, u) = 0 /\ Uses(Empty, u) = 0
         /\ Uses(<<v>>, u) = IF v = u THEN 1 ELSE 0
<1>1. {n \in DOMAIN <<>> : <<>>[n] = u} = {} /\ {n \in DOMAIN Empty : Empty[n] = u} = {}
  BY DEF Empty
<1>2. {n \in DOMAIN <<v>> : <<v>>[n] = u} = IF v = u THEN {1} ELSE {}
  OBVIOUS
<1> QED
  BY <1>1, <1>2, FS_EmptySet, FS_Singleton DEF Uses

LEMMA UsesWithout ==
  ASSUME NEW map, IsFiniteSet(DOMAIN map), NEW n, NEW v
  PROVE  /\ IsFiniteSet(DOMAIN Without(map, n))
         /\ Uses(Entry(map, n), v) = IF n \in DOMAIN map /\ map[n] = v THEN 1 ELSE 0
         /\ Uses(Without(map, n), v) = Uses(map, v) - Uses(Entry(map, n), v)
<1> DEFINE S == {m \in DOMAIN map : map[m] = v}
           T == {m \in DOMAIN Without(map, n) : Without(map, n)[m] = v}
<1>1. IsFiniteSet(S) /\ Cardinality(S) \in Nat
  BY UsesType, FS_CardinalityType
<1>2. T = S \ {n} /\ DOMAIN Without(map, n) = DOMAIN map \ {n}
  BY DEF Without
<1>3. IsFiniteSet(DOMAIN Without(map, n))
  BY <1>2, FS_Subset
<1>4. Uses(Entry(map, n), v) = IF n \in DOMAIN map /\ map[n] = v THEN 1 ELSE 0
  BY UsesOne DEF Entry
<1>5. Cardinality(T) = IF n \in S THEN Cardinality(S) - 1 ELSE Cardinality(S)
  BY <1>1, <1>2, FS_RemoveElement
<1>6. n \in S <=> n \in DOMAIN map /\ map[n] = v
  OBVIOUS
<1> HIDE DEF S, T
<1>7. Uses(map, v) = Cardinality(S) /\ Uses(Without(map, n), v) = Cardinality(T)
  BY DEF Uses, S, T
<1> QED
  BY <1>1, <1>3, <1>4, <1>5, <1>6, <1>7

LEMMA UsesPut ==
  ASSUME NEW map, IsFiniteSet(DOMAIN map), NEW n, NEW w, NEW v
  PROVE  /\ IsFiniteSet(DOMAIN Put(map, n, w))
         /\ Uses(Put(map, n, w), v) =
              Uses(map, v) - Uses(Entry(map, n), v) + (IF w = v THEN 1 ELSE 0)
<1> DEFINE S == {m \in DOMAIN Without(map, n) : Without(map, n)[m] = v}
           T == {m \in DOMAIN Put(map, n, w) : Put(map, n, w)[m] = v}
<1>1. IsFiniteSet(DOMAIN Without(map, n)) /\ n \notin S
      /\ Uses(Without(map, n), v) = Uses(map, v) - Uses(Entry(map, n), v)
  BY UsesWithout DEF Without
<1>2. IsFiniteSet(S) /\ Cardinality(S) \in Nat
  BY <1>1, UsesType, FS_CardinalityType
<1>3. T = IF w = v THEN S \cup {n} ELSE S
  BY DEF Without, Put
<1>4. DOMAIN Put(map, n, w) = DOMAIN map \cup {n}
  BY DEF Put
<1>5. IsFiniteSet(DOMAIN Put(map, n, w))
  BY <1>4, FS_AddElement
<1>6. Cardinality(S \cup {n}) = Cardinality(S) + 1
  BY <1>1, <1>2, FS_AddElement
<1> HIDE DEF S, T
<1>7. Uses(Put(map, n, w), v) = Cardinality(T) /\ Uses(Without(map, n), v) = Cardinality(S)
  BY DEF Uses, S, T
<1> QED
  BY <1>1, <1>2, <1>3, <1>5, <1>6, <1>7

\* A map in two parts.
Inside(map, K) == [n \in DOMAIN map \cap K |-> map[n]]
Outside(map, K) == [n \in DOMAIN map \ K |-> map[n]]

LEMMA UsesParts ==
  ASSUME NEW map, IsFiniteSet(DOMAIN map), NEW K, NEW v
  PROVE  /\ IsFiniteSet(DOMAIN Inside(map, K)) /\ IsFiniteSet(DOMAIN Outside(map, K))
         /\ Uses(map, v) = Uses(Inside(map, K), v) + Uses(Outside(map, K), v)
<1> DEFINE S == {n \in DOMAIN Inside(map, K) : Inside(map, K)[n] = v}
           T == {n \in DOMAIN Outside(map, K) : Outside(map, K)[n] = v}
<1>1. IsFiniteSet(DOMAIN Inside(map, K)) /\ IsFiniteSet(DOMAIN Outside(map, K))
  BY FS_Subset DEF Inside, Outside
<1>2. IsFiniteSet(S) /\ IsFiniteSet(T)
  BY <1>1, UsesType
<1>3. {n \in DOMAIN map : map[n] = v} = S \cup T /\ S \cap T = {}
  BY DEF Inside, Outside
<1>4. Cardinality(S \cup T) = Cardinality(S) + Cardinality(T)
  <2>1. Cardinality(S \cup T) = Cardinality(S) + Cardinality(T) - Cardinality(S \cap T)
    BY <1>2, FS_Union
  <2>2. Cardinality(S) \in Nat /\ Cardinality(T) \in Nat /\ Cardinality(S \cap T) = 0
    BY <1>2, <1>3, FS_CardinalityType, FS_EmptySet
  <2> HIDE DEF S, T
  <2> QED
    BY <2>1, <2>2
<1> QED
  BY <1>1, <1>3, <1>4 DEF Uses

LEMMA EnvInitInv == EnvInit => EnvInv
<1> SUFFICES ASSUME EnvInit PROVE EnvInv
  OBVIOUS
<1>1. DOMAIN Empty = {} /\ IsFiniteSet({})
  BY FS_EmptySet DEF Empty
<1>2. IsMap(Empty, Values) /\ IsMap(Empty, All)
  BY <1>1 DEF IsMap, Empty
<1>3. EnvTypes /\ ExportedOnce
  BY <1>2, ModuleEnvAssumption DEF EnvInit, EnvTypes, All, ExportedOnce
<1>4. ASSUME NEW v \in All PROVE Uses(functions, v) = 0 /\ Uses(fields, v) = 0
                              /\ Uses(entries, v) = 0 /\ Uses(exports, v) = 0
  BY UsesOne DEF EnvInit
<1>5. ExportsBalanced
  BY <1>4 DEF EnvInit, ExportsBalanced
<1> QED
  BY <1>3, <1>5 DEF EnvInv

\* The maps and how often they have a value.
LEMMA EnvMaps ==
  ASSUME EnvInv, NEW v \in All
  PROVE  /\ IsFiniteSet(DOMAIN functions) /\ IsFiniteSet(DOMAIN fields)
         /\ IsFiniteSet(DOMAIN entries) /\ IsFiniteSet(DOMAIN exports)
         /\ Uses(functions, v) \in Nat /\ Uses(fields, v) \in Nat
         /\ Uses(entries, v) \in Nat /\ Uses(exports, v) \in Nat
         /\ counts[v] \in Int /\ hand[v] \in Nat
         /\ counts[v] = hand[v] + (IF v = Self /\ env # NoObject THEN 1 ELSE 0)
              + Uses(functions, v) + Uses(fields, v) + Uses(entries, v) + Uses(exports, v)
  BY UsesType DEF EnvInv, EnvTypes, IsMap, ExportsBalanced

LEMMA PutMap ==
  ASSUME NEW map, NEW V, IsMap(map, V), NEW n, NEW w \in V
  PROVE  IsMap(Put(map, n, w), V)
  BY UsesPut DEF IsMap, Put

LEMMA WithoutMap ==
  ASSUME NEW map, NEW V, IsMap(map, V), NEW n
  PROVE  IsMap(Without(map, n), V)
  BY UsesWithout DEF IsMap, Without

\* References made and freed, value by value.
LEMMA CountedIs ==
  ASSUME EnvInv, NEW made, IsFiniteSet(DOMAIN made), NEW freed, IsFiniteSet(DOMAIN freed)
  PROVE  /\ Counted(made, freed) \in [All -> Int]
         /\ \A v \in All : Counted(made, freed)[v] = counts[v] + Uses(made, v) - Uses(freed, v)
<1>1. \A v \in All : counts[v] \in Int /\ Uses(made, v) \in Nat /\ Uses(freed, v) \in Nat
  BY UsesType DEF EnvInv, EnvTypes
<1> QED
  BY <1>1 DEF Counted

LEMMA FewFinite ==
  ASSUME NEW v
  PROVE  IsFiniteSet(DOMAIN <<>>) /\ IsFiniteSet(DOMAIN <<v>>)
<1>1. DOMAIN <<>> = {} /\ DOMAIN <<v>> = {1}
  OBVIOUS
<1>2. IsFiniteSet({}) /\ IsFiniteSet({1})
  BY FS_EmptySet, FS_Singleton
<1> QED
  BY <1>1, <1>2

LEMMA EntryFinite ==
  ASSUME NEW map, NEW n
  PROVE  IsFiniteSet(DOMAIN Entry(map, n))
  BY FewFinite DEF Entry

LEMMA GivenIs ==
  ASSUME EnvInv, NEW v \in All, hand[v] > 0, Given(v)
  PROVE  /\ hand' \in [All -> Nat] /\ hand'[Self] \in {0, 1}
         /\ \A u \in All : hand'[u] = hand[u] - (IF u = v THEN 1 ELSE 0)
         /\ Loading' => Loading
<1>1. hand' = [hand EXCEPT ![v] = @ - 1] /\ hand \in [All -> Nat] /\ hand[Self] \in {0, 1} /\ Self \in All
  BY DEF Given, EnvInv, EnvTypes, All
<1>2. hand[v] - 1 \in Nat
  BY <1>1
<1> QED
  BY <1>1, <1>2 DEF Loading

\* A step keeps the balance if it does so for each value.
LEMMA Balanced ==
  ASSUME EnvTypes', ExportedOnce',
         \A u \in All : counts'[u] = hand'[u] + (IF u = Self /\ env' # NoObject THEN 1 ELSE 0)
            + Uses(functions', u) + Uses(fields', u) + Uses(entries', u) + Uses(exports', u)
  PROVE  EnvInv'
  BY DEF EnvInv, ExportsBalanced, Uses

LEMMA ValueIs ==
  ASSUME NEW v \in Values
  PROVE  v \in All /\ v # Self /\ Self \in All
  BY ModuleEnvAssumption DEF All

\* One reference made, or one freed.
LEMMA CountedOne ==
  ASSUME EnvInv, NEW v \in All
  PROVE  /\ \A u \in All : /\ Counted(<<v>>, <<>>)[u] = counts[u] + (IF v = u THEN 1 ELSE 0)
                           /\ Counted(<<>>, <<v>>)[u] = counts[u] - (IF v = u THEN 1 ELSE 0)
         /\ Counted(<<v>>, <<>>) \in [All -> Int] /\ Counted(<<>>, <<v>>) \in [All -> Int]
<1>1. IsFiniteSet(DOMAIN <<v>>) /\ IsFiniteSet(DOMAIN <<>>)
  BY FewFinite
<1>2. \A u \in All : /\ Counted(<<v>>, <<>>)[u] = counts[u] + Uses(<<v>>, u) - Uses(<<>>, u)
                     /\ Counted(<<>>, <<v>>)[u] = counts[u] + Uses(<<>>, u) - Uses(<<v>>, u)
  BY <1>1, CountedIs
<1>3. \A u \in All : Uses(<<v>>, u) = (IF v = u THEN 1 ELSE 0) /\ Uses(<<>>, u) = 0
  BY UsesOne
<1>4. Counted(<<v>>, <<>>) \in [All -> Int] /\ Counted(<<>>, <<v>>) \in [All -> Int]
  BY <1>1, CountedIs
<1>5. \A u \in All : counts[u] \in Int
  BY DEF EnvInv, EnvTypes
<1> QED
  BY <1>2, <1>3, <1>4, <1>5

\* Native code's own references.
LEMMA MakeInv == ASSUME EnvInv, NEW v \in Values, Make(v) PROVE EnvInv'
<1>1. v \in All /\ v # Self /\ Self \in All
  BY ValueIs
<1>2. /\ counts' \in [All -> Int]
      /\ \A u \in All : counts'[u] = counts[u] + (IF v = u THEN 1 ELSE 0)
  BY <1>1, CountedOne DEF Make
<1>3. /\ hand' \in [All -> Nat] /\ hand'[Self] = hand[Self]
      /\ \A u \in All : hand'[u] = hand[u] + (IF u = v THEN 1 ELSE 0)
  BY <1>1 DEF Make, EnvInv, EnvTypes
<1>4. UNCHANGED <<functions, fields, entries, exports, env>>
  BY DEF Make
<1>5. EnvTypes' /\ ExportedOnce'
  BY <1>2, <1>3, <1>4 DEF EnvInv, EnvTypes, ExportedOnce, Loading, IsMap
<1> QED
  BY <1>2, <1>3, <1>4, <1>5, EnvMaps, Balanced

LEMMA FreeInv == ASSUME EnvInv, NEW v \in Values, Free(v) PROVE EnvInv'
<1>1. v \in All /\ v # Self /\ Self \in All
  BY ValueIs
<1>2. /\ counts' \in [All -> Int]
      /\ \A u \in All : counts'[u] = counts[u] - (IF v = u THEN 1 ELSE 0)
  BY <1>1, CountedOne DEF Free
<1>3. /\ hand' \in [All -> Nat] /\ hand'[Self] \in {0, 1} /\ (Loading' => Loading)
      /\ \A u \in All : hand'[u] = hand[u] - (IF u = v THEN 1 ELSE 0)
  BY <1>1, GivenIs DEF Free
<1>4. UNCHANGED <<functions, fields, entries, exports, env>>
  BY DEF Free
<1>5. EnvTypes' /\ ExportedOnce'
  BY <1>2, <1>3, <1>4 DEF EnvInv, EnvTypes, ExportedOnce, IsMap
<1> QED
  BY <1>2, <1>3, <1>4, <1>5, EnvMaps, Balanced

\* The functions and fields: what is replaced or taken out is freed.
LEMMA RegisterFunctionInv ==
  ASSUME EnvInv, NEW n \in Names, NEW v \in Values, RegisterFunction(n, v)
  PROVE  EnvInv'
<1>1. v \in All /\ v # Self /\ Self \in All
  BY ValueIs
<1>2. /\ hand' \in [All -> Nat] /\ hand'[Self] \in {0, 1} /\ (Loading' => Loading)
      /\ \A u \in All : hand'[u] = hand[u] - (IF u = v THEN 1 ELSE 0)
  BY <1>1, GivenIs DEF RegisterFunction
<1>3. /\ functions' = Put(functions, n, v) /\ counts' = Counted(<<>>, Entry(functions, n))
      /\ UNCHANGED <<fields, entries, exports, env>>
  BY DEF RegisterFunction
<1>4. /\ counts' \in [All -> Int]
      /\ \A u \in All : counts'[u] = counts[u] + Uses(<<>>, u) - Uses(Entry(functions, n), u)
  BY <1>3, FewFinite, EntryFinite, CountedIs
<1>5. IsMap(functions', Values)
  BY <1>3, PutMap DEF EnvInv, EnvTypes
<1>6. EnvTypes' /\ ExportedOnce'
  BY <1>2, <1>3, <1>4, <1>5 DEF EnvInv, EnvTypes, ExportedOnce, IsMap
<1>7. ASSUME NEW u \in All
      PROVE  /\ Uses(functions', u) = Uses(functions, u) - Uses(Entry(functions, n), u)
                                         + (IF v = u THEN 1 ELSE 0)
             /\ Uses(<<>>, u) = 0 /\ Uses(Entry(functions, n), u) \in Nat
  <2>1. IsFiniteSet(DOMAIN functions) /\ IsFiniteSet(DOMAIN Entry(functions, n))
    BY EnvMaps, EntryFinite
  <2>2. Uses(Put(functions, n, v), u) =
          Uses(functions, u) - Uses(Entry(functions, n), u) + (IF v = u THEN 1 ELSE 0)
    BY <2>1, UsesPut
  <2>3. Uses(Entry(functions, n), u) \in Nat
    BY <2>1, UsesType
  <2> QED
    BY <1>3, <2>2, <2>3, UsesOne
<1>8. ASSUME NEW u \in All
      PROVE  counts'[u] = hand'[u] + (IF u = Self /\ env' # NoObject THEN 1 ELSE 0)
            + Uses(functions', u) + Uses(fields', u) + Uses(entries', u) + Uses(exports', u)
  <2>1. /\ counts[u] \in Int /\ hand[u] \in Nat /\ Uses(functions, u) \in Nat
        /\ Uses(fields, u) \in Nat /\ Uses(entries, u) \in Nat /\ Uses(exports, u) \in Nat
        /\ counts[u] = hand[u] + (IF u = Self /\ env # NoObject THEN 1 ELSE 0)
              + Uses(functions, u) + Uses(fields, u) + Uses(entries, u) + Uses(exports, u)
    BY EnvMaps
  <2>2. fields' = fields /\ entries' = entries /\ exports' = exports /\ env' = env
    BY <1>3
  <2>3. /\ counts'[u] = counts[u] + Uses(<<>>, u) - Uses(Entry(functions, n), u)
        /\ hand'[u] = hand[u] - (IF u = v THEN 1 ELSE 0)
    BY <1>2, <1>4
  <2>4. /\ Uses(functions', u) = Uses(functions, u) - Uses(Entry(functions, n), u)
                                   + (IF v = u THEN 1 ELSE 0)
        /\ Uses(<<>>, u) = 0 /\ Uses(Entry(functions, n), u) \in Nat
    BY <1>7
  <2>5. (IF u = v THEN 1 ELSE 0) = (IF v = u THEN 1 ELSE 0) /\ (IF v = u THEN 1 ELSE 0) \in Nat
    OBVIOUS
  <2>6. /\ Uses(fields', u) = Uses(fields, u) /\ Uses(entries', u) = Uses(entries, u)
        /\ Uses(exports', u) = Uses(exports, u)
        /\ (IF u = Self /\ env' # NoObject THEN 1 ELSE 0) = (IF u = Self /\ env # NoObject THEN 1 ELSE 0)
        /\ (IF u = Self /\ env # NoObject THEN 1 ELSE 0) \in Nat
    BY <2>2
  <2>7. /\ counts'[u] = counts[u] - Uses(Entry(functions, n), u)
        /\ hand'[u] + Uses(functions', u) = hand[u] + Uses(functions, u) - Uses(Entry(functions, n), u)
    <3>1. counts'[u] = counts[u] - Uses(Entry(functions, n), u)
      <4>1. counts'[u] = counts[u] + Uses(<<>>, u) - Uses(Entry(functions, n), u)
        BY <2>3
      <4> QED
        BY <4>1, <2>1, <2>4
    <3>2. CASE u = v
      <4>1. /\ hand'[u] = hand[u] - 1
            /\ Uses(functions', u) = Uses(functions, u) - Uses(Entry(functions, n), u) + 1
        BY <2>3, <2>4, <3>2
      <4>2. hand[u] \in Int /\ Uses(functions, u) \in Int /\ Uses(Entry(functions, n), u) \in Int
        BY <2>1, <2>4
      <4> QED
        BY <3>1, <4>1, <4>2
    <3>3. CASE u # v
      <4>1. /\ hand'[u] = hand[u] - 0
            /\ Uses(functions', u) = Uses(functions, u) - Uses(Entry(functions, n), u) + 0
        BY <2>3, <2>4, <3>3
      <4>2. hand[u] \in Int /\ Uses(functions, u) \in Int /\ Uses(Entry(functions, n), u) \in Int
        BY <2>1, <2>4
      <4> QED
        BY <3>1, <4>1, <4>2
    <3> QED
      BY <3>2, <3>3
  <2>8. hand'[u] \in Int /\ Uses(functions', u) \in Int
    <3>1. hand'[u] \in Int
      BY <2>1, <2>3
    <3>2. Uses(functions', u) \in Int
      BY <2>1, <2>4
    <3> QED
      BY <3>1, <3>2
  <2> DEFINE rest == (IF u = Self /\ env # NoObject THEN 1 ELSE 0)
                      + Uses(fields, u) + Uses(entries, u) + Uses(exports, u)
  <2>9. rest \in Int /\ counts[u] = hand[u] + Uses(functions, u) + rest
    BY <2>1, <2>6
  <2>10. (IF u = Self /\ env' # NoObject THEN 1 ELSE 0)
          + Uses(fields', u) + Uses(entries', u) + Uses(exports', u) = rest
    BY <2>6
  <2> HIDE DEF rest
  <2>11. counts'[u] = hand'[u] + Uses(functions', u) + rest
    BY <2>1, <2>4, <2>7, <2>8, <2>9, SMTT(30)
  <2> QED
    BY <2>1, <2>6, <2>8, <2>10, <2>11
<1> QED
  BY <1>6, <1>8, Balanced

LEMMA UnregisterFunctionInv ==
  ASSUME EnvInv, NEW n \in Names, UnregisterFunction(n)
  PROVE  EnvInv'
<1>1. /\ functions' = Without(functions, n) /\ counts' = Counted(<<>>, <<functions[n]>>)
      /\ UNCHANGED <<hand, fields, entries, exports, env>> /\ n \in DOMAIN functions
  BY DEF UnregisterFunction
<1>2. functions[n] \in All
  BY <1>1 DEF EnvInv, EnvTypes, IsMap, All
<1>3. /\ counts' \in [All -> Int]
      /\ \A u \in All : counts'[u] = counts[u] - (IF functions[n] = u THEN 1 ELSE 0)
  BY <1>1, <1>2, CountedOne
<1>4. IsMap(functions', Values)
  BY <1>1, WithoutMap DEF EnvInv, EnvTypes
<1>5. EnvTypes' /\ ExportedOnce'
  BY <1>1, <1>3, <1>4 DEF EnvInv, EnvTypes, ExportedOnce, IsMap, Loading
<1>6. ASSUME NEW u \in All
      PROVE  Uses(functions', u) = Uses(functions, u) - (IF functions[n] = u THEN 1 ELSE 0)
  BY <1>1, EnvMaps, UsesWithout
<1>7. ASSUME NEW u \in All
      PROVE  counts'[u] = hand'[u] + (IF u = Self /\ env' # NoObject THEN 1 ELSE 0)
            + Uses(functions', u) + Uses(fields', u) + Uses(entries', u) + Uses(exports', u)
  <2>1. /\ counts[u] \in Int /\ hand[u] \in Nat /\ Uses(functions, u) \in Nat
        /\ Uses(fields, u) \in Nat /\ Uses(entries, u) \in Nat /\ Uses(exports, u) \in Nat
        /\ counts[u] = hand[u] + (IF u = Self /\ env # NoObject THEN 1 ELSE 0)
              + Uses(functions, u) + Uses(fields, u) + Uses(entries, u) + Uses(exports, u)
    BY EnvMaps
  <2>2. /\ hand' = hand /\ fields' = fields /\ entries' = entries
        /\ exports' = exports /\ env' = env
    BY <1>1
  <2> QED
    BY <2>1, <2>2, <1>3, <1>6
<1> QED
  BY <1>5, <1>7, Balanced

LEMMA SetModuleFieldInv ==
  ASSUME EnvInv, NEW n \in Names, NEW v \in Values, SetModuleField(n, v)
  PROVE  EnvInv'
<1>1. /\ fields' = Put(fields, n, v) /\ counts' = Counted(<<v>>, Entry(fields, n))
      /\ UNCHANGED <<hand, functions, entries, exports, env>>
  BY DEF SetModuleField
<1>2. /\ counts' \in [All -> Int]
      /\ \A u \in All : counts'[u] = counts[u] + Uses(<<v>>, u) - Uses(Entry(fields, n), u)
  BY <1>1, FewFinite, EntryFinite, CountedIs
<1>3. IsMap(fields', Values)
  BY <1>1, PutMap DEF EnvInv, EnvTypes
<1>4. EnvTypes' /\ ExportedOnce'
  BY <1>1, <1>2, <1>3 DEF EnvInv, EnvTypes, ExportedOnce, IsMap, Loading
<1>5. ASSUME NEW u \in All
      PROVE  /\ Uses(fields', u) = Uses(fields, u) - Uses(Entry(fields, n), u)
                                     + (IF v = u THEN 1 ELSE 0)
             /\ Uses(<<v>>, u) = (IF v = u THEN 1 ELSE 0) /\ Uses(Entry(fields, n), u) \in Nat
  <2>1. IsFiniteSet(DOMAIN fields) /\ IsFiniteSet(DOMAIN Entry(fields, n))
    BY EnvMaps, EntryFinite
  <2>2. Uses(Put(fields, n, v), u) =
          Uses(fields, u) - Uses(Entry(fields, n), u) + (IF v = u THEN 1 ELSE 0)
    BY <2>1, UsesPut
  <2>3. Uses(Entry(fields, n), u) \in Nat
    BY <2>1, UsesType
  <2> QED
    BY <1>1, <2>2, <2>3, UsesOne
<1>6. ASSUME NEW u \in All
      PROVE  counts'[u] = hand'[u] + (IF u = Self /\ env' # NoObject THEN 1 ELSE 0)
            + Uses(functions', u) + Uses(fields', u) + Uses(entries', u) + Uses(exports', u)
  BY <1>1, <1>2, <1>5, EnvMaps
<1> QED
  BY <1>4, <1>6, Balanced

\* The exports: a replaced entry is freed, a field gets a reference of its own.
LEMMA SetModuleExportInv ==
  ASSUME EnvInv, NEW n \in Names, NEW v \in Values, NEW withField \in BOOLEAN,
         SetModuleExport(n, v, withField)
  PROVE  EnvInv'
<1> DEFINE made == IF withField THEN <<v>> ELSE <<>>
           field == IF withField THEN Entry(fields, n) ELSE <<>>
<1>1. v \in All /\ v # Self /\ Self \in All
  BY ValueIs
<1>2. /\ hand' \in [All -> Nat] /\ hand'[Self] \in {0, 1} /\ (Loading' => Loading)
      /\ \A u \in All : hand'[u] = hand[u] - (IF u = v THEN 1 ELSE 0)
  BY <1>1, GivenIs DEF SetModuleExport
<1>3. /\ entries' = Put(entries, n, v)
      /\ fields' = IF withField THEN Put(fields, n, v) ELSE fields
      /\ counts' = [u \in All |->
           counts[u] + Uses(made, u) - Uses(Entry(entries, n), u) - Uses(field, u)]
      /\ UNCHANGED <<functions, exports, env>>
  BY DEF SetModuleExport, Replaced
<1>4. IsMap(entries', Values) /\ IsMap(fields', Values)
  BY <1>3, PutMap DEF EnvInv, EnvTypes
<1>5. ASSUME NEW u \in All
      PROVE  /\ Uses(made, u) = IF withField /\ v = u THEN 1 ELSE 0
             /\ Uses(Entry(entries, n), u) \in Nat /\ Uses(field, u) \in Nat
             /\ Uses(entries', u) = Uses(entries, u) - Uses(Entry(entries, n), u)
                                      + (IF v = u THEN 1 ELSE 0)
             /\ Uses(fields', u) = Uses(fields, u) - Uses(field, u)
                                     + (IF withField /\ v = u THEN 1 ELSE 0)
  <2>1. IsFiniteSet(DOMAIN entries) /\ IsFiniteSet(DOMAIN fields) /\ IsFiniteSet(DOMAIN <<>>)
        /\ IsFiniteSet(DOMAIN Entry(entries, n)) /\ IsFiniteSet(DOMAIN Entry(fields, n))
    BY EnvMaps, EntryFinite, FewFinite
  <2>2. /\ Uses(Entry(entries, n), u) \in Nat /\ Uses(Entry(fields, n), u) \in Nat
        /\ Uses(fields, u) \in Nat
    BY <2>1, UsesType
  <2>3. Uses(Put(entries, n, v), u) =
          Uses(entries, u) - Uses(Entry(entries, n), u) + (IF v = u THEN 1 ELSE 0)
    BY <2>1, UsesPut
  <2>4. Uses(Put(fields, n, v), u) =
          Uses(fields, u) - Uses(Entry(fields, n), u) + (IF v = u THEN 1 ELSE 0)
    BY <2>1, UsesPut
  <2>5. Uses(<<v>>, u) = (IF v = u THEN 1 ELSE 0) /\ Uses(<<>>, u) = 0
    BY UsesOne
  <2> QED
    BY <1>3, <2>2, <2>3, <2>4, <2>5
<1> HIDE DEF made, field
<1>6. counts' \in [All -> Int]
  <2>1. \A u \in All : counts[u] \in Int
    BY DEF EnvInv, EnvTypes
  <2> QED
    BY <1>3, <1>5, <2>1
<1>7. EnvTypes' /\ ExportedOnce'
  BY <1>2, <1>3, <1>4, <1>6 DEF EnvInv, EnvTypes, ExportedOnce, IsMap
<1>8. ASSUME NEW u \in All
      PROVE  counts'[u] = hand'[u] + (IF u = Self /\ env' # NoObject THEN 1 ELSE 0)
            + Uses(functions', u) + Uses(fields', u) + Uses(entries', u) + Uses(exports', u)
  <2>1. /\ counts[u] \in Int /\ hand[u] \in Nat /\ Uses(functions, u) \in Nat
        /\ Uses(fields, u) \in Nat /\ Uses(entries, u) \in Nat /\ Uses(exports, u) \in Nat
        /\ counts[u] = hand[u] + (IF u = Self /\ env # NoObject THEN 1 ELSE 0)
              + Uses(functions, u) + Uses(fields, u) + Uses(entries, u) + Uses(exports, u)
    BY EnvMaps
  <2>2. /\ functions' = functions /\ exports' = exports /\ env' = env
        /\ counts'[u] = counts[u] + Uses(made, u) - Uses(Entry(entries, n), u) - Uses(field, u)
    BY <1>3
  <2> QED
    BY <2>1, <2>2, <1>2, <1>5
<1> QED
  BY <1>7, <1>8, Balanced

LEMMA SetModuleExportDoneInv ==
  ASSUME EnvInv, NEW list \in SUBSET Names, NEW module \in All,
         SetModuleExportDone(list, module)
  PROVE  EnvInv'
<1> DEFINE listed == Inside(entries, list)
           unlisted == Outside(entries, list)
<1>1. /\ Loading /\ (module = Self \/ hand[module] > 0)
      /\ exports' = Put(listed, Default, module)
      /\ counts' = Counted(<<>>, unlisted)
      /\ entries' = Empty
      /\ hand' = [v \in All |-> IF v \in {module, Self} THEN hand[v] - 1 ELSE hand[v]]
      /\ env' = IF module = Self THEN NoObject ELSE module
      /\ UNCHANGED <<functions, fields>>
  BY DEF SetModuleExportDone, Inside, Outside
<1>2. /\ exports = Empty /\ env = NoObject /\ hand[Self] = 1 /\ Self \in All
      /\ NoObject \notin All /\ hand \in [All -> Nat]
  BY <1>1, ModuleEnvAssumption DEF EnvInv, EnvTypes, ExportedOnce, Loading, All
<1>3. hand' \in [All -> Nat] /\ hand'[Self] = 0
  BY <1>1, <1>2
<1>4. IsMap(entries, Values) /\ IsFiniteSet(DOMAIN listed) /\ IsFiniteSet(DOMAIN unlisted)
  BY UsesParts DEF EnvInv, EnvTypes, IsMap
<1>5. IsMap(listed, All)
  BY <1>4 DEF IsMap, All, Inside
<1>6. IsMap(exports', All) /\ IsMap(Empty, Values)
  <2>1. DOMAIN Empty = {} /\ IsFiniteSet({})
    BY FS_EmptySet DEF Empty
  <2> QED
    BY <1>1, <1>5, <2>1, PutMap DEF IsMap, Empty
<1>7. /\ counts' \in [All -> Int]
      /\ \A u \in All : counts'[u] = counts[u] + Uses(<<>>, u) - Uses(unlisted, u)
  BY <1>1, <1>4, FewFinite, CountedIs
<1>8. env' \in Values \cup {NoObject}
  BY <1>1 DEF All
<1>9. EnvTypes' /\ ExportedOnce'
  <2>1. IsMap(functions', Values) /\ IsMap(fields', Values) /\ IsMap(entries', Values)
    BY <1>1, <1>6 DEF EnvInv, EnvTypes
  <2>2. ~Loading'
    BY <1>3 DEF Loading
  <2> QED
    BY <1>3, <1>6, <1>7, <1>8, <2>1, <2>2 DEF EnvTypes, ExportedOnce
<1>10. ASSUME NEW u \in All
       PROVE  /\ Uses(entries, u) = Uses(listed, u) + Uses(unlisted, u)
              /\ Uses(listed, u) \in Nat /\ Uses(unlisted, u) \in Nat
              /\ Uses(exports', u) = Uses(listed, u) + (IF module = u THEN 1 ELSE 0)
              /\ Uses(Empty, u) = 0 /\ Uses(<<>>, u) = 0
  <2>1. Uses(entries, u) = Uses(listed, u) + Uses(unlisted, u)
    <3>1. IsFiniteSet(DOMAIN entries)
      BY <1>4 DEF IsMap
    <3> QED
      BY <3>1, UsesParts
  <2>2. Uses(listed, u) \in Nat /\ Uses(unlisted, u) \in Nat
    BY <1>4, UsesType
  <2>3. Uses(Empty, u) = 0 /\ Uses(<<>>, u) = 0
    BY UsesOne
  <2>4. Default \notin DOMAIN listed
    BY ModuleEnvAssumption DEF Inside
  <2>5. Entry(listed, Default) = <<>>
    BY <2>4 DEF Entry
  <2>6. Uses(Put(listed, Default, module), u) =
          Uses(listed, u) - Uses(Entry(listed, Default), u) + (IF module = u THEN 1 ELSE 0)
    BY <1>4, UsesPut
  <2> HIDE DEF listed, unlisted
  <2> QED
    BY <1>1, <2>1, <2>2, <2>3, <2>5, <2>6
<1> HIDE DEF listed, unlisted
<1>11. ASSUME NEW u \in All
       PROVE  counts'[u] = hand'[u] + (IF u = Self /\ env' # NoObject THEN 1 ELSE 0)
            + Uses(functions', u) + Uses(fields', u) + Uses(entries', u) + Uses(exports', u)
  <2>1. hand'[u] = hand[u] - (IF u \in {module, Self} THEN 1 ELSE 0)
    BY <1>1, <1>2
  <2>2. env' # NoObject <=> module # Self
    BY <1>1, <1>2
  <2>3. Uses(exports, u) = 0 /\ Uses(entries', u) = 0
    BY <1>1, <1>2, <1>10
  <2>4. /\ counts[u] \in Int /\ hand[u] \in Nat /\ Uses(functions, u) \in Nat
        /\ Uses(fields, u) \in Nat /\ Uses(entries, u) \in Nat /\ Uses(exports, u) \in Nat
        /\ counts[u] = hand[u] + (IF u = Self /\ env # NoObject THEN 1 ELSE 0)
              + Uses(functions, u) + Uses(fields, u) + Uses(entries, u) + Uses(exports, u)
    BY EnvMaps
  <2>5. functions' = functions /\ fields' = fields
    BY <1>1
  <2>6. counts'[u] = counts[u] + Uses(<<>>, u) - Uses(unlisted, u)
    BY <1>7
  <2>7. /\ Uses(entries, u) = Uses(listed, u) + Uses(unlisted, u) /\ Uses(<<>>, u) = 0
        /\ Uses(listed, u) \in Nat /\ Uses(unlisted, u) \in Nat
        /\ Uses(exports', u) = Uses(listed, u) + (IF module = u THEN 1 ELSE 0)
    BY <1>10
  <2>8. CASE u = Self
    <3>1. hand'[u] = hand[u] - 1
      BY <2>1, <2>8
    <3>2. counts[u] = hand[u] + Uses(functions, u) + Uses(fields, u) + Uses(entries, u)
      BY <1>2, <2>3, <2>4
    <3>3. CASE module = Self
      <4>1. (IF u = Self /\ env' # NoObject THEN 1 ELSE 0) = 0 /\ Uses(exports', u) = Uses(listed, u) + 1
        BY <2>2, <2>7, <2>8, <3>3
      <4>2. counts'[u] = hand[u] + Uses(functions, u) + Uses(fields, u) + Uses(listed, u)
        BY <2>4, <2>6, <2>7, <3>2, SMTT(30)
      <4>3. hand[u] = hand'[u] + 1 /\ hand'[u] \in Int
        BY <2>4, <3>1
      <4>4. Uses(exports', u) \in Int /\ Uses(listed, u) \in Int
            /\ Uses(functions, u) \in Int /\ Uses(fields, u) \in Int
        BY <2>4, <2>7, <4>1
      <4>5. counts'[u] = hand'[u] + Uses(functions, u) + Uses(fields, u) + Uses(exports', u)
        <5>1. Uses(exports', u) = Uses(listed, u) + 1
          BY <4>1
        <5> QED
          BY <5>1, <4>2, <4>3, <4>4
      <4> QED
        BY <2>3, <2>4, <2>5, <4>1, <4>3, <4>4, <4>5
    <3>4. CASE module # Self
      <4>1. (IF u = Self /\ env' # NoObject THEN 1 ELSE 0) = 1 /\ Uses(exports', u) = Uses(listed, u)
        BY <2>2, <2>7, <2>8, <3>4
      <4>2. counts'[u] = hand[u] + Uses(functions, u) + Uses(fields, u) + Uses(listed, u)
        BY <2>4, <2>6, <2>7, <3>2, SMTT(30)
      <4>3. hand[u] = hand'[u] + 1 /\ hand'[u] \in Int
        BY <2>4, <3>1
      <4>4. Uses(exports', u) \in Int /\ Uses(listed, u) \in Int
            /\ Uses(functions, u) \in Int /\ Uses(fields, u) \in Int
        BY <2>4, <2>7, <4>1
      <4>5. counts'[u] = hand'[u] + 1 + Uses(functions, u) + Uses(fields, u) + Uses(exports', u)
        <5>1. Uses(exports', u) = Uses(listed, u)
          BY <4>1
        <5> QED
          BY <5>1, <4>2, <4>3, <4>4
      <4> QED
        BY <2>3, <2>4, <2>5, <4>1, <4>3, <4>4, <4>5
    <3> QED
      BY <3>3, <3>4
  <2>9. CASE u # Self /\ u = module
    <3>1. hand'[u] = hand[u] - 1
      BY <2>1, <2>9
    <3>2. counts[u] = hand[u] + Uses(functions, u) + Uses(fields, u) + Uses(entries, u)
      BY <2>3, <2>4, <2>9
    <3>3. Uses(exports', u) = Uses(listed, u) + 1 /\ (IF u = Self /\ env' # NoObject THEN 1 ELSE 0) = 0
      BY <2>7, <2>9
    <3>4. counts'[u] = hand[u] + Uses(functions, u) + Uses(fields, u) + Uses(listed, u)
      BY <2>4, <2>6, <2>7, <3>2, SMTT(30)
    <3>5. hand[u] = hand'[u] + 1 /\ hand'[u] \in Int
      BY <2>4, <3>1
    <3>6. Uses(exports', u) \in Int /\ Uses(listed, u) \in Int
          /\ Uses(functions, u) \in Int /\ Uses(fields, u) \in Int
      BY <2>4, <2>7, <3>3
    <3>7. counts'[u] = hand'[u] + Uses(functions, u) + Uses(fields, u) + Uses(exports', u)
      <4>1. Uses(exports', u) = Uses(listed, u) + 1
        BY <3>3
      <4> QED
        BY <4>1, <3>4, <3>5, <3>6
    <3> QED
      BY <2>3, <2>4, <2>5, <3>3, <3>5, <3>6, <3>7
  <2>10. CASE u # Self /\ u # module
    BY <1>2, <2>1, <2>2, <2>3, <2>4, <2>5, <2>6, <2>7, <2>10
  <2> QED
    BY <2>8, <2>9, <2>10
<1> QED
  BY <1>9, <1>11, Balanced

\* The end: the fields and functions go with the environment's object.
LEMMA CollectedIs ==
  ASSUME EnvInv, NEW exported, IsFiniteSet(DOMAIN exported),
         NEW last \in {<<>>, <<Self>>}, Collected(exported, last)
  PROVE  /\ counts' \in [All -> Int]
         /\ \A u \in All : counts'[u] =
              counts[u] - Uses(exported, u) - (IF last = <<Self>> /\ Self = u THEN 1 ELSE 0)
                - Uses(fields, u) - Uses(functions, u)
         /\ \A u \in All : Uses(functions', u) = 0 /\ Uses(fields', u) = 0
         /\ IsMap(functions', Values) /\ IsMap(fields', Values)
<1>1. /\ functions' = Empty /\ fields' = Empty
      /\ counts' = [v \in All |->
           counts[v] - Uses(exported, v) - Uses(last, v) - Uses(fields, v) - Uses(functions, v)]
  BY DEF Collected
<1>2. ASSUME NEW u \in All
      PROVE  /\ Uses(exported, u) \in Nat /\ Uses(fields, u) \in Nat /\ Uses(functions, u) \in Nat
             /\ counts[u] \in Int
             /\ Uses(last, u) = IF last = <<Self>> /\ Self = u THEN 1 ELSE 0
             /\ Uses(Empty, u) = 0
  <2>1. Uses(exported, u) \in Nat
    BY UsesType
  <2>2. Uses(<<>>, u) = 0 /\ Uses(<<Self>>, u) = (IF Self = u THEN 1 ELSE 0) /\ Uses(Empty, u) = 0
    BY UsesOne
  <2>3. <<>> # <<Self>>
    OBVIOUS
  <2>4. Uses(last, u) = IF last = <<Self>> /\ Self = u THEN 1 ELSE 0
    BY <2>2, <2>3
  <2> QED
    BY <2>1, <2>2, <2>4, EnvMaps
<1>3. DOMAIN Empty = {} /\ IsFiniteSet({})
  BY FS_EmptySet DEF Empty
<1>4. IsMap(functions', Values) /\ IsMap(fields', Values)
  BY <1>1, <1>3 DEF IsMap, Empty
<1>5. counts' \in [All -> Int]
  BY <1>1, <1>2
<1> QED
  BY <1>1, <1>2, <1>4, <1>5

LEMMA SetModuleExportFailedInv == ASSUME EnvInv, SetModuleExportFailed PROVE EnvInv'
<1>1. Self \in All /\ hand[Self] = 1 /\ env = NoObject
  BY DEF All, SetModuleExportFailed, Loading, EnvInv, ExportedOnce
<1>2. /\ hand' \in [All -> Nat] /\ hand'[Self] = 0
      /\ \A u \in All : hand'[u] = hand[u] - (IF u = Self THEN 1 ELSE 0)
  BY <1>1, GivenIs DEF SetModuleExportFailed
<1>3. IsFiniteSet(DOMAIN <<>>) /\ Collected(<<>>, <<Self>>)
  BY FewFinite DEF SetModuleExportFailed
<1>4. /\ counts' \in [All -> Int]
      /\ \A u \in All : counts'[u] =
           counts[u] - Uses(<<>>, u) - (IF Self = u THEN 1 ELSE 0) - Uses(fields, u) - Uses(functions, u)
      /\ \A u \in All : Uses(functions', u) = 0 /\ Uses(fields', u) = 0
      /\ IsMap(functions', Values) /\ IsMap(fields', Values)
  BY <1>3, CollectedIs
<1>5. UNCHANGED <<entries, exports, env>>
  BY DEF SetModuleExportFailed
<1>6. EnvTypes' /\ ExportedOnce'
  BY <1>2, <1>4, <1>5 DEF EnvInv, EnvTypes, ExportedOnce, Loading, IsMap
<1>7. ASSUME NEW u \in All
      PROVE  counts'[u] = hand'[u] + (IF u = Self /\ env' # NoObject THEN 1 ELSE 0)
            + Uses(functions', u) + Uses(fields', u) + Uses(entries', u) + Uses(exports', u)
  <2>1. /\ counts[u] \in Int /\ hand[u] \in Nat /\ Uses(functions, u) \in Nat
        /\ Uses(fields, u) \in Nat /\ Uses(entries, u) \in Nat /\ Uses(exports, u) \in Nat
        /\ counts[u] = hand[u] + (IF u = Self /\ env # NoObject THEN 1 ELSE 0)
              + Uses(functions, u) + Uses(fields, u) + Uses(entries, u) + Uses(exports, u)
    BY EnvMaps
  <2>2. entries' = entries /\ exports' = exports /\ env' = env /\ Uses(<<>>, u) = 0
    BY <1>5, UsesOne
  <2>3. /\ counts'[u] = counts[u] - Uses(<<>>, u) - (IF Self = u THEN 1 ELSE 0)
                           - Uses(fields, u) - Uses(functions, u)
        /\ hand'[u] = hand[u] - (IF u = Self THEN 1 ELSE 0)
        /\ Uses(functions', u) = 0 /\ Uses(fields', u) = 0
    BY <1>2, <1>4
  <2> DEFINE own == IF u = Self /\ env # NoObject THEN 1 ELSE 0
  <2>4. own \in Int /\ (IF u = Self /\ env' # NoObject THEN 1 ELSE 0) = own
    BY <2>2
  <2>5. counts[u] = hand[u] + own + Uses(functions, u) + Uses(fields, u) + Uses(entries, u)
                     + Uses(exports, u)
    BY <2>1
  <2>6. /\ counts[u] \in Int /\ hand[u] \in Int /\ Uses(functions, u) \in Int
        /\ Uses(fields, u) \in Int /\ Uses(entries, u) \in Int /\ Uses(exports, u) \in Int
        /\ Uses(<<>>, u) = 0
    BY <2>1, <2>2
  <2> HIDE DEF own
  <2>7. counts'[u] = hand'[u] + own + Uses(entries, u) + Uses(exports, u)
    <3> DEFINE h == hand[u]
               f == Uses(functions, u)
               g == Uses(fields, u)
               e == Uses(entries, u)
               x == Uses(exports, u)
               d == IF Self = u THEN 1 ELSE 0
    <3>1. /\ h \in Int /\ f \in Int /\ g \in Int /\ e \in Int /\ x \in Int /\ d \in Int
      BY <2>6
    <3>2. hand'[u] = h - d /\ counts[u] = h + own + f + g + e + x /\ counts'[u] = counts[u] - 0 - d - g - f
      BY <2>3, <2>5, <2>6
    <3> HIDE DEF h, f, g, e, x, d
    <3>3. (h + own + f + g + e + x) - 0 - d - g - f = (h - d) + own + e + x
      BY <2>4, <3>1
    <3>4. counts'[u] = hand'[u] + own + e + x
      BY <3>2, <3>3
    <3> QED
      BY <3>4 DEF e, x
  <2>8. /\ Uses(functions', u) = 0 /\ Uses(fields', u) = 0
        /\ Uses(entries', u) = Uses(entries, u) /\ Uses(exports', u) = Uses(exports, u)
    BY <2>2, <2>3
  <2>9. hand'[u] \in Int
    BY <2>1, <2>3
  <2>10. hand'[u] + own + Uses(entries, u) + Uses(exports, u) =
          hand'[u] + own + Uses(functions', u) + Uses(fields', u) + Uses(entries', u) + Uses(exports', u)
    BY <2>1, <2>4, <2>8, <2>9
  <2> QED
    BY <2>4, <2>7, <2>10
<1> QED
  BY <1>6, <1>7, Balanced

LEMMA FreeModuleInv == ASSUME EnvInv, FreeModule PROVE EnvInv'
<1> DEFINE last == IF env = NoObject THEN <<>> ELSE <<Self>>
<1>1. /\ Done /\ exports' = Empty /\ env' = NoObject /\ Collected(exports, last)
      /\ UNCHANGED <<hand, entries>>
  BY DEF FreeModule
<1>2. ~Loading /\ IsFiniteSet(DOMAIN exports)
  BY <1>1 DEF Done, Empty, EnvInv, ExportedOnce, EnvTypes, IsMap
<1>3. last \in {<<>>, <<Self>>} /\ (last = <<Self>> <=> env # NoObject)
  <2>1. <<>> # <<Self>>
    OBVIOUS
  <2> QED
    BY <2>1
<1> HIDE DEF last
<1>4. /\ counts' \in [All -> Int]
      /\ \A u \in All : counts'[u] =
           counts[u] - Uses(exports, u) - (IF last = <<Self>> /\ Self = u THEN 1 ELSE 0)
             - Uses(fields, u) - Uses(functions, u)
      /\ \A u \in All : Uses(functions', u) = 0 /\ Uses(fields', u) = 0
      /\ IsMap(functions', Values) /\ IsMap(fields', Values)
  BY <1>1, <1>2, <1>3, CollectedIs
<1>5. IsMap(exports', All)
  <2>1. DOMAIN Empty = {} /\ IsFiniteSet({})
    BY FS_EmptySet DEF Empty
  <2> QED
    BY <1>1, <2>1 DEF IsMap, Empty
<1>6. EnvTypes' /\ ExportedOnce'
  BY <1>1, <1>2, <1>4, <1>5 DEF EnvInv, EnvTypes, ExportedOnce, Loading, IsMap
<1>7. ASSUME NEW u \in All
      PROVE  counts'[u] = hand'[u] + (IF u = Self /\ env' # NoObject THEN 1 ELSE 0)
            + Uses(functions', u) + Uses(fields', u) + Uses(entries', u) + Uses(exports', u)
  <2>1. Uses(exports', u) = 0
    BY <1>1, UsesOne
  <2>2. /\ counts[u] \in Int /\ hand[u] \in Nat /\ Uses(functions, u) \in Nat
        /\ Uses(fields, u) \in Nat /\ Uses(entries, u) \in Nat /\ Uses(exports, u) \in Nat
        /\ counts[u] = hand[u] + (IF u = Self /\ env # NoObject THEN 1 ELSE 0)
              + Uses(functions, u) + Uses(fields, u) + Uses(entries, u) + Uses(exports, u)
    BY EnvMaps
  <2>3. hand' = hand /\ entries' = entries /\ env' = NoObject
    BY <1>1
  <2>4. /\ counts'[u] = counts[u] - Uses(exports, u) - (IF env # NoObject /\ Self = u THEN 1 ELSE 0)
                           - Uses(fields, u) - Uses(functions, u)
        /\ Uses(functions', u) = 0 /\ Uses(fields', u) = 0
    BY <1>3, <1>4
  <2> QED
    BY <2>1, <2>2, <2>3, <2>4
<1> QED
  BY <1>6, <1>7, Balanced

\* Whatever native code and the engine do, each reference keeps its one owner.
THEOREM EnvStep == EnvInv /\ [EnvNext]_envVars => EnvInv'
<1> SUFFICES ASSUME EnvInv, [EnvNext]_envVars PROVE EnvInv'
  OBVIOUS
<1>1. ASSUME NEW v \in Values, Make(v) \/ Free(v) PROVE EnvInv'
  BY <1>1, MakeInv, FreeInv
<1>2. ASSUME NEW n \in Names, UnregisterFunction(n) PROVE EnvInv'
  BY <1>2, UnregisterFunctionInv
<1>3. ASSUME NEW n \in Names, NEW v \in Values, RegisterFunction(n, v) \/ SetModuleField(n, v)
      PROVE  EnvInv'
  BY <1>3, RegisterFunctionInv, SetModuleFieldInv
<1>4. ASSUME NEW n \in Names, NEW v \in Values, NEW withField \in BOOLEAN,
             SetModuleExport(n, v, withField)
      PROVE  EnvInv'
  BY <1>4, SetModuleExportInv
<1>5. ASSUME NEW list \in SUBSET Names, NEW module \in All, SetModuleExportDone(list, module)
      PROVE  EnvInv'
  BY <1>5, SetModuleExportDoneInv
<1>6. CASE UNCHANGED envVars
  BY <1>6 DEF envVars, EnvInv, EnvTypes, ExportedOnce, ExportsBalanced, IsMap, Loading, Uses
<1> QED
  BY <1>1, <1>2, <1>3, <1>4, <1>5, <1>6, SetModuleExportFailedInv, FreeModuleInv DEF EnvNext

\* Every reference to a JS value has one owner, for any values and names and any
\* number of references: registerFunction, setModuleField and setModuleExport free
\* what they replace, setModuleExportDone what it leaves out.
THEOREM ReferencesBalance == EnvSpec => []ExportsBalanced
<1>1. EnvInv => ExportsBalanced
  BY DEF EnvInv
<1> QED
  BY <1>1, EnvInitInv, EnvStep, PTL DEF EnvSpec

\* So no value is freed once too often.
NotOverfreed == \A v \in All : counts[v] \in Nat

THEOREM NoneFreedTwice == EnvSpec => []NotOverfreed
<1>1. ASSUME EnvInv, NEW v \in All PROVE counts[v] \in Nat
  BY <1>1, EnvMaps
<1>2. EnvInv => NotOverfreed
  BY <1>1 DEF NotOverfreed
<1> QED
  BY <1>2, EnvInitInv, EnvStep, PTL DEF EnvSpec

-----------------------------------------------------------------------------
(* The bounded cache. *)

NoTwice(seq) == \A i, j \in DOMAIN seq : seq[i] = seq[j] => i = j

Entries(seq) == {seq[i] : i \in DOMAIN seq}

CallTypes ==
    [op : {"idle", "put", "resize", "trim", "trimming"}, key : Keys \cup {Nobody}, size : Int]

CacheTypes ==
    /\ maxSize \in Nat
    /\ lru \in Seq(Keys) /\ used \in Seq(Keys) /\ NoTwice(used)
    /\ lock \in CacheThreads \cup {Nobody}
    /\ call \in [CacheThreads -> CallTypes]
    /\ untold \in [Keys -> Int]
    /\ IsFiniteSet(Units(mapped))
    /\ \A k \in mapped : SizeOf[k] > 0

\* Who puts an entry has the mutex, so that nobody puts it before.
Putting ==
    \A t \in CacheThreads : call[t].op = "put" =>
        /\ lock = t /\ call[t].key \in Keys \ mapped
        /\ call[t].size = SizeOf[call[t].key] /\ call[t].size > 0

CacheInv == CacheTypes /\ Putting /\ CacheHonest

\* The units of an entry more, and of one less.
LEMMA UnitsMore ==
  ASSUME NEW S, IsFiniteSet(Units(S)), NEW k, k \notin S, SizeOf[k] \in Nat
  PROVE  /\ IsFiniteSet(Units(S \cup {k}))
         /\ Cardinality(Units(S \cup {k})) = Cardinality(Units(S)) + SizeOf[k]
         /\ Cardinality(Units(S)) \in Nat
<1> DEFINE T == {k} \X (1..SizeOf[k])
<1>1. Units(S \cup {k}) = Units(S) \cup T /\ Units(S) \cap T = {}
  BY DEF Units
<1>2. IsFiniteSet({k}) /\ Cardinality({k}) = 1
  BY FS_Singleton
<1>3. IsFiniteSet(1..SizeOf[k]) /\ Cardinality(1..SizeOf[k]) = SizeOf[k]
  <2>1. /\ IsFiniteSet(1..SizeOf[k])
        /\ Cardinality(1..SizeOf[k]) = IF 1 > SizeOf[k] THEN 0 ELSE SizeOf[k] - 1 + 1
    BY FS_Interval
  <2> QED
    BY <2>1
<1>4. IsFiniteSet(T) /\ Cardinality(T) = SizeOf[k]
  <2>1. IsFiniteSet(T) /\ Cardinality(T) = Cardinality({k}) * Cardinality(1..SizeOf[k])
    BY <1>2, <1>3, FS_Product
  <2> HIDE DEF T
  <2> QED
    BY <1>2, <1>3, <2>1
<1> HIDE DEF T
<1>5. Cardinality(Units(S)) \in Nat
  BY FS_CardinalityType
<1>6. /\ IsFiniteSet(Units(S) \cup T)
      /\ Cardinality(Units(S) \cup T) =
           Cardinality(Units(S)) + Cardinality(T) - Cardinality(Units(S) \cap T)
  BY <1>4, FS_Union
<1>7. Cardinality(Units(S) \cap T) = 0
  BY <1>1, FS_EmptySet
<1>8. Cardinality(Units(S) \cup T) = Cardinality(Units(S)) + SizeOf[k]
  BY <1>4, <1>5, <1>6, <1>7
<1> QED
  BY <1>1, <1>5, <1>6, <1>8

LEMMA UnitsLess ==
  ASSUME NEW S, IsFiniteSet(Units(S)), NEW k \in S, SizeOf[k] \in Nat
  PROVE  /\ IsFiniteSet(Units(S \ {k}))
         /\ Cardinality(Units(S \ {k})) = Cardinality(Units(S)) - SizeOf[k]
         /\ Cardinality(Units(S \ {k})) \in Nat /\ Cardinality(Units(S)) \in Nat
<1>1. Units(S \ {k}) \subseteq Units(S)
  BY DEF Units
<1>2. IsFiniteSet(Units(S \ {k}))
  BY <1>1, FS_Subset
<1>3. S = (S \ {k}) \cup {k} /\ k \notin S \ {k}
  OBVIOUS
<1>4. Cardinality(Units(S)) = Cardinality(Units(S \ {k})) + SizeOf[k]
  BY <1>2, <1>3, UnitsMore
<1>5. Cardinality(Units(S \ {k})) \in Nat /\ Cardinality(Units(S)) \in Nat
  BY <1>2, FS_CardinalityType
<1> QED
  BY <1>2, <1>4, <1>5

LEMMA UnitsNone == IsFiniteSet(Units({})) /\ Cardinality(Units({})) = 0
<1>1. Units({}) = {}
  BY DEF Units
<1> QED
  BY <1>1, FS_EmptySet

\* A key at the place i goes to the front.
LEMMA MovedToFront ==
  ASSUME NEW seq \in Seq(Keys), NoTwice(seq), NEW i \in DOMAIN seq
  PROVE  /\ InFront(seq[i], seq) \in Seq(Keys) /\ Len(InFront(seq[i], seq)) = Len(seq)
         /\ \A j \in DOMAIN seq :
              InFront(seq[i], seq)[j] = IF j = 1 THEN seq[i]
                                        ELSE IF j <= i THEN seq[j - 1] ELSE seq[j]
<1> DEFINE k == seq[i]
           I == {j \in 1..Len(seq) : seq[j] = k}
           rest == RemoveAt(seq, i)
<1>1. /\ Len(seq) \in Nat /\ DOMAIN seq = 1..Len(seq) /\ i \in 1..Len(seq)
      /\ \A j \in 1..Len(seq) : seq[j] \in Keys
  OBVIOUS
<1>2. I = {i}
  BY <1>1 DEF NoTwice
<1>3. SelectInSeq(seq, LAMBDA v : v = k) = i
  <2>1. Min({i}) = i
    BY <1>1 DEF Min
  <2> QED
    BY <1>2, <2>1 DEF SelectInSeq
<1>4. RemoveFirst(seq, k) = rest
  BY <1>1, <1>3 DEF RemoveFirst
<1>5. /\ SubSeq(seq, 1, i - 1) \in Seq(Keys) /\ Len(SubSeq(seq, 1, i - 1)) = i - 1
      /\ \A j \in 1..(i - 1) : SubSeq(seq, 1, i - 1)[j] = seq[j]
  BY <1>1, SubSeqProperties
<1>6. /\ SubSeq(seq, i + 1, Len(seq)) \in Seq(Keys)
      /\ Len(SubSeq(seq, i + 1, Len(seq))) = Len(seq) - i
      /\ \A j \in 1..(Len(seq) - i) : SubSeq(seq, i + 1, Len(seq))[j] = seq[j + i]
  BY <1>1, SubSeqProperties
<1>7. /\ rest \in Seq(Keys) /\ Len(rest) = Len(seq) - 1
      /\ \A j \in 1..(Len(seq) - 1) : rest[j] = IF j < i THEN seq[j] ELSE seq[j + 1]
  <2> DEFINE a == SubSeq(seq, 1, i - 1)
             b == SubSeq(seq, i + 1, Len(seq))
  <2>1. rest = a \o b
    BY DEF RemoveAt
  <2>2. /\ a \in Seq(Keys) /\ Len(a) = i - 1 /\ \A j \in 1..(i - 1) : a[j] = seq[j]
        /\ b \in Seq(Keys) /\ Len(b) = Len(seq) - i /\ \A j \in 1..(Len(seq) - i) : b[j] = seq[j + i]
    BY <1>5, <1>6
  <2> HIDE DEF a, b
  <2>3. /\ a \o b \in Seq(Keys) /\ Len(a \o b) = Len(a) + Len(b)
        /\ \A j \in 1..(Len(a) + Len(b)) : (a \o b)[j] = IF j <= Len(a) THEN a[j] ELSE b[j - Len(a)]
    BY <2>2, ConcatProperties
  <2>4. Len(a) + Len(b) = Len(seq) - 1
    BY <1>1, <2>2
  <2>5. ASSUME NEW j \in 1..(Len(seq) - 1)
        PROVE  (a \o b)[j] = IF j < i THEN seq[j] ELSE seq[j + 1]
    <3>1. (a \o b)[j] = IF j <= Len(a) THEN a[j] ELSE b[j - Len(a)]
      BY <2>3, <2>4
    <3>2. CASE j < i
      BY <1>1, <2>2, <3>1, <3>2
    <3>3. CASE ~(j < i)
      <4>1. j - Len(a) \in 1..(Len(seq) - i) /\ j - Len(a) + i = j + 1 /\ ~(j <= Len(a))
        BY <1>1, <2>2, <3>3
      <4> QED
        BY <2>2, <3>1, <3>3, <4>1
    <3> QED
      BY <3>2, <3>3
  <2> QED
    BY <2>1, <2>3, <2>4, <2>5
<1> HIDE DEF rest, k
<1>8. /\ <<k>> \in Seq(Keys) /\ Len(<<k>>) = 1 /\ <<k>>[1] = k
  BY <1>1 DEF k
<1>9. /\ <<k>> \o rest \in Seq(Keys) /\ Len(<<k>> \o rest) = Len(seq)
      /\ \A j \in 1..Len(seq) : (<<k>> \o rest)[j] = IF j <= 1 THEN k ELSE rest[j - 1]
  <2>1. /\ <<k>> \o rest \in Seq(Keys) /\ Len(<<k>> \o rest) = Len(<<k>>) + Len(rest)
        /\ \A j \in 1..(Len(<<k>>) + Len(rest)) :
             (<<k>> \o rest)[j] = IF j <= Len(<<k>>) THEN <<k>>[j] ELSE rest[j - Len(<<k>>)]
    BY <1>7, <1>8, ConcatProperties
  <2>2. Len(<<k>>) + Len(rest) = Len(seq)
    BY <1>1, <1>7, <1>8
  <2>3. \A j \in 1..Len(seq) : j <= 1 => j = 1
    BY <1>1
  <2> QED
    BY <1>8, <2>1, <2>2, <2>3
<1>10. InFront(k, seq) = <<k>> \o rest
  BY <1>4 DEF InFront
<1>11. \A j \in 1..Len(seq) : j > 1 => rest[j - 1] = IF j <= i THEN seq[j - 1] ELSE seq[j]
  BY <1>1, <1>7
<1>12. ASSUME NEW j \in DOMAIN seq
       PROVE  InFront(k, seq)[j] = IF j = 1 THEN k ELSE IF j <= i THEN seq[j - 1] ELSE seq[j]
  <2>1. j \in 1..Len(seq) /\ (j = 1 \/ j > 1)
    BY <1>1
  <2>2. CASE j = 1
    BY <1>9, <1>10, <2>1, <2>2
  <2>3. CASE j > 1
    <3>1. ~(j <= 1) /\ j # 1
      BY <2>1, <2>3
    <3> QED
      BY <1>9, <1>10, <1>11, <2>1, <2>3, <3>1
  <2> QED
    BY <2>1, <2>2, <2>3
<1>13. InFront(k, seq) \in Seq(Keys) /\ Len(InFront(k, seq)) = Len(seq)
  BY <1>9, <1>10
<1> QED
  BY <1>12, <1>13 DEF k

LEMMA FrontNoTwice ==
  ASSUME NEW seq \in Seq(Keys), NoTwice(seq), NEW i \in DOMAIN seq, NEW new \in Seq(Keys),
         Len(new) = Len(seq),
         \A j \in DOMAIN seq : new[j] = IF j = 1 THEN seq[i]
                                        ELSE IF j <= i THEN seq[j - 1] ELSE seq[j]
  PROVE  NoTwice(new) /\ DOMAIN new = DOMAIN seq /\ Entries(new) = Entries(seq)
<1> DEFINE From(j) == IF j = 1 THEN i ELSE IF j <= i THEN j - 1 ELSE j
           To(j) == IF j = i THEN 1 ELSE IF j < i THEN j + 1 ELSE j
<1>1. DOMAIN seq = 1..Len(seq) /\ DOMAIN new = 1..Len(seq) /\ Len(seq) \in Nat
  OBVIOUS
<1>2. ASSUME NEW j \in DOMAIN seq
      PROVE  /\ From(j) \in DOMAIN seq /\ new[j] = seq[From(j)] /\ To(From(j)) = j
             /\ To(j) \in DOMAIN seq /\ From(To(j)) = j
  <2>1. j \in 1..Len(seq) /\ i \in 1..Len(seq)
    BY <1>1
  <2>2. new[j] = seq[From(j)]
    OBVIOUS
  <2>3. From(j) \in DOMAIN seq /\ To(j) \in DOMAIN seq
    BY <1>1, <2>1
  <2>4. To(From(j)) = j
    BY <1>1, <2>1
  <2>5. From(To(j)) = j
    BY <1>1, <2>1
  <2> QED
    BY <2>2, <2>3, <2>4, <2>5
<1> HIDE DEF From, To
<1>3. NoTwice(new)
  <2>1. ASSUME NEW j \in DOMAIN new, NEW m \in DOMAIN new, new[j] = new[m]
        PROVE  j = m
    <3>1. From(j) = From(m)
      BY <1>1, <1>2, <2>1 DEF NoTwice
    <3>2. To(From(j)) = j /\ To(From(m)) = m
      BY <1>1, <1>2
    <3> QED
      BY <3>1, <3>2
  <2> QED
    BY <2>1 DEF NoTwice
<1>4. \A j \in DOMAIN seq : new[To(j)] = seq[j] /\ To(j) \in DOMAIN new
  BY <1>1, <1>2
<1>5. Entries(new) = Entries(seq)
  <2>1. ASSUME NEW j \in DOMAIN new PROVE new[j] \in Entries(seq)
    BY <1>1, <1>2 DEF Entries
  <2>2. ASSUME NEW j \in DOMAIN seq PROVE seq[j] \in Entries(new)
    BY <1>4 DEF Entries
  <2> QED
    BY <2>1, <2>2 DEF Entries
<1> QED
  BY <1>1, <1>3, <1>5

LEMMA NewInFront ==
  ASSUME NEW seq \in Seq(Keys), NEW k \in Keys, k \notin Entries(seq)
  PROVE  InFront(k, seq) = <<k>> \o seq
<1>1. ~\E i \in 1..Len(seq) : seq[i] = k
  BY DEF Entries
<1> QED
  BY <1>1 DEF InFront, RemoveFirst

LEMMA Pushed ==
  ASSUME NEW seq \in Seq(Keys), NEW k \in Keys
  PROVE  /\ <<k>> \o seq \in Seq(Keys) /\ Len(<<k>> \o seq) = Len(seq) + 1
         /\ \A j \in 1..(Len(seq) + 1) : (<<k>> \o seq)[j] = IF j = 1 THEN k ELSE seq[j - 1]
<1>1. /\ <<k>> \in Seq(Keys) /\ Len(<<k>>) = 1 /\ <<k>>[1] = k /\ Len(seq) \in Nat
  OBVIOUS
<1> QED
  BY <1>1, ConcatProperties

LEMMA CacheElements ==
  ASSUME CacheInv
  PROVE  /\ Len(lru) \in Nat /\ DOMAIN lru = 1..Len(lru) /\ \A i \in DOMAIN lru : lru[i] \in Keys
         /\ Len(used) \in Nat /\ DOMAIN used = 1..Len(used) /\ \A i \in DOMAIN used : used[i] \in Keys
         /\ Len(lru) <= Len(used) /\ \A i \in DOMAIN lru : i \in DOMAIN used /\ lru[i] = used[i]
         /\ mapped = Entries(lru) /\ mapped \subseteq Keys /\ NoTwice(lru)
         /\ cacheSize = Cardinality(Units(mapped)) /\ cacheSize \in Nat
         /\ \A k \in mapped : SizeOf[k] \in Nat /\ SizeOf[k] > 0
<1>1. /\ lru \in Seq(Keys) /\ used \in Seq(Keys) /\ NoTwice(used) /\ IsFiniteSet(Units(mapped))
      /\ \A k \in mapped : SizeOf[k] > 0
      /\ Len(lru) <= Len(used) /\ \A i \in DOMAIN lru : lru[i] = used[i]
      /\ mapped = Entries(lru) /\ cacheSize = Cardinality(Units(mapped))
  BY DEF CacheInv, CacheTypes, CacheHonest, Entries
<1>2. /\ Len(lru) \in Nat /\ DOMAIN lru = 1..Len(lru) /\ \A i \in DOMAIN lru : lru[i] \in Keys
      /\ Len(used) \in Nat /\ DOMAIN used = 1..Len(used) /\ \A i \in DOMAIN used : used[i] \in Keys
  BY <1>1
<1>3. \A i \in DOMAIN lru : i \in DOMAIN used
  BY <1>1, <1>2
<1>4. NoTwice(lru)
  BY <1>1, <1>3 DEF NoTwice
<1>5. mapped \subseteq Keys
  BY <1>1, <1>2 DEF Entries
<1>6. \A k \in mapped : SizeOf[k] \in Nat
  BY <1>1, <1>5, CacheAssumption
<1>7. cacheSize \in Nat
  BY <1>1, FS_CardinalityType
<1> QED
  BY <1>1, <1>2, <1>3, <1>4, <1>5, <1>6, <1>7

LEMMA CacheInitInv == CacheInit => CacheInv
<1> SUFFICES ASSUME CacheInit PROVE CacheInv
  OBVIOUS
<1>1. lru = <<>> /\ used = <<>> /\ mapped = {} /\ cacheSize = 0 /\ lock = Nobody
      /\ call = [t \in CacheThreads |-> Idle] /\ untold = [k \in Keys |-> 0]
  BY DEF CacheInit
<1>2. maxSize \in Nat
  BY CacheAssumption DEF CacheInit, NotNegative
<1>3. Idle \in CallTypes /\ Idle.op = "idle"
  BY DEF Idle, CallTypes
<1>4. lru \in Seq(Keys) /\ Len(lru) = 0 /\ DOMAIN lru = {} /\ used \in Seq(Keys) /\ DOMAIN used = {}
      /\ Len(used) = 0
  BY <1>1
<1>5. CacheTypes
  BY <1>1, <1>2, <1>3, <1>4, UnitsNone DEF CacheTypes, NoTwice
<1>6. Putting
  BY <1>1, <1>3 DEF Putting
<1>7. CacheHonest
  BY <1>1, <1>2, <1>4, UnitsNone DEF CacheHonest
<1> QED
  BY <1>5, <1>6, <1>7 DEF CacheInv

\* The eldest goes.
LEMMA RemoveEldestInv == ASSUME CacheInv, RemoveEldest PROVE CacheInv'
<1>1. UNCHANGED <<maxSize, lock, call, resizes, used>>
  BY DEF RemoveEldest
<1>2. CASE lru = <<>>
  <2>1. UNCHANGED <<cacheSize, lru, mapped, untold>>
    BY <1>2 DEF RemoveEldest
  <2> QED
    BY <1>1, <2>1 DEF CacheInv, CacheTypes, Putting, CacheHonest, Resizing, Units, NoTwice
<1>3. CASE lru # <<>>
  <2> DEFINE n == Len(lru)
             k == lru[n]
  <2>1. /\ mapped' = mapped \ {k} /\ cacheSize' = cacheSize - SizeOf[k]
        /\ untold' = [untold EXCEPT ![k] = @ - 1] /\ lru' = Front(lru)
    BY <1>3 DEF RemoveEldest, Eldest, Last
  <2>2. n \in Nat /\ n > 0 /\ n \in DOMAIN lru /\ k \in mapped /\ k \in Keys
    <3>1. lru \in Seq(Keys)
      BY DEF CacheInv, CacheTypes
    <3>2. n \in Nat /\ n > 0
      BY <1>3, <3>1
    <3> QED
      BY <3>2, CacheElements DEF Entries
  <2>3. /\ lru' \in Seq(Keys) /\ Len(lru') = n - 1 /\ DOMAIN lru' = 1..(n - 1)
        /\ \A i \in 1..(n - 1) : i \in DOMAIN lru /\ lru'[i] = lru[i]
    <3>1. \A i \in 1..(n - 1) : lru[i] \in Keys
      BY <2>2, CacheElements
    <3>2. /\ SubSeq(lru, 1, n - 1) \in Seq(Keys)
          /\ Len(SubSeq(lru, 1, n - 1)) = IF 1 <= n - 1 THEN n - 1 - 1 + 1 ELSE 0
          /\ \A i \in 1..(n - 1 - 1 + 1) : SubSeq(lru, 1, n - 1)[i] = lru[1 + i - 1]
      BY <2>2, <3>1, SubSeqProperties
    <3>3. lru' = SubSeq(lru, 1, n - 1)
      BY <2>1 DEF Front
    <3>4. Len(lru') = n - 1
      <4>1. n \in Nat /\ n > 0
        BY <2>2
      <4>2. Len(SubSeq(lru, 1, n - 1)) = IF 1 <= n - 1 THEN n - 1 - 1 + 1 ELSE 0
        BY <3>2
      <4> HIDE DEF n
      <4>3. n = 1 \/ 1 <= n - 1
        BY <4>1
      <4> QED
        BY <3>3, <4>1, <4>2, <4>3
    <3>5. \A i \in 1..(n - 1) : lru'[i] = lru[i]
      BY <2>2, <3>2, <3>3
    <3>6. \A i \in 1..(n - 1) : i \in DOMAIN lru
      BY <2>2, CacheElements
    <3> HIDE DEF n
    <3> QED
      BY <3>2, <3>3, <3>4, <3>5, <3>6
  <2> HIDE DEF n, k
  <2>4. mapped' = Entries(lru')
    <3>1. \A i \in DOMAIN lru : i = n \/ i \in 1..(n - 1)
      BY <2>2, CacheElements DEF n
    <3>2. \A i \in 1..(n - 1) : lru[i] # k
      BY <2>2, <2>3, CacheElements DEF NoTwice, n, k
    <3>3. mapped = Entries(lru)
      BY CacheElements
    <3> QED
      BY <2>1, <2>2, <2>3, <3>1, <3>2, <3>3 DEF Entries, k
  <2>5. /\ IsFiniteSet(Units(mapped')) /\ cacheSize' = Cardinality(Units(mapped'))
        /\ cacheSize' <= cacheSize
    <3>1. IsFiniteSet(Units(mapped)) /\ SizeOf[k] \in Nat
      BY <2>2, CacheElements DEF CacheInv, CacheTypes
    <3>2. /\ IsFiniteSet(Units(mapped \ {k}))
          /\ Cardinality(Units(mapped \ {k})) = Cardinality(Units(mapped)) - SizeOf[k]
      BY <2>2, <3>1, UnitsLess
    <3> QED
      BY <2>1, <3>1, <3>2, CacheElements
  <2>6. untold' \in [Keys -> Int] /\ \A x \in Keys : untold'[x] = (IF x \in mapped' THEN 1 ELSE 0)
    BY <2>1, <2>2, SMTT(30) DEF CacheInv, CacheTypes, CacheHonest
  <2>7. /\ Len(lru') <= Len(used') /\ \A i \in DOMAIN lru' : lru'[i] = used'[i]
    BY <1>1, <2>2, <2>3, CacheElements DEF n
  <2>8. ~Resizing' => cacheSize' <= maxSize'
    <3>1. ~Resizing' => cacheSize <= maxSize
      BY <1>1 DEF Resizing, CacheInv, CacheHonest
    <3>2. cacheSize' \in Int /\ cacheSize \in Int /\ maxSize \in Int
      BY <2>5, FS_CardinalityType, CacheElements DEF CacheInv, CacheTypes
    <3> QED
      BY <1>1, <2>5, <3>1, <3>2
  <2>9. CacheTypes'
    BY <1>1, <2>1, <2>3, <2>5, <2>6 DEF CacheInv, CacheTypes, NoTwice
  <2>10. Putting'
    BY <1>1, <2>1 DEF CacheInv, Putting
  <2>11. CacheHonest'
    BY <2>4, <2>5, <2>6, <2>7, <2>8 DEF CacheHonest, Entries, Units
  <2> QED
    BY <2>9, <2>10, <2>11 DEF CacheInv
<1> QED
  BY <1>2, <1>3

\* Steps that leave the entries alone.
LEMMA EntriesStay ==
  ASSUME CacheInv, UNCHANGED <<cacheSize, lru, mapped, used, untold>>,
         maxSize' \in Nat, lock' \in CacheThreads \cup {Nobody}, call' \in [CacheThreads -> CallTypes],
         Putting', ~Resizing' => cacheSize <= maxSize'
  PROVE  CacheInv'
  BY DEF CacheInv, CacheTypes, CacheHonest, Resizing, Units, NoTwice

\* What a thread is in the middle of.
LEMMA GoesIs ==
  ASSUME CacheInv, NEW t \in CacheThreads, NEW c \in CallTypes, Goes(t, c)
  PROVE  /\ call' \in [CacheThreads -> CallTypes]
         /\ call'[t] = c /\ \A u \in CacheThreads : u # t => call'[u] = call[u]
  BY DEF Goes, CacheInv, CacheTypes

LEMMA PutCacheInv ==
  ASSUME CacheInv, NEW t \in CacheThreads, NEW k \in Keys, PutCache(t, k)
  PROVE  CacheInv'
<1>1. /\ lock = Nobody /\ lock' = t /\ SizeOf[k] > 0 /\ k \notin mapped
      /\ Goes(t, InCall("put", k, SizeOf[k])) /\ call[t] = Idle
      /\ UNCHANGED <<maxSize, cacheSize, lru, mapped, used, untold>>
  BY DEF PutCache, Locks, Begins
<1>2. InCall("put", k, SizeOf[k]) \in CallTypes
  BY CacheAssumption DEF InCall, CallTypes
<1>3. /\ call' \in [CacheThreads -> CallTypes] /\ call'[t] = InCall("put", k, SizeOf[k])
      /\ \A u \in CacheThreads : u # t => call'[u] = call[u]
  BY <1>1, <1>2, GoesIs
<1>4. /\ call'[t].op = "put" /\ call'[t].key = k /\ call'[t].size = SizeOf[k]
  BY <1>3 DEF InCall
<1>5. \A u \in CacheThreads : call[u].op # "put"
  BY <1>1, CacheAssumption DEF CacheInv, Putting
<1>6. Putting'
  BY <1>1, <1>3, <1>4, <1>5 DEF Putting
<1>7. ~Resizing' => ~Resizing
  BY <1>1, <1>3 DEF Resizing, Idle
<1>8. maxSize' \in Nat /\ lock' \in CacheThreads \cup {Nobody} /\ (~Resizing' => cacheSize <= maxSize')
  BY <1>1, <1>7 DEF CacheInv, CacheTypes, CacheHonest
<1> QED
  BY <1>1, <1>3, <1>6, <1>8, EntriesStay

\* The entry that has been put was not cached, so it stands behind those that are in
\* the order of use, or nowhere.
LEMMA PutDoneInv ==
  ASSUME CacheInv, NEW t \in CacheThreads, PutDone(t)
  PROVE  CacheInv'
<1> DEFINE k == call[t].key
<1>1. /\ lock = t /\ lock' = Nobody /\ Goes(t, Idle) /\ call[t].op = "put"
      /\ cacheSize + call[t].size <= maxSize /\ maxSize' = maxSize
      /\ lru' = <<k>> \o lru /\ mapped' = mapped \cup {k} /\ used' = InFront(k, used)
      /\ untold' = [untold EXCEPT ![k] = @ + 1] /\ cacheSize' = cacheSize + call[t].size
  BY DEF PutDone, Unlocks
<1>2. k \in Keys /\ k \notin mapped /\ call[t].size = SizeOf[k] /\ SizeOf[k] \in Nat /\ SizeOf[k] > 0
  BY <1>1, CacheAssumption DEF CacheInv, Putting
<1> HIDE DEF k
<1>3. /\ Len(lru) \in Nat /\ lru \in Seq(Keys) /\ used \in Seq(Keys) /\ NoTwice(used)
  BY CacheElements DEF CacheInv, CacheTypes
<1>4. /\ lru' \in Seq(Keys) /\ Len(lru') = Len(lru) + 1 /\ DOMAIN lru' = 1..(Len(lru) + 1)
      /\ \A j \in 1..(Len(lru) + 1) : lru'[j] = IF j = 1 THEN k ELSE lru[j - 1]
  <2>1. /\ <<k>> \o lru \in Seq(Keys) /\ Len(<<k>> \o lru) = Len(lru) + 1
        /\ \A j \in 1..(Len(lru) + 1) : (<<k>> \o lru)[j] = IF j = 1 THEN k ELSE lru[j - 1]
    BY <1>2, <1>3, Pushed
  <2>2. lru' \in Seq(Keys) /\ Len(lru') = Len(lru) + 1
    BY <1>1, <2>1
  <2>3. DOMAIN lru' = 1..Len(lru')
    BY <2>2
  <2> QED
    BY <1>1, <2>1, <2>2, <2>3
<1>5. /\ used' \in Seq(Keys) /\ NoTwice(used') /\ Len(lru') <= Len(used')
      /\ \A j \in 1..(Len(lru) + 1) : used'[j] = IF j = 1 THEN k ELSE used[j - 1]
  <2>1. CASE k \notin Entries(used)
    <3>1. /\ used' = <<k>> \o used /\ used' \in Seq(Keys) /\ Len(used') = Len(used) + 1
          /\ \A j \in 1..(Len(used) + 1) : used'[j] = IF j = 1 THEN k ELSE used[j - 1]
      <4>1. used' = <<k>> \o used
        BY <1>1, <1>2, <1>3, <2>1, NewInFront
      <4>2. /\ <<k>> \o used \in Seq(Keys) /\ Len(<<k>> \o used) = Len(used) + 1
            /\ \A j \in 1..(Len(used) + 1) : (<<k>> \o used)[j] = IF j = 1 THEN k ELSE used[j - 1]
        BY <1>2, <1>3, Pushed
      <4> QED
        BY <4>1, <4>2
    <3>2. NoTwice(used')
      <4>1. DOMAIN used' = 1..(Len(used) + 1) /\ DOMAIN used = 1..Len(used) /\ Len(used) \in Nat
        BY <3>1, CacheElements
      <4>2. ASSUME NEW i \in DOMAIN used', NEW j \in DOMAIN used', used'[i] = used'[j]
            PROVE  i = j
        <5>1. i = 1 \/ (i - 1 \in DOMAIN used /\ used'[i] = used[i - 1] /\ i # 1)
          BY <3>1, <4>1
        <5>2. j = 1 \/ (j - 1 \in DOMAIN used /\ used'[j] = used[j - 1] /\ j # 1)
          BY <3>1, <4>1
        <5>3. used'[1] = k /\ \A m \in DOMAIN used : used[m] # k
          BY <2>1, <3>1, <4>1 DEF Entries
        <5>4. i # 1 /\ j # 1 => i - 1 = j - 1
          BY <4>2, <5>1, <5>2, <1>3 DEF NoTwice
        <5>5. i # 1 /\ j # 1 => i = j
          BY <4>1, <5>4
        <5> QED
          BY <4>2, <5>1, <5>2, <5>3, <5>5
      <4> QED
        BY <4>2 DEF NoTwice
    <3>3. Len(lru) <= Len(used) /\ Len(used) \in Nat
      BY CacheElements
    <3> QED
      BY <1>3, <1>4, <3>1, <3>2, <3>3
  <2>2. ASSUME NEW i \in DOMAIN used, used[i] = k
        PROVE  /\ used' \in Seq(Keys) /\ NoTwice(used') /\ Len(lru') <= Len(used')
               /\ \A j \in 1..(Len(lru) + 1) : used'[j] = IF j = 1 THEN k ELSE used[j - 1]
    <3>1. /\ used' \in Seq(Keys) /\ Len(used') = Len(used)
          /\ \A j \in DOMAIN used : used'[j] = IF j = 1 THEN k ELSE IF j <= i THEN used[j - 1] ELSE used[j]
      BY <1>1, <1>3, <2>2, MovedToFront
    <3>2. Len(lru) < i /\ i <= Len(used) /\ i \in Nat
      <4>1. Len(lru) <= Len(used) /\ \A j \in DOMAIN lru : lru[j] = used[j] /\ lru[j] \in mapped
        BY CacheElements DEF Entries
      <4>2. i \notin DOMAIN lru
        BY <1>2, <2>2, <4>1
      <4> QED
        BY <4>2, CacheElements
    <3>3. NoTwice(used')
      BY <1>3, <2>2, <3>1, FrontNoTwice
    <3>4. \A j \in 1..(Len(lru) + 1) : j <= i /\ j \in DOMAIN used
      BY <1>3, <3>2, CacheElements
    <3>5. \A j \in 1..(Len(lru) + 1) : used'[j] = IF j = 1 THEN k ELSE used[j - 1]
      BY <2>2, <3>1, <3>4
    <3>6. Len(lru') <= Len(used')
      BY <1>3, <1>4, <3>1, <3>2, CacheElements
    <3> QED
      BY <3>1, <3>3, <3>5, <3>6
  <2> QED
    BY <2>1, <2>2 DEF Entries
<1>6. mapped' = Entries(lru')
  <2>1. mapped = Entries(lru) /\ DOMAIN lru = 1..Len(lru)
    BY CacheElements
  <2>2. \A j \in DOMAIN lru : j + 1 \in DOMAIN lru' /\ lru'[j + 1] = lru[j]
    BY <1>3, <1>4, <2>1
  <2>3. \A j \in DOMAIN lru' : j = 1 \/ (j - 1 \in DOMAIN lru /\ lru'[j] = lru[j - 1])
    BY <1>3, <1>4, <2>1
  <2>4. 1 \in DOMAIN lru' /\ lru'[1] = k
    BY <1>3, <1>4
  <2>5. ASSUME NEW x \in Entries(lru') PROVE x \in mapped'
    <3>1. PICK j \in DOMAIN lru' : lru'[j] = x
      BY DEF Entries
    <3> QED
      BY <1>1, <2>1, <2>3, <2>4, <3>1 DEF Entries
  <2>6. ASSUME NEW x \in mapped' PROVE x \in Entries(lru')
    <3>1. CASE x = k
      BY <2>4, <3>1 DEF Entries
    <3>2. CASE x \in mapped
      <4>1. PICK j \in DOMAIN lru : lru[j] = x
        BY <2>1, <3>2 DEF Entries
      <4> QED
        BY <2>2, <4>1 DEF Entries
    <3> QED
      BY <1>1, <3>1, <3>2
  <2> QED
    BY <2>5, <2>6
<1>7. \A i \in DOMAIN lru' : lru'[i] = used'[i]
  <2>1. ASSUME NEW i \in DOMAIN lru' PROVE lru'[i] = used'[i]
    <3>1. i \in 1..(Len(lru) + 1) /\ (i = 1 \/ i - 1 \in DOMAIN lru)
      BY <1>3, <1>4, CacheElements
    <3> QED
      BY <1>4, <1>5, <3>1, CacheElements
  <2> QED
    BY <2>1
<1>8. /\ IsFiniteSet(Units(mapped')) /\ cacheSize' = Cardinality(Units(mapped'))
      /\ cacheSize' <= maxSize'
  <2>1. IsFiniteSet(Units(mapped))
    BY DEF CacheInv, CacheTypes
  <2>2. /\ IsFiniteSet(Units(mapped \cup {k}))
        /\ Cardinality(Units(mapped \cup {k})) = Cardinality(Units(mapped)) + SizeOf[k]
    BY <1>2, <2>1, UnitsMore
  <2> QED
    BY <1>1, <1>2, <2>2, CacheElements
<1>9. untold' \in [Keys -> Int] /\ \A x \in Keys : untold'[x] = (IF x \in mapped' THEN 1 ELSE 0)
  BY <1>1, <1>2 DEF CacheInv, CacheTypes, CacheHonest
<1>10. Idle \in CallTypes /\ Idle.op = "idle"
  BY DEF Idle, CallTypes
<1>11. /\ call' \in [CacheThreads -> CallTypes] /\ call'[t] = Idle
       /\ \A u \in CacheThreads : u # t => call'[u] = call[u]
  BY <1>1, <1>10, GoesIs
<1>12. CacheTypes'
  BY <1>1, <1>2, <1>4, <1>5, <1>8, <1>9, <1>11 DEF CacheInv, CacheTypes
<1>13. Putting'
  <2>1. \A u \in CacheThreads : u # t => call[u].op # "put"
    BY <1>1 DEF CacheInv, Putting
  <2> QED
    BY <1>10, <1>11, <2>1 DEF Putting
<1>14. CacheHonest'
  BY <1>5, <1>6, <1>7, <1>8, <1>9 DEF CacheHonest, Entries
<1> QED
  BY <1>12, <1>13, <1>14 DEF CacheInv

\* What is found goes to the front in the list and in the order of use alike.
LEMMA GetCacheInv ==
  ASSUME CacheInv, NEW t \in CacheThreads, NEW k \in Keys, GetCache(t, k)
  PROVE  CacheInv'
<1>1. /\ k \in mapped /\ lru' = InFront(k, lru) /\ used' = InFront(k, used)
      /\ UNCHANGED <<maxSize, cacheSize, mapped, lock, call, untold>>
  BY DEF GetCache
<1>2. PICK i \in DOMAIN lru : lru[i] = k
  BY <1>1, CacheElements DEF Entries
<1>3. i \in DOMAIN used /\ used[i] = k
  BY <1>2, CacheElements
<1>4. lru \in Seq(Keys) /\ used \in Seq(Keys) /\ NoTwice(lru) /\ NoTwice(used)
  BY CacheElements DEF CacheInv, CacheTypes
<1>5. /\ lru' \in Seq(Keys) /\ Len(lru') = Len(lru)
      /\ \A j \in DOMAIN lru : lru'[j] = IF j = 1 THEN lru[i] ELSE IF j <= i THEN lru[j - 1] ELSE lru[j]
  BY <1>1, <1>2, <1>4, MovedToFront
<1>6. /\ used' \in Seq(Keys) /\ Len(used') = Len(used)
      /\ \A j \in DOMAIN used : used'[j] = IF j = 1 THEN used[i] ELSE IF j <= i THEN used[j - 1] ELSE used[j]
  BY <1>1, <1>3, <1>4, MovedToFront
<1>7. DOMAIN lru' = DOMAIN lru /\ Entries(lru') = Entries(lru)
  BY <1>2, <1>4, <1>5, FrontNoTwice
<1>8. NoTwice(used')
  BY <1>3, <1>4, <1>6, FrontNoTwice
<1>9. \A j \in DOMAIN lru' : lru'[j] = used'[j]
  <2>1. ASSUME NEW j \in DOMAIN lru PROVE lru'[j] = used'[j]
    <3>1. j \in DOMAIN used /\ lru[j] = used[j] /\ (j = 1 \/ j - 1 \in DOMAIN lru)
      BY CacheElements
    <3>2. j # 1 => lru[j - 1] = used[j - 1]
      BY <3>1, CacheElements
    <3> QED
      BY <1>2, <1>3, <1>5, <1>6, <3>1, <3>2
  <2> QED
    BY <1>7, <2>1
<1>10. CacheTypes'
  BY <1>1, <1>5, <1>6, <1>8 DEF CacheInv, CacheTypes
<1>11. Putting'
  BY <1>1 DEF CacheInv, Putting
<1>12. Resizing' <=> Resizing
  BY <1>1 DEF Resizing
<1>13. CacheHonest'
  BY <1>1, <1>5, <1>6, <1>7, <1>9, <1>12, CacheElements DEF CacheInv, CacheHonest, Entries
<1> QED
  BY <1>10, <1>11, <1>13 DEF CacheInv

\* The limit is set outside of the mutex; until the entries beyond it are gone, the
\* thread is resizing.
LEMMA ResizeInv ==
  ASSUME CacheInv, NEW t \in CacheThreads, NEW n \in Limits, Resize(t, n)
  PROVE  CacheInv'
<1>1. /\ maxSize' = NotNegative(n) /\ Goes(t, InCall("resize", Nobody, 0))
      /\ UNCHANGED <<cacheSize, lru, mapped, lock, used, untold>>
  BY DEF Resize
<1>2. InCall("resize", Nobody, 0) \in CallTypes /\ InCall("resize", Nobody, 0).op = "resize"
  BY DEF InCall, CallTypes
<1>3. /\ call' \in [CacheThreads -> CallTypes] /\ call'[t].op = "resize"
      /\ \A u \in CacheThreads : u # t => call'[u] = call[u]
  BY <1>1, <1>2, GoesIs
<1>4. Putting'
  BY <1>1, <1>3 DEF CacheInv, Putting
<1>5. Resizing' /\ maxSize' \in Nat
  BY <1>1, <1>3, CacheAssumption DEF Resizing, NotNegative
<1> QED
  BY <1>1, <1>3, <1>4, <1>5, EntriesStay DEF CacheInv, CacheTypes

\* A thread that neither puts nor ends a resize goes on to what is neither.
LEMMA OtherGoesInv ==
  ASSUME CacheInv, NEW t \in CacheThreads, NEW c \in CallTypes, Goes(t, c),
         c.op \notin {"put", "resize"}, call[t].op \notin {"put", "resize"},
         UNCHANGED <<maxSize, cacheSize, lru, mapped, used, untold>>,
         lock' = lock \/ (lock = t /\ lock' = Nobody)
  PROVE  CacheInv'
<1>1. /\ call' \in [CacheThreads -> CallTypes] /\ call'[t] = c
      /\ \A u \in CacheThreads : u # t => call'[u] = call[u]
  BY GoesIs
<1>2. Putting'
  BY <1>1 DEF CacheInv, Putting
<1>3. ~Resizing' => ~Resizing
  BY <1>1 DEF Resizing
<1> QED
  BY <1>1, <1>2, <1>3, EntriesStay DEF CacheInv, CacheTypes, CacheHonest

LEMMA TrimInv ==
  ASSUME CacheInv, NEW t \in CacheThreads, NEW p \in Percents, Trim(t, p)
  PROVE  CacheInv'
<1>1. (maxSize * p) \div 100 \in Int
  <2>1. maxSize \in Int /\ p \in Int
    BY CacheAssumption DEF CacheInv, CacheTypes
  <2> QED
    BY <2>1
<1> DEFINE c == InCall("trim", Nobody, (maxSize * p) \div 100)
<1>2. c \in CallTypes /\ c.op = "trim"
  BY <1>1 DEF InCall, CallTypes
<1>3. /\ Goes(t, c) /\ call[t].op = "idle" /\ lock' = lock
      /\ UNCHANGED <<maxSize, cacheSize, lru, mapped, used, untold>>
  BY DEF Trim, Begins, Idle
<1> HIDE DEF c
<1> QED
  BY <1>2, <1>3, OtherGoesInv

LEMMA TrimReturnsInv == ASSUME CacheInv, NEW t \in CacheThreads, TrimReturns(t) PROVE CacheInv'
<1>1. Idle \in CallTypes /\ Idle.op = "idle"
  BY DEF Idle, CallTypes
<1> QED
  BY <1>1, OtherGoesInv DEF TrimReturns

LEMMA TrimGoesOnInv == ASSUME CacheInv, NEW t \in CacheThreads, TrimGoesOn(t) PROVE CacheInv'
<1> DEFINE c == [call[t] EXCEPT !.op = "trimming"]
<1>1. call[t] \in CallTypes
  BY DEF CacheInv, CacheTypes
<1>2. c \in CallTypes /\ c.op = "trimming"
  BY <1>1 DEF CallTypes
<1>3. /\ Goes(t, c) /\ call[t].op = "trim" /\ lock' = lock
      /\ UNCHANGED <<maxSize, cacheSize, lru, mapped, used, untold>>
  BY DEF TrimGoesOn
<1> HIDE DEF c
<1> QED
  BY <1>2, <1>3, OtherGoesInv

\* resize and trim with the mutex.
LEMMA EnterInv == ASSUME CacheInv, NEW t \in CacheThreads, Enter(t) PROVE CacheInv'
<1>1. /\ lock = Nobody /\ lock' = t
      /\ UNCHANGED <<maxSize, cacheSize, lru, mapped, call, used, untold>>
  BY DEF Enter, Locks
<1>2. \A u \in CacheThreads : call[u].op # "put"
  BY <1>1, CacheAssumption DEF CacheInv, Putting
<1>3. Putting' /\ (Resizing' <=> Resizing)
  BY <1>1, <1>2 DEF Putting, Resizing
<1> QED
  BY <1>1, <1>3, EntriesStay DEF CacheInv, CacheTypes, CacheHonest

LEMMA ShrunkInv == ASSUME CacheInv, NEW t \in CacheThreads, Shrunk(t) PROVE CacheInv'
<1>1. /\ call[t].op \in {"resize", "trimming"} /\ cacheSize <= ShrinkTo(t)
      /\ lock = t /\ lock' = Nobody /\ Goes(t, Idle)
      /\ UNCHANGED <<maxSize, cacheSize, lru, mapped, used, untold>>
  BY DEF Shrunk, Unlocks
<1>2. Idle \in CallTypes /\ Idle.op = "idle"
  BY DEF Idle, CallTypes
<1>3. CASE call[t].op = "trimming"
  BY <1>1, <1>2, <1>3, OtherGoesInv
<1>4. CASE call[t].op = "resize"
  <2>1. cacheSize <= maxSize
    BY <1>1, <1>4 DEF ShrinkTo
  <2>2. /\ call' \in [CacheThreads -> CallTypes] /\ call'[t] = Idle
        /\ \A u \in CacheThreads : u # t => call'[u] = call[u]
    BY <1>1, <1>2, GoesIs
  <2>3. \A u \in CacheThreads : call[u].op # "put"
    BY <1>1 DEF CacheInv, Putting
  <2>4. Putting'
    BY <1>2, <2>2, <2>3 DEF Putting
  <2> QED
    BY <1>1, <2>1, <2>2, <2>4, EntriesStay DEF CacheInv, CacheTypes
<1> QED
  BY <1>1, <1>3, <1>4

\* Everything goes, and is told.
LEMMA EraseInv == ASSUME CacheInv, NEW t \in CacheThreads, Erase(t) PROVE CacheInv'
<1>1. /\ lock = Nobody /\ mapped' = {} /\ lru' = <<>> /\ cacheSize' = 0 /\ Goes(t, Idle)
      /\ untold' = [k \in Keys |-> IF Contains(lru, k) THEN untold[k] - 1 ELSE untold[k]]
      /\ UNCHANGED <<maxSize, lock, used>>
  BY DEF Erase
<1>2. Idle \in CallTypes /\ Idle.op = "idle"
  BY DEF Idle, CallTypes
<1>3. /\ call' \in [CacheThreads -> CallTypes] /\ call'[t] = Idle
      /\ \A u \in CacheThreads : u # t => call'[u] = call[u]
  BY <1>1, <1>2, GoesIs
<1>4. lru' \in Seq(Keys) /\ Len(lru') = 0 /\ DOMAIN lru' = {}
  BY <1>1
<1>5. \A k \in Keys : Contains(lru, k) <=> k \in mapped
  BY CacheElements DEF Contains, Entries
<1>6. untold' \in [Keys -> Int] /\ \A k \in Keys : untold'[k] = 0
  BY <1>1, <1>5 DEF CacheInv, CacheTypes, CacheHonest
<1>7. maxSize \in Nat /\ Len(used) \in Nat
  BY CacheElements DEF CacheInv, CacheTypes
<1>8. CacheTypes'
  BY <1>1, <1>3, <1>4, <1>6, UnitsNone DEF CacheInv, CacheTypes
<1>9. Putting'
  BY <1>1, <1>2, <1>3, CacheAssumption DEF CacheInv, Putting
<1>10. CacheHonest'
  BY <1>1, <1>4, <1>6, <1>7, UnitsNone DEF CacheHonest
<1> QED
  BY <1>8, <1>9, <1>10 DEF CacheInv

\* Whatever threads put, get, resize, trim and erase at once, the cache stays whole.
THEOREM CacheStep == CacheInv /\ [CacheNext]_cache => CacheInv'
<1> SUFFICES ASSUME CacheInv, [CacheNext]_cache PROVE CacheInv'
  OBVIOUS
<1>1. CASE UNCHANGED cache
  BY <1>1 DEF cache, CacheInv, CacheTypes, Putting, CacheHonest, Resizing, Units, NoTwice
<1>2. ASSUME NEW t \in CacheThreads, NEW k \in Keys, PutCache(t, k) \/ GetCache(t, k)
      PROVE  CacheInv'
  BY <1>2, PutCacheInv, GetCacheInv
<1>3. ASSUME NEW t \in CacheThreads, MakeRoom(t) \/ Shrink(t) PROVE CacheInv'
  BY <1>3, RemoveEldestInv DEF MakeRoom, Shrink
<1>4. ASSUME NEW t \in CacheThreads, NEW n \in Limits, Resize(t, n) PROVE CacheInv'
  BY <1>4, ResizeInv
<1>5. ASSUME NEW t \in CacheThreads, NEW p \in Percents, Trim(t, p) PROVE CacheInv'
  BY <1>5, TrimInv
<1>6. ASSUME NEW t \in CacheThreads,
             PutDone(t) \/ TrimReturns(t) \/ TrimGoesOn(t) \/ Enter(t) \/ Shrunk(t) \/ Erase(t)
      PROVE  CacheInv'
  BY <1>6, PutDoneInv, TrimReturnsInv, TrimGoesOnInv, EnterInv, ShrunkInv, EraseInv
<1> QED
  BY <1>1, <1>2, <1>3, <1>4, <1>5, <1>6 DEF CacheNext

\* For any keys, sizes, limits and number of threads: what is cached is what was used
\* last, the map, the list and the size agree, every entry that goes is told once, and
\* the limit holds when no resize is on its way.
THEOREM CacheStaysHonest == CacheSpec => []CacheHonest
<1>1. CacheInv => CacheHonest
  BY DEF CacheInv
<1> QED
  BY <1>1, CacheInitInv, CacheStep, PTL DEF CacheSpec

-----------------------------------------------------------------------------
(* The codec. *)

-----------------------------------------------------------------------------
(* Induction and recursion over the numbers up to a bound. *)

\* A nonempty set of naturals has a least element.
LEMMA LeastOf ==
  ASSUME NEW T, T \subseteq Nat, T # {}
  PROVE  \E n \in T : \A m \in T : n <= m
<1> DEFINE R == {p \in Nat \X Nat : p[1] < p[2]}
<1>1. IsWellFoundedOn(R, Nat)
  BY NatLessThanWellFounded DEF OpToRel
<1> HIDE DEF R
<1>2. PICK x \in T : \A y \in T : ~(<<y, x>> \in R)
  BY <1>1, WFMin
<1>3. \A y \in T : ~(y < x)
  BY <1>2 DEF R
<1> QED
  BY <1>3

\* A set that has 0 and goes on up to n has all numbers up to n.
LEMMA UpTo ==
  ASSUME NEW n \in Nat, NEW P, 0 \in P, \A i \in 1..n : i - 1 \in P => i \in P
  PROVE  \A i \in 0..n : i \in P
<1> DEFINE T == (0..n) \ P
<1> SUFFICES ASSUME T # {} PROVE FALSE
  OBVIOUS
<1>1. T \subseteq Nat
  OBVIOUS
<1> HIDE DEF T
<1>2. PICK x \in T : \A y \in T : x <= y
  BY <1>1, LeastOf
<1>3. x \in 1..n /\ x - 1 \in 0..n /\ x \notin P
  BY DEF T
<1>4. x - 1 \notin T
  BY <1>2, <1>3
<1> QED
  BY <1>3, <1>4 DEF T

\* f[i] is what n rounds of G make of x.
AreRounds(f, n, T, x, G) ==
    f \in [0..n -> T] /\ f[0] = x /\ \A i \in 1..n : f[i] = G[i][f[i - 1]]

LEMMA Rounds ==
  ASSUME NEW n \in Nat, NEW T, NEW x \in T, NEW G \in [1..n -> [T -> T]]
  PROVE  \E f : AreRounds(f, n, T, x, G)
<1> DEFINE P == {m \in 0..n : \E f : AreRounds(f, m, T, x, G)}
<1>1. 0 \in P
  <2> DEFINE z == [i \in 0..0 |-> x]
  <2>1. z \in [0..0 -> T] /\ z[0] = x
    OBVIOUS
  <2> HIDE DEF z
  <2>2. AreRounds(z, 0, T, x, G)
    BY <2>1 DEF AreRounds
  <2> QED
    BY <2>2
<1>2. ASSUME NEW m \in 1..n, m - 1 \in P PROVE m \in P
  <2>1. PICK f : AreRounds(f, m - 1, T, x, G)
    BY <1>2
  <2>2. /\ f \in [0..(m - 1) -> T] /\ f[0] = x
        /\ \A i \in 1..(m - 1) : f[i] = G[i][f[i - 1]]
    BY <2>1 DEF AreRounds
  <2> DEFINE g == [i \in 0..m |-> IF i = m THEN G[m][f[m - 1]] ELSE f[i]]
  <2>3. G[m][f[m - 1]] \in T
    BY <2>2
  <2>4. g \in [0..m -> T]
    BY <2>2, <2>3
  <2>5. g[m] = G[m][f[m - 1]] /\ \A i \in 0..(m - 1) : g[i] = f[i]
    OBVIOUS
  <2> HIDE DEF g
  <2>6. g[0] = x /\ \A i \in 1..m : g[i] = G[i][g[i - 1]]
    BY <2>2, <2>5
  <2>7. AreRounds(g, m, T, x, G)
    BY <2>4, <2>6 DEF AreRounds
  <2> QED
    BY <2>7
<1> HIDE DEF P
<1>3. \A i \in 0..n : i \in P
  BY <1>1, <1>2, UpTo
<1>4. n \in P
  BY <1>3
<1> QED
  BY <1>4 DEF P

\* What two sequences make, one behind the other.
LEMMA Joined ==
  ASSUME NEW C, NEW a \in Seq(C), NEW b \in Seq(C)
  PROVE  /\ a \o b \in Seq(C) /\ Len(a) \in Nat /\ Len(b) \in Nat
         /\ Len(a \o b) = Len(a) + Len(b)
         /\ \A j \in 1..Len(a) : (a \o b)[j] = a[j]
         /\ \A j \in 1..Len(b) : (a \o b)[Len(a) + j] = b[j]
  OBVIOUS

-----------------------------------------------------------------------------
(* Strings. *)

Chars == [char : Runes, escaped : BOOLEAN]
Reading == [out : Seq(Runes), last : Runes \cup {"none"}]

\* What has been read of a string, with the half that waits.
ReadSoFar(r) == r.out \o Waiting(r.last)

LEMMA KindsAreNoHalves == ASSUME NEW c \in Runes PROVE c # "lead" /\ c # "trail" /\ c # "none"
  BY DEF Runes

LEMMA ReadingOf ==
  ASSUME NEW o \in Seq(Runes), NEW l \in Runes \cup {"none"}
  PROVE  [out |-> o, last |-> l] \in Reading
  BY DEF Reading

LEMMA CharIsRead ==
  ASSUME NEW r \in Reading, NEW t \in Chars
  PROVE  ReadChar(r, t) \in Reading /\ ReadSoFar(ReadChar(r, t)) = Append(ReadSoFar(r), t.char)
<1> DEFINE c == t.char
           o == r.out
           l == r.last
           w == Waiting(l)
           s == o \o w
<1>1. /\ o \in Seq(Runes) /\ l \in Runes \cup {"none"}
      /\ c \in Runes /\ t.escaped \in BOOLEAN
  BY DEF Reading, Chars
<1>2. c # "lead" /\ c # "trail" /\ c # "none" /\ l # "lead"
  BY <1>1, KindsAreNoHalves
<1>3. w \in Seq(Runes)
  BY <1>1 DEF Waiting
<1>4. s \in Seq(Runes)
  BY <1>1, <1>3
<1> HIDE DEF s, c
<1>5. s \o <<c>> \in Seq(Runes) /\ s \o <<c>> = Append(s, c)
  BY <1>1, <1>4
<1> USE DEF c
<1>6. ReadSoFar(r) = s
  BY DEF ReadSoFar, s
<1>7. CASE ~t.escaped
  <2>1. ReadChar(r, t) = [out |-> s \o <<c>>, last |-> "none"]
    BY <1>7 DEF ReadChar, ReadRaw, s
  <2>2. ReadSoFar([out |-> s \o <<c>>, last |-> "none"]) = s \o <<c>>
    BY <1>5 DEF ReadSoFar, Waiting
  <2> QED
    BY <1>5, <1>6, <2>1, <2>2, ReadingOf
<1>8. CASE t.escaped /\ c = "astral"
  <2>1. ReadEscape(r, "lead") = [out |-> s, last |-> "lead"]
    BY <1>2 DEF ReadEscape, s
  <2>2. ReadEscape([out |-> s, last |-> "lead"], "trail")
           = [out |-> Append(s, "astral"), last |-> "none"]
    BY DEF ReadEscape
  <2>3. ReadChar(r, t) = [out |-> Append(s, c), last |-> "none"]
    BY <1>8, <2>1, <2>2 DEF ReadChar
  <2>4. ReadSoFar([out |-> Append(s, c), last |-> "none"]) = Append(s, c)
    BY <1>5 DEF ReadSoFar, Waiting
  <2> QED
    BY <1>5, <1>6, <2>3, <2>4, ReadingOf
<1>9. CASE t.escaped /\ c # "astral"
  <2>1. ReadChar(r, t) = [out |-> s, last |-> c]
    BY <1>2, <1>9 DEF ReadChar, ReadEscape, s
  <2>2. ReadSoFar([out |-> s, last |-> c]) = s \o <<c>>
    BY <1>2 DEF ReadSoFar, Waiting
  <2> QED
    BY <1>1, <1>4, <1>5, <1>6, <2>1, <2>2, ReadingOf
<1> QED
  BY <1>1, <1>7, <1>8, <1>9

\* A string is read as it is spelt, escapes or none.
THEOREM StringIsRead ==
  ASSUME NEW chars \in Seq(Chars)
  PROVE  ParseString(chars) = Spelling(chars) /\ Spelling(chars) \in Seq(Runes)
<1> DEFINE n == Len(chars)
           x == [out |-> <<>>, last |-> "none"]
           G == [i \in 1..n |-> [r \in Reading |-> ReadChar(r, chars[i])]]
           Body(f) == [i \in 0..n |-> IF i = 0 THEN x ELSE ReadChar(f[i - 1], chars[i])]
           F == CHOOSE f : f = Body(f)
<1>1. x \in Reading /\ n \in Nat
  BY DEF Reading
<1>2. \A i \in 1..n : chars[i] \in Chars
  OBVIOUS
<1> HIDE DEF x, n
<1>3. G \in [1..n -> [Reading -> Reading]]
  BY <1>2, CharIsRead
<1> HIDE DEF G
<1>4. PICK f : AreRounds(f, n, Reading, x, G)
  BY <1>1, <1>3, Rounds
<1>5. ASSUME NEW i \in 1..n PROVE f[i] = ReadChar(f[i - 1], chars[i])
  <2>1. f[i - 1] \in Reading
    BY <1>1, <1>4 DEF AreRounds
  <2> QED
    BY <1>4, <2>1 DEF AreRounds, G
<1>6. f = Body(f)
  <2>1. \A i \in 0..n : f[i] = IF i = 0 THEN x ELSE ReadChar(f[i - 1], chars[i])
    <3> SUFFICES ASSUME NEW i \in 0..n PROVE f[i] = IF i = 0 THEN x ELSE ReadChar(f[i - 1], chars[i])
      OBVIOUS
    <3>1. CASE i = 0
      BY <1>4, <3>1 DEF AreRounds
    <3>2. CASE i # 0
      <4>1. i \in 1..n
        BY <1>1, <3>2
      <4> QED
        BY <1>5, <3>2, <4>1
    <3> QED
      BY <3>1, <3>2
  <2>2. f \in [0..n -> Reading]
    BY <1>4 DEF AreRounds
  <2> QED
    BY <2>1, <2>2
<1>7. F = Body(F)
  BY <1>6
<1>8. ParseString(chars) = ReadSoFar(F[n])
  BY DEF ParseString, ReadSoFar, x, n
<1> HIDE DEF F
<1>9. F[0] = x /\ \A i \in 1..n : F[i] = ReadChar(F[i - 1], chars[i])
  BY <1>1, <1>7, SMTT(30)
<1> DEFINE Said(i) == /\ F[i] \in Reading
                      /\ ReadSoFar(F[i]) \in Seq(Runes) /\ Len(ReadSoFar(F[i])) = i
                      /\ \A k \in 1..i : ReadSoFar(F[i])[k] = chars[k].char
           P == {i \in 0..n : Said(i)}
<1>10. 0 \in P
  <2>1. ReadSoFar(x) = <<>>
    BY DEF ReadSoFar, x, Waiting
  <2>2. ReadSoFar(F[0]) = <<>> /\ F[0] \in Reading
    BY <1>1, <1>9, <2>1
  <2>3. Said(0)
    BY <2>2
  <2> QED
    BY <1>1, <2>3
<1>11. ASSUME NEW i \in 1..n, i - 1 \in P PROVE i \in P
  <2> DEFINE s == ReadSoFar(F[i - 1])
  <2>1. /\ F[i - 1] \in Reading /\ s \in Seq(Runes) /\ Len(s) = i - 1
        /\ \A k \in 1..(i - 1) : s[k] = chars[k].char
    BY <1>11
  <2> HIDE DEF s
  <2>2. F[i] \in Reading /\ ReadSoFar(F[i]) = Append(s, chars[i].char)
    BY <1>2, <1>9, <2>1, CharIsRead DEF s
  <2>3. chars[i].char \in Runes
    BY <1>2 DEF Chars
  <2>4. Said(i)
    BY <1>1, <2>1, <2>2, <2>3
  <2> QED
    BY <1>1, <2>4
<1> HIDE DEF P
<1>12. n \in P
  <2>1. \A i \in 0..n : i \in P
    BY <1>1, <1>10, <1>11, UpTo
  <2> QED
    BY <1>1, <2>1
<1>13. Said(n)
  BY <1>12 DEF P
<1> HIDE DEF Said
<1> DEFINE S == ReadSoFar(F[n])
<1>14. S \in Seq(Runes) /\ Len(S) = n /\ \A k \in 1..n : S[k] = chars[k].char
  BY <1>13 DEF Said
<1> HIDE DEF S
<1>15. S = [i \in 1..n |-> chars[i].char]
  BY <1>14
<1>16. Spelling(chars) = [i \in 1..n |-> chars[i].char]
  BY DEF Spelling, n
<1> QED
  BY <1>8, <1>14, <1>15, <1>16 DEF S

-----------------------------------------------------------------------------
(* Tokens. *)

Puncts == {"bracket", "endbracket", "brace", "endbrace", "comma", "colon"}
Words == {"null", "true", "false", "comment"}

AllTokens ==
    {Punct(p) : p \in Puncts} \cup {Word(w) : w \in Words} \cup {Num(h) : h \in Int}
        \cup {Str(c) : c \in Seq(Chars)}

OfTokens == text \in Seq(AllTokens)

\* Tokens of two sorts are never the same.
LEMMA SortsOfTokens ==
  ASSUME NEW p, NEW w, NEW h, NEW c
  PROVE  /\ Punct(p) # Word(w) /\ Punct(p) # Num(h) /\ Punct(p) # Str(c)
         /\ Word(w) # Num(h) /\ Word(w) # Str(c) /\ Num(h) # Str(c)
         /\ "str" \notin DOMAIN Punct(p) /\ "num" \notin DOMAIN Punct(p)
         /\ "str" \notin DOMAIN Word(w) /\ "num" \notin DOMAIN Word(w)
         /\ "str" \notin DOMAIN Num(h) /\ "num" \in DOMAIN Num(h)
         /\ "str" \in DOMAIN Str(c) /\ "num" \notin DOMAIN Str(c)
         /\ Punct(p).punct = p /\ Word(w).word = w /\ Num(h).num = h /\ Str(c).str = c
<1>1. DOMAIN Punct(p) = {"punct"} /\ DOMAIN Word(w) = {"word"}
      /\ DOMAIN Num(h) = {"num"} /\ DOMAIN Str(c) = {"str"}
  BY DEF Punct, Word, Num, Str
<1>2. Punct(p).punct = p /\ Word(w).word = w /\ Num(h).num = h /\ Str(c).str = c
  BY DEF Punct, Word, Num, Str
<1> QED
  BY <1>1, <1>2

LEMMA SamePunct ==
  ASSUME NEW p, NEW q, Punct(p) = Punct(q) PROVE p = q
<1>1. Punct(p).punct = p /\ Punct(q).punct = q
  BY DEF Punct
<1> QED
  BY <1>1

LEMMA SameWord ==
  ASSUME NEW p, NEW q, Word(p) = Word(q) PROVE p = q
<1>1. Word(p).word = p /\ Word(q).word = q
  BY DEF Word
<1> QED
  BY <1>1

\* What a token is, once it is known to be one.
LEMMA TokenIs ==
  ASSUME NEW t \in AllTokens
  PROVE  \/ \E p \in Puncts : t = Punct(p)
         \/ \E w \in Words : t = Word(w)
         \/ \E h \in Int : t = Num(h)
         \/ \E c \in Seq(Chars) : t = Str(c)
  BY DEF AllTokens

LEMMA StringToken ==
  ASSUME NEW t \in AllTokens, "str" \in DOMAIN t
  PROVE  /\ t.str \in Seq(Chars) /\ t = Str(t.str)
         /\ t # Word("comment") /\ \A p : t # Punct(p)
         /\ ParseString(t.str) = Spelling(t.str) /\ Spelling(t.str) \in Seq(Runes)
<1>1. PICK c \in Seq(Chars) : t = Str(c)
  BY TokenIs, SortsOfTokens
<1>2. t.str = c
  BY <1>1, SortsOfTokens
<1> QED
  BY <1>1, <1>2, SortsOfTokens, StringIsRead

LEMMA ScalarOf ==
  ASSUME NEW p, NEW w, NEW h, NEW c
  PROVE  /\ Scalar(Punct(p)) = {}
         /\ Scalar(Num(h)) = {Leaf(ParseNumber(h))}
         /\ Scalar(Str(c)) = {Leaf(String(ParseString(c)))}
         /\ Scalar(Word("null")) = {Leaf(Nul)}
         /\ Scalar(Word("true")) = {Leaf(Bool(TRUE))}
         /\ Scalar(Word("false")) = {Leaf(Bool(FALSE))}
         /\ Scalar(Word("comment")) = {}
<1>1. Scalar(Punct(p)) = {}
  BY SortsOfTokens DEF Scalar
<1>2. Scalar(Num(h)) = {Leaf(ParseNumber(h))}
  BY SortsOfTokens DEF Scalar
<1>3. Scalar(Str(c)) = {Leaf(String(ParseString(c)))}
  BY SortsOfTokens DEF Scalar
<1>4. Word("true") # Word("null") /\ Word("false") # Word("null") /\ Word("false") # Word("true")
      /\ Word("comment") # Word("null") /\ Word("comment") # Word("true")
      /\ Word("comment") # Word("false")
  BY SameWord
<1>5. Scalar(Word("null")) = {Leaf(Nul)}
  BY SortsOfTokens DEF Scalar
<1>6. Scalar(Word("true")) = {Leaf(Bool(TRUE))}
  BY <1>4, SortsOfTokens DEF Scalar
<1>7. Scalar(Word("false")) = {Leaf(Bool(FALSE))}
  BY <1>4, SortsOfTokens DEF Scalar
<1>8. Scalar(Word("comment")) = {}
  BY <1>4, SortsOfTokens DEF Scalar
<1> QED
  BY <1>1, <1>2, <1>3, <1>5, <1>6, <1>7, <1>8

\* A single token means what the parser takes it for, and no more than one value.
LEMMA ScalarIsMeant ==
  ASSUME NEW t \in AllTokens
  PROVE  /\ Meant(t) = Scalar(t)
         /\ Scalar(t) # {} => \E v : Scalar(t) = {v}
         /\ (\E p \in Puncts : t = Punct(p)) => Scalar(t) = {}
         /\ t = Word("comment") => Scalar(t) = {}
<1>1. CASE \E p \in Puncts : t = Punct(p)
  BY <1>1, ScalarOf, SortsOfTokens DEF Meant
<1>2. CASE \E w \in Words : t = Word(w)
  <2>1. Meant(t) = Scalar(t)
    BY <1>2, SortsOfTokens DEF Meant
  <2>2. Scalar(t) # {} => \E v : Scalar(t) = {v}
    BY <1>2, ScalarOf DEF Words
  <2> QED
    BY <2>1, <2>2, ScalarOf
<1>3. CASE \E h \in Int : t = Num(h)
  <2>1. PICK h \in Int : t = Num(h)
    BY <1>3
  <2>2. Scalar(t) = {Leaf(ParseNumber(h))}
    BY <2>1, ScalarOf
  <2>3. Meant(t) = Scalar(t)
    BY <2>1, SortsOfTokens DEF Meant
  <2> QED
    BY <2>1, <2>2, <2>3, SortsOfTokens
<1>4. CASE \E c \in Seq(Chars) : t = Str(c)
  <2>1. PICK c \in Seq(Chars) : t = Str(c)
    BY <1>4
  <2>2. Scalar(t) = {Leaf(String(ParseString(c)))}
    BY <2>1, ScalarOf
  <2>3. Meant(t) = {Leaf(String(Spelling(c)))}
    BY <2>1, SortsOfTokens DEF Meant
  <2>4. ParseString(c) = Spelling(c)
    BY StringIsRead
  <2> QED
    BY <2>1, <2>2, <2>3, <2>4, SortsOfTokens
<1> QED
  BY <1>1, <1>2, <1>3, <1>4, TokenIs

-----------------------------------------------------------------------------
(* Comments are skipped. *)

Size == Len(text)

\* j is the first token from i that is no comment, or where the text ends.
IsNext(i, j) ==
    /\ j \in i..(Size + 1) /\ Blank(i, j - 1)
    /\ j <= Size => ~Garbage(j)

LEMMA SizeIs == ASSUME OfTokens PROVE Size \in Nat /\ \A i \in 1..Size : text[i] \in AllTokens
  BY DEF OfTokens, Size

LEMMA SkipIs ==
  ASSUME OfTokens, NEW i \in 1..(Size + 1)
  PROVE  IsNext(i, Skip(i))
<1> DEFINE T == {j \in i..(Size + 1) : j <= Size => ~Garbage(j)}
<1>1. Size \in Nat
  BY SizeIs
<1>2. T \subseteq Nat /\ T # {}
  <2>1. Size + 1 \in T
    BY <1>1
  <2> QED
    BY <1>1, <2>1
<1> HIDE DEF T
<1>3. PICK j \in T : \A k \in T : j <= k
  BY <1>2, LeastOf
<1>4. j \in i..(Size + 1) /\ (j <= Size => ~Garbage(j))
  BY <1>3 DEF T
<1>5. ASSUME NEW k \in i..(j - 1) PROVE Garbage(k)
  <2>1. k \in i..(Size + 1) /\ k <= Size /\ ~(j <= k)
    BY <1>1, <1>4
  <2> QED
    BY <1>3, <2>1 DEF T
<1> DEFINE Good(x) == (x <= Size => ~Garbage(x)) /\ \A k \in i..(x - 1) : Garbage(k)
<1>6. \E x \in i..(Size + 1) : Good(x)
  BY <1>4, <1>5
<1>7. Skip(i) = CHOOSE x \in i..(Size + 1) : Good(x)
  BY DEF Skip, Size
<1> HIDE DEF Good
<1>8. Skip(i) \in i..(Size + 1) /\ Good(Skip(i))
  BY <1>6, <1>7
<1> QED
  BY <1>8 DEF Good, IsNext, Blank

LEMMA OneNext ==
  ASSUME OfTokens, NEW i \in 1..(Size + 1), NEW j, IsNext(i, j), NEW k, IsNext(i, k)
  PROVE  j = k
<1>1. Size \in Nat /\ j \in i..(Size + 1) /\ k \in i..(Size + 1)
  BY SizeIs DEF IsNext
<1>2. ~(j < k)
  <2> SUFFICES ASSUME j < k PROVE FALSE
    OBVIOUS
  <2>1. j \in i..(k - 1) /\ j <= Size
    BY <1>1
  <2> QED
    BY <2>1 DEF IsNext, Blank
<1>3. ~(k < j)
  <2> SUFFICES ASSUME k < j PROVE FALSE
    OBVIOUS
  <2>1. k \in i..(j - 1) /\ k <= Size
    BY <1>1
  <2> QED
    BY <2>1 DEF IsNext, Blank
<1> QED
  BY <1>1, <1>2, <1>3

LEMMA NextIs ==
  ASSUME OfTokens, NEW i \in 1..(Size + 1), NEW j, IsNext(i, j) PROVE j = Skip(i)
  BY SkipIs, OneNext

\* Nothing but comments up to j: then j stands before what is next.
LEMMA BlankIsBefore ==
  ASSUME OfTokens, NEW i \in 1..(Size + 1), NEW j \in 0..Size
  PROVE  Blank(i, j) <=> j < Skip(i)
<1> DEFINE s == Skip(i)
<1>1. /\ Size \in Nat /\ s \in i..(Size + 1) /\ (s <= Size => ~Garbage(s))
      /\ \A k \in i..(s - 1) : Garbage(k)
  BY SkipIs, SizeIs DEF IsNext, Blank
<1> HIDE DEF s
<1>2. j < s => Blank(i, j)
  <2> SUFFICES ASSUME j < s, NEW k \in i..j PROVE Garbage(k)
    BY DEF Blank
  <2>1. k \in i..(s - 1)
    BY <1>1
  <2> QED
    BY <1>1, <2>1
<1>3. Blank(i, j) /\ ~(j < s) => FALSE
  <2> SUFFICES ASSUME Blank(i, j), ~(j < s) PROVE FALSE
    OBVIOUS
  <2>1. s \in i..j /\ s <= Size
    BY <1>1
  <2> QED
    BY <1>1, <2>1 DEF Blank
<1> QED
  BY <1>2, <1>3 DEF s

LEMMA AtIs ==
  ASSUME OfTokens, NEW i \in 1..(Size + 1), NEW p \in Puncts, At(i, p)
  PROVE  i \in 1..Size /\ text[i] = Punct(p) /\ ~Garbage(i) /\ \A q : At(i, q) => q = p
  BY SizeIs, SortsOfTokens, SamePunct DEF At, Size, Garbage

-----------------------------------------------------------------------------
(* What a call yields. *)

LEMMA GotIs ==
  ASSUME NEW v, NEW n
  PROVE  Got(v, n).value = v /\ Got(v, n).next = n
  BY DEF Got

LEMMA GotOk == ASSUME NEW v, NEW n PROVE Got(v, n).ok
  BY DEF Got

LEMMA FailedNot == ~Failed.ok
  BY DEF Failed

LEMMA GotNotFailed == ASSUME NEW v, NEW n PROVE Got(v, n) # Failed
  BY GotOk, FailedNot

LEMMA GotParts ==
  ASSUME NEW t, NEW v, NEW n, t = Got(v, n)
  PROVE  t.ok /\ t.next = n /\ t.value = v
  BY DEF Got

LEMMA GotSame ==
  ASSUME NEW v, NEW n, NEW w, NEW m, Got(v, n) = Got(w, m)
  PROVE  v = w /\ n = m
<1>1. Got(v, n).value = v /\ Got(w, m).value = w /\ Got(v, n).next = n /\ Got(w, m).next = m
  BY GotIs
<1> QED
  BY <1>1

\* Nothing has been read, or something, and for a list up to its bracket.
Closes(kind, n) ==
    /\ kind = "items" => text[n - 1] = Punct("endbracket")
    /\ kind = "members" => text[n - 1] = Punct("endbrace")

IsResult(r, kind, i) ==
    r = Failed \/ \E v, n : r = Got(v, n) /\ n \in (i + 1)..(Size + 1) /\ Closes(kind, n)

\* The items from i.
LEMMA ItemsFail ==
  ASSUME NEW f, NEW i, NEW d, f[<<"value", i, d + 1>>] = Failed
  PROVE  ParseItems(f, i, d) = Failed
<1>1. ~f[<<"value", i, d + 1>>].ok
  BY FailedNot
<1> QED
  BY <1>1 DEF ParseItems

LEMMA ItemsEnd ==
  ASSUME NEW f, NEW i, NEW d, NEW v, NEW n, f[<<"value", i, d + 1>>] = Got(v, n),
         At(Skip(n), "endbracket")
  PROVE  ParseItems(f, i, d) = Got(<<v>>, Skip(n) + 1)
<1> DEFINE t == f[<<"value", i, d + 1>>]
<1>1. t.ok /\ t.next = n /\ t.value = v
  BY GotParts
<1> QED
  BY <1>1 DEF ParseItems

LEMMA ItemsGoOn ==
  ASSUME NEW f, NEW i, NEW d, NEW v, NEW n, f[<<"value", i, d + 1>>] = Got(v, n),
         ~At(Skip(n), "endbracket"), At(Skip(n), "comma")
  PROVE  /\ f[<<"items", Skip(n) + 1, d>>] = Failed => ParseItems(f, i, d) = Failed
         /\ \A l, m : f[<<"items", Skip(n) + 1, d>>] = Got(l, m) =>
                        ParseItems(f, i, d) = Got(<<v>> \o l, m)
<1> DEFINE t == f[<<"value", i, d + 1>>]
           r == f[<<"items", Skip(n) + 1, d>>]
<1>1. t.ok /\ t.next = n /\ t.value = v
  BY GotParts
<1>2. ParseItems(f, i, d) = IF r.ok THEN Got(<<v>> \o r.value, r.next) ELSE Failed
  BY <1>1 DEF ParseItems
<1> HIDE DEF r, t
<1>3. r = Failed => ParseItems(f, i, d) = Failed
  BY <1>2, FailedNot
<1>4. ASSUME NEW l, NEW m, r = Got(l, m) PROVE ParseItems(f, i, d) = Got(<<v>> \o l, m)
  <2>1. r.ok /\ r.next = m /\ r.value = l
    BY <1>4, GotParts
  <2> QED
    BY <1>2, <2>1
<1> QED
  BY <1>3, <1>4 DEF r

LEMMA ItemsStop ==
  ASSUME NEW f, NEW i, NEW d, NEW v, NEW n, f[<<"value", i, d + 1>>] = Got(v, n),
         ~At(Skip(n), "endbracket"), ~At(Skip(n), "comma")
  PROVE  ParseItems(f, i, d) = Failed
<1> DEFINE t == f[<<"value", i, d + 1>>]
<1>1. t.ok /\ t.next = n /\ t.value = v
  BY GotParts
<1> QED
  BY <1>1 DEF ParseItems

\* The members from i: the key, the colon and the value.
KeyAt(i) ==
    /\ Skip(i) <= Size /\ "str" \in DOMAIN text[Skip(i)]
    /\ At(Skip(Skip(i) + 1), "colon")

ValueAt(i) == Skip(Skip(i) + 1) + 1
KeyOf(i) == ParseString(text[Skip(i)].str)

LEMMA MembersForm ==
  ASSUME NEW f, NEW i, NEW d, Skip(i) \in Nat, Size \in Nat
  PROVE  LET t == f[<<"value", ValueAt(i), d + 1>>]
             r == f[<<"members", Skip(t.next) + 1, d>>]
         IN ParseMembers(f, i, d) =
              IF ~KeyAt(i) \/ ~t.ok THEN Failed
              ELSE IF At(Skip(t.next), "endbrace") THEN Got(Sole(KeyOf(i), t.value), Skip(t.next) + 1)
              ELSE IF At(Skip(t.next), "comma") /\ r.ok
                THEN Got(WithFirst(KeyOf(i), t.value, r.value), r.next)
              ELSE Failed
<1>1. Skip(i) > Len(text) <=> ~(Skip(i) <= Size)
  BY DEF Size
<1>2. (Skip(i) > Len(text) \/ "str" \notin DOMAIN text[Skip(i)]
          \/ ~At(Skip(Skip(i) + 1), "colon")) <=> ~KeyAt(i)
  BY <1>1 DEF KeyAt
<1> QED
  BY <1>2 DEF ParseMembers, ValueAt, KeyOf

LEMMA MembersFail ==
  ASSUME NEW f, NEW i, NEW d, ~KeyAt(i) \/ f[<<"value", ValueAt(i), d + 1>>] = Failed,
         Skip(i) \in Nat, Size \in Nat
  PROVE  ParseMembers(f, i, d) = Failed
<1>1. ~KeyAt(i) \/ ~f[<<"value", ValueAt(i), d + 1>>].ok
  BY FailedNot
<1> QED
  BY <1>1, MembersForm

LEMMA MembersEnd ==
  ASSUME NEW f, NEW i, NEW d, NEW v, NEW n, f[<<"value", ValueAt(i), d + 1>>] = Got(v, n),
         KeyAt(i), At(Skip(n), "endbrace"), Skip(i) \in Nat, Size \in Nat
  PROVE  ParseMembers(f, i, d) = Got(Sole(KeyOf(i), v), Skip(n) + 1)
<1> DEFINE t == f[<<"value", ValueAt(i), d + 1>>]
<1>1. t.ok /\ t.next = n /\ t.value = v
  BY GotParts
<1> QED
  BY <1>1, MembersForm

LEMMA MembersGoOn ==
  ASSUME NEW f, NEW i, NEW d, NEW v, NEW n, f[<<"value", ValueAt(i), d + 1>>] = Got(v, n),
         KeyAt(i), ~At(Skip(n), "endbrace"), At(Skip(n), "comma"), Skip(i) \in Nat, Size \in Nat
  PROVE  /\ f[<<"members", Skip(n) + 1, d>>] = Failed => ParseMembers(f, i, d) = Failed
         /\ \A l, m : f[<<"members", Skip(n) + 1, d>>] = Got(l, m) =>
                        ParseMembers(f, i, d) = Got(WithFirst(KeyOf(i), v, l), m)
<1> DEFINE t == f[<<"value", ValueAt(i), d + 1>>]
           r == f[<<"members", Skip(n) + 1, d>>]
<1>1. t.ok /\ t.next = n /\ t.value = v
  BY GotParts
<1>2. ParseMembers(f, i, d) = IF r.ok THEN Got(WithFirst(KeyOf(i), v, r.value), r.next) ELSE Failed
  BY <1>1, MembersForm
<1> HIDE DEF r, t
<1>3. r = Failed => ParseMembers(f, i, d) = Failed
  BY <1>2, FailedNot
<1>4. ASSUME NEW l, NEW m, r = Got(l, m) PROVE ParseMembers(f, i, d) = Got(WithFirst(KeyOf(i), v, l), m)
  <2>1. r.ok /\ r.next = m /\ r.value = l
    BY <1>4, GotParts
  <2> QED
    BY <1>2, <2>1
<1> QED
  BY <1>3, <1>4 DEF r

LEMMA MembersStop ==
  ASSUME NEW f, NEW i, NEW d, NEW v, NEW n, f[<<"value", ValueAt(i), d + 1>>] = Got(v, n),
         ~At(Skip(n), "endbrace"), ~At(Skip(n), "comma"), Skip(i) \in Nat, Size \in Nat
  PROVE  ParseMembers(f, i, d) = Failed
<1> DEFINE t == f[<<"value", ValueAt(i), d + 1>>]
<1>1. t.ok /\ t.next = n /\ t.value = v
  BY GotParts
<1>2. CASE KeyAt(i)
  BY <1>1, <1>2, MembersForm, ZenonT(30)
<1> QED
  BY <1>2, MembersFail

\* A value: what is next at i is s.
ArrayOf(l) == Built(Array(Len(l)), Items(l))
ObjectOf(l) == Built(Object(DOMAIN l), Fields(l))

LEMMA NoValue ==
  ASSUME NEW f, NEW i, NEW d, Skip(i) \in Nat, Size \in Nat, TooDeep(d) \/ Skip(i) > Size
  PROVE  ParseJson(f, i, d) = Failed
  BY DEF ParseJson, Size

LEMMA ArrayValue ==
  ASSUME NEW f, NEW i, NEW d, Skip(i) \in Nat, Size \in Nat, ~TooDeep(d), At(Skip(i), "bracket")
  PROVE  LET k == Skip(i) + 1
             r == f[<<"items", k, d>>]
         IN /\ At(Skip(k), "endbracket") => ParseJson(f, i, d) = Got(Leaf(Array(0)), Skip(k) + 1)
            /\ ~At(Skip(k), "endbracket") =>
                 /\ r = Failed => ParseJson(f, i, d) = Failed
                 /\ \A l, m : r = Got(l, m) => ParseJson(f, i, d) = Got(ArrayOf(l), m)
<1> DEFINE k == Skip(i) + 1
           r == f[<<"items", k, d>>]
<1>1. ~(Skip(i) > Len(text))
  <2>1. Skip(i) <= Size
    BY DEF At, Size
  <2> QED
    BY <2>1 DEF Size
<1>2. ParseJson(f, i, d) =
        IF At(Skip(k), "endbracket") THEN Got(Leaf(Array(0)), Skip(k) + 1)
        ELSE IF r.ok THEN Got(ArrayOf(r.value), r.next)
        ELSE Failed
  BY <1>1 DEF ParseJson, ArrayOf
<1> HIDE DEF r, k
<1>3. ASSUME ~At(Skip(k), "endbracket"), r = Failed PROVE ParseJson(f, i, d) = Failed
  BY <1>2, <1>3, FailedNot
<1>4. ASSUME ~At(Skip(k), "endbracket"), NEW l, NEW m, r = Got(l, m)
      PROVE  ParseJson(f, i, d) = Got(ArrayOf(l), m)
  <2>1. r.ok /\ r.next = m /\ r.value = l
    BY <1>4, GotParts
  <2> QED
    BY <1>2, <1>4, <2>1
<1> QED
  BY <1>2, <1>3, <1>4 DEF r, k

LEMMA ObjectValue ==
  ASSUME NEW f, NEW i, NEW d, Skip(i) \in Nat, Size \in Nat, ~TooDeep(d), At(Skip(i), "brace")
  PROVE  LET k == Skip(i) + 1
             r == f[<<"members", k, d>>]
         IN /\ At(Skip(k), "endbrace") => ParseJson(f, i, d) = Got(Leaf(Object({})), Skip(k) + 1)
            /\ ~At(Skip(k), "endbrace") =>
                 /\ r = Failed => ParseJson(f, i, d) = Failed
                 /\ \A l, m : r = Got(l, m) => ParseJson(f, i, d) = Got(ObjectOf(l), m)
<1> DEFINE k == Skip(i) + 1
           r == f[<<"members", k, d>>]
<1>1. ~(Skip(i) > Len(text))
  <2>1. Skip(i) <= Size
    BY DEF At, Size
  <2> QED
    BY <2>1 DEF Size
<1>2. ~At(Skip(i), "bracket")
  BY SamePunct DEF At
<1>3. ParseJson(f, i, d) =
        IF At(Skip(k), "endbrace") THEN Got(Leaf(Object({})), Skip(k) + 1)
        ELSE IF r.ok THEN Got(ObjectOf(r.value), r.next)
        ELSE Failed
  BY <1>1, <1>2 DEF ParseJson, ObjectOf
<1> HIDE DEF r, k
<1>4. ASSUME ~At(Skip(k), "endbrace"), r = Failed PROVE ParseJson(f, i, d) = Failed
  BY <1>3, <1>4, FailedNot
<1>5. ASSUME ~At(Skip(k), "endbrace"), NEW l, NEW m, r = Got(l, m)
      PROVE  ParseJson(f, i, d) = Got(ObjectOf(l), m)
  <2>1. r.ok /\ r.next = m /\ r.value = l
    BY <1>5, GotParts
  <2> QED
    BY <1>3, <1>5, <2>1
<1> QED
  BY <1>3, <1>4, <1>5 DEF r, k

LEMMA ScalarValue ==
  ASSUME NEW f, NEW i, NEW d, Skip(i) \in Nat, Size \in Nat, ~TooDeep(d), Skip(i) <= Size,
         ~At(Skip(i), "bracket"), ~At(Skip(i), "brace")
  PROVE  /\ Scalar(text[Skip(i)]) = {} => ParseJson(f, i, d) = Failed
         /\ \A v : Scalar(text[Skip(i)]) = {v} => ParseJson(f, i, d) = Got(v, Skip(i) + 1)
<1> DEFINE s == Skip(i)
<1>1. ~(s > Len(text))
  <2>1. s \in Nat /\ s <= Size
    OBVIOUS
  <2> HIDE DEF s
  <2> QED
    BY <2>1 DEF Size
<1>2. ParseJson(f, i, d) =
        IF Scalar(text[Skip(i)]) = {} THEN Failed
        ELSE Got(CHOOSE v \in Scalar(text[Skip(i)]) : TRUE, Skip(i) + 1)
  BY <1>1 DEF ParseJson
<1>3. \A v : {v} # {} /\ (CHOOSE w \in {v} : TRUE) = v
  OBVIOUS
<1> QED
  BY <1>2, <1>3

-----------------------------------------------------------------------------
(* The calls of the parser: each needs only what begins later, or at the    *)
(* same place if it is a value in a list.                                   *)

Alike(f, g, kind, i, d) ==
    f[<<kind, i, d>>] = g[<<kind, i, d>>] /\ IsResult(f[<<kind, i, d>>], kind, i)

\* Later ones of a kind.
AlikeFrom(f, g, kind, i, d) == \A k \in i..(Size + 1) : Alike(f, g, kind, k, d)

BothFailed(f, g, x) == f[x] = Failed /\ g[x] = Failed
BothGot(f, g, x, v, n) == f[x] = Got(v, n) /\ g[x] = Got(v, n)

BothRead(f, g, kind, i, d) ==
    \E v, n : BothGot(f, g, <<kind, i, d>>, v, n) /\ n \in (i + 1)..(Size + 1) /\ Closes(kind, n)

LEMMA AlikeIs ==
  ASSUME NEW f, NEW g, NEW kind, NEW i, NEW d, Alike(f, g, kind, i, d)
  PROVE  BothFailed(f, g, <<kind, i, d>>) \/ BothRead(f, g, kind, i, d)
<1> DEFINE F == f[<<kind, i, d>>]
           G == g[<<kind, i, d>>]
<1>1. F = G /\ IsResult(F, kind, i)
  BY DEF Alike
<1> HIDE DEF F, G
<1>2. \/ F = Failed /\ G = Failed
      \/ \E v, n : F = Got(v, n) /\ G = Got(v, n) /\ n \in (i + 1)..(Size + 1) /\ Closes(kind, n)
  BY <1>1 DEF IsResult
<1> QED
  BY <1>2 DEF F, G, BothFailed, BothGot, BothRead

LEMMA ItemsEndBoth ==
  ASSUME NEW f, NEW g, NEW i, NEW d, NEW v, NEW n, BothGot(f, g, <<"value", i, d + 1>>, v, n),
         At(Skip(n), "endbracket")
  PROVE  /\ ParseItems(f, i, d) = Got(<<v>>, Skip(n) + 1)
         /\ ParseItems(g, i, d) = Got(<<v>>, Skip(n) + 1)
  BY ItemsEnd DEF BothGot

LEMMA ItemsGoOnBoth ==
  ASSUME NEW f, NEW g, NEW i, NEW d, NEW v, NEW n, BothGot(f, g, <<"value", i, d + 1>>, v, n),
         ~At(Skip(n), "endbracket"), At(Skip(n), "comma"),
         NEW l, NEW m, BothGot(f, g, <<"items", Skip(n) + 1, d>>, l, m)
  PROVE  ParseItems(f, i, d) = Got(<<v>> \o l, m) /\ ParseItems(g, i, d) = Got(<<v>> \o l, m)
  BY ItemsGoOn DEF BothGot

LEMMA ItemsFailBoth ==
  ASSUME NEW f, NEW g, NEW i, NEW d, NEW v, NEW n, BothGot(f, g, <<"value", i, d + 1>>, v, n),
         ~At(Skip(n), "endbracket"),
         At(Skip(n), "comma") => BothFailed(f, g, <<"items", Skip(n) + 1, d>>)
  PROVE  ParseItems(f, i, d) = Failed /\ ParseItems(g, i, d) = Failed
<1>1. CASE At(Skip(n), "comma")
  BY <1>1, ItemsGoOn DEF BothGot, BothFailed
<1>2. CASE ~At(Skip(n), "comma")
  BY <1>2, ItemsStop DEF BothGot
<1> QED
  BY <1>1, <1>2

MemberRead(f, g, i, d, v, n) ==
    /\ BothGot(f, g, <<"value", ValueAt(i), d + 1>>, v, n)
    /\ KeyAt(i) /\ Skip(i) \in Nat /\ Size \in Nat

LEMMA MembersEndBoth ==
  ASSUME NEW f, NEW g, NEW i, NEW d, NEW v, NEW n,
         MemberRead(f, g, i, d, v, n), At(Skip(n), "endbrace")
  PROVE  /\ ParseMembers(f, i, d) = Got(Sole(KeyOf(i), v), Skip(n) + 1)
         /\ ParseMembers(g, i, d) = Got(Sole(KeyOf(i), v), Skip(n) + 1)
  BY MembersEnd DEF BothGot, MemberRead

LEMMA MembersGoOnBoth ==
  ASSUME NEW f, NEW g, NEW i, NEW d, NEW v, NEW n,
         MemberRead(f, g, i, d, v, n),
         ~At(Skip(n), "endbrace"), At(Skip(n), "comma"),
         NEW l, NEW m, BothGot(f, g, <<"members", Skip(n) + 1, d>>, l, m)
  PROVE  /\ ParseMembers(f, i, d) = Got(WithFirst(KeyOf(i), v, l), m)
         /\ ParseMembers(g, i, d) = Got(WithFirst(KeyOf(i), v, l), m)
  BY MembersGoOn DEF BothGot, MemberRead

LEMMA MembersFailBoth ==
  ASSUME NEW f, NEW g, NEW i, NEW d, NEW v, NEW n,
         MemberRead(f, g, i, d, v, n),
         ~At(Skip(n), "endbrace"),
         At(Skip(n), "comma") => BothFailed(f, g, <<"members", Skip(n) + 1, d>>)
  PROVE  ParseMembers(f, i, d) = Failed /\ ParseMembers(g, i, d) = Failed
<1>1. CASE At(Skip(n), "comma")
  BY <1>1, MembersGoOn DEF BothGot, BothFailed, MemberRead
<1>2. CASE ~At(Skip(n), "comma")
  BY <1>2, MembersStop DEF BothGot, MemberRead
<1> QED
  BY <1>1, <1>2

LEMMA ResultIs ==
  ASSUME NEW kind, NEW i, NEW v, NEW n, n \in (i + 1)..(Size + 1), Closes(kind, n)
  PROVE  IsResult(Got(v, n), kind, i) /\ IsResult(Failed, kind, i)
  BY DEF IsResult

LEMMA FailedIsResult == ASSUME NEW kind, NEW i PROVE IsResult(Failed, kind, i)
  BY DEF IsResult

\* Any end is fine for a value; a list ends behind its bracket.
LEMMA ClosesWith ==
  ASSUME NEW n
  PROVE  /\ Closes("value", n)
         /\ text[n - 1] = Punct("endbracket") => Closes("items", n)
         /\ text[n - 1] = Punct("endbrace") => Closes("members", n)
  BY DEF Closes

LEMMA SkipRange ==
  ASSUME OfTokens, NEW i \in 1..(Size + 1)
  PROVE  Skip(i) \in i..(Size + 1) /\ Skip(i) \in Nat /\ Size \in Nat
  BY SkipIs, SizeIs DEF IsNext

LEMMA AtRange ==
  ASSUME OfTokens, NEW i \in 1..(Size + 1), NEW p, At(i, p)
  PROVE  i \in 1..Size /\ text[i] = Punct(p)
  BY SizeIs DEF At, Size

LEMMA ItemsAlike ==
  ASSUME OfTokens, NEW i \in 1..(Size + 1), NEW d \in Nat, NEW f, NEW g,
         Alike(f, g, "value", i, d + 1), AlikeFrom(f, g, "items", i + 1, d)
  PROVE  ParseItems(f, i, d) = ParseItems(g, i, d) /\ IsResult(ParseItems(f, i, d), "items", i)
<1>1. CASE BothFailed(f, g, <<"value", i, d + 1>>)
  BY <1>1, ItemsFail, FailedIsResult DEF BothFailed
<1>2. CASE BothRead(f, g, "value", i, d + 1)
  <2>1. PICK v, n : /\ BothGot(f, g, <<"value", i, d + 1>>, v, n)
                    /\ n \in (i + 1)..(Size + 1)
    BY <1>2 DEF BothRead
  <2> DEFINE s == Skip(n)
  <2>2. n \in 1..(Size + 1) /\ Size \in Nat
    BY <2>1, SizeIs
  <2>3. s \in n..(Size + 1) /\ s \in 1..(Size + 1)
    BY <2>2, SkipRange
  <2>4. CASE At(s, "endbracket")
    <3>1. ParseItems(f, i, d) = Got(<<v>>, s + 1) /\ ParseItems(g, i, d) = Got(<<v>>, s + 1)
      BY <2>1, <2>4, ItemsEndBoth
    <3>2. s \in 1..Size /\ text[s] = Punct("endbracket")
      BY <2>3, <2>4, AtRange
    <3> HIDE DEF s
    <3>3. s + 1 \in (i + 1)..(Size + 1) /\ (s + 1) - 1 = s
      BY <2>1, <2>2, <2>3, <3>2
    <3>4. Closes("items", s + 1)
      BY <3>2, <3>3, ClosesWith
    <3> QED
      BY <3>1, <3>3, <3>4, ResultIs
  <2>5. CASE ~At(s, "endbracket") /\ At(s, "comma")
    <3>1. s \in 1..Size
      BY <2>3, <2>5, AtRange
    <3>2. Alike(f, g, "items", s + 1, d)
      <4> HIDE DEF s
      <4>1. s + 1 \in (i + 1)..(Size + 1)
        BY <2>1, <2>2, <2>3, <3>1
      <4> QED
        BY <4>1 DEF AlikeFrom
    <3>3. CASE BothFailed(f, g, <<"items", s + 1, d>>)
      <4>1. ParseItems(f, i, d) = Failed /\ ParseItems(g, i, d) = Failed
        BY <2>1, <2>5, <3>3, ItemsFailBoth
      <4> QED
        BY <4>1, FailedIsResult
    <3>4. CASE BothRead(f, g, "items", s + 1, d)
      <4>1. PICK l, m : /\ BothGot(f, g, <<"items", s + 1, d>>, l, m)
                        /\ m \in (s + 1 + 1)..(Size + 1) /\ Closes("items", m)
        BY <3>4 DEF BothRead
      <4>2. ParseItems(f, i, d) = Got(<<v>> \o l, m) /\ ParseItems(g, i, d) = Got(<<v>> \o l, m)
        BY <2>1, <2>5, <4>1, ItemsGoOnBoth
      <4> HIDE DEF s
      <4>3. m \in (i + 1)..(Size + 1)
        BY <2>1, <2>2, <2>3, <4>1
      <4> QED
        BY <4>1, <4>2, <4>3, ResultIs
    <3> QED
      BY <3>2, <3>3, <3>4, AlikeIs
  <2>6. CASE ~At(s, "endbracket") /\ ~At(s, "comma")
    <3>1. ParseItems(f, i, d) = Failed /\ ParseItems(g, i, d) = Failed
      BY <2>1, <2>6, ItemsFailBoth
    <3> QED
      BY <3>1, FailedIsResult
  <2> QED
    BY <2>4, <2>5, <2>6
<1> QED
  BY <1>1, <1>2, AlikeIs

\* Where the value of a member begins.
LEMMA ValueAtIs ==
  ASSUME OfTokens, NEW i \in 1..(Size + 1), KeyAt(i)
  PROVE  /\ Skip(i) \in i..Size /\ Skip(Skip(i) + 1) \in (Skip(i) + 1)..Size
         /\ Skip(i) + 1 \in 1..(Size + 1)
         /\ ValueAt(i) \in (i + 1)..(Size + 1)
<1> DEFINE a == Skip(i)
           b == Skip(a + 1)
<1>1. a \in i..(Size + 1) /\ Size \in Nat /\ a <= Size
  BY SkipRange DEF KeyAt
<1>2. a + 1 \in 1..(Size + 1)
  <2> HIDE DEF a
  <2> QED
    BY <1>1
<1>3. b \in (a + 1)..(Size + 1) /\ b \in Nat
  BY <1>2, SkipRange
<1>4. At(b, "colon")
  BY DEF KeyAt
<1>5. b <= Size
  BY <1>4 DEF At, Size
<1>6. ValueAt(i) = b + 1
  BY DEF ValueAt
<1> HIDE DEF a, b
<1>7. a \in i..Size /\ b \in (a + 1)..Size /\ b + 1 \in (i + 1)..(Size + 1)
  BY <1>1, <1>3, <1>5
<1> QED
  BY <1>2, <1>6, <1>7 DEF a, b

LEMMA MembersAlike ==
  ASSUME OfTokens, NEW i \in 1..(Size + 1), NEW d \in Nat, NEW f, NEW g,
         AlikeFrom(f, g, "value", i + 1, d + 1), AlikeFrom(f, g, "members", i + 1, d)
  PROVE  /\ ParseMembers(f, i, d) = ParseMembers(g, i, d)
         /\ IsResult(ParseMembers(f, i, d), "members", i)
<1> DEFINE w == ValueAt(i)
<1>0. Skip(i) \in Nat /\ Size \in Nat
  BY SkipRange
<1>1. CASE ~KeyAt(i)
  <2>1. ParseMembers(f, i, d) = Failed /\ ParseMembers(g, i, d) = Failed
    BY <1>0, <1>1, MembersFail
  <2> QED
    BY <2>1, FailedIsResult
<1>2. ASSUME KeyAt(i), BothFailed(f, g, <<"value", w, d + 1>>)
      PROVE  /\ ParseMembers(f, i, d) = ParseMembers(g, i, d)
             /\ IsResult(ParseMembers(f, i, d), "members", i)
  <2>1. ParseMembers(f, i, d) = Failed /\ ParseMembers(g, i, d) = Failed
    BY <1>0, <1>2, MembersFail DEF BothFailed
  <2> QED
    BY <2>1, FailedIsResult
<1>3. ASSUME KeyAt(i), w \in (i + 1)..(Size + 1), BothRead(f, g, "value", w, d + 1)
      PROVE  /\ ParseMembers(f, i, d) = ParseMembers(g, i, d)
             /\ IsResult(ParseMembers(f, i, d), "members", i)
  <2>1. PICK v, n : /\ BothGot(f, g, <<"value", w, d + 1>>, v, n)
                    /\ n \in (w + 1)..(Size + 1)
    BY <1>3 DEF BothRead
  <2>0. MemberRead(f, g, i, d, v, n)
    BY <1>0, <1>3, <2>1 DEF MemberRead
  <2> DEFINE s == Skip(n)
  <2>2. n \in 1..(Size + 1) /\ n > i /\ Size \in Nat
    <3> HIDE DEF w
    <3> QED
      BY <1>0, <1>3, <2>1
  <2>3. s \in n..(Size + 1) /\ s \in 1..(Size + 1)
    BY <2>2, SkipRange
  <2>4. CASE At(s, "endbrace")
    <3>1. /\ ParseMembers(f, i, d) = Got(Sole(KeyOf(i), v), s + 1)
          /\ ParseMembers(g, i, d) = Got(Sole(KeyOf(i), v), s + 1)
      BY <2>0, <2>4, MembersEndBoth
    <3>2. s \in 1..Size /\ text[s] = Punct("endbrace")
      BY <2>3, <2>4, AtRange
    <3> HIDE DEF s
    <3>3. s + 1 \in (i + 1)..(Size + 1) /\ (s + 1) - 1 = s
      BY <2>2, <2>3, <3>2
    <3>4. Closes("members", s + 1)
      BY <3>2, <3>3, ClosesWith
    <3> QED
      BY <3>1, <3>3, <3>4, ResultIs
  <2>5. CASE ~At(s, "endbrace") /\ At(s, "comma")
    <3>1. s \in 1..Size
      BY <2>3, <2>5, AtRange
    <3>2. Alike(f, g, "members", s + 1, d)
      <4> HIDE DEF s
      <4>1. s + 1 \in (i + 1)..(Size + 1)
        BY <2>2, <2>3, <3>1
      <4> QED
        BY <4>1 DEF AlikeFrom
    <3>3. CASE BothFailed(f, g, <<"members", s + 1, d>>)
      <4>1. ParseMembers(f, i, d) = Failed /\ ParseMembers(g, i, d) = Failed
        BY <2>0, <2>5, <3>3, MembersFailBoth
      <4> QED
        BY <4>1, FailedIsResult
    <3>4. CASE BothRead(f, g, "members", s + 1, d)
      <4>1. PICK l, m : /\ BothGot(f, g, <<"members", s + 1, d>>, l, m)
                        /\ m \in (s + 1 + 1)..(Size + 1) /\ Closes("members", m)
        BY <3>4 DEF BothRead
      <4>2. /\ ParseMembers(f, i, d) = Got(WithFirst(KeyOf(i), v, l), m)
            /\ ParseMembers(g, i, d) = Got(WithFirst(KeyOf(i), v, l), m)
        BY <2>0, <2>5, <4>1, MembersGoOnBoth
      <4> HIDE DEF s
      <4>3. m \in (i + 1)..(Size + 1)
        BY <2>2, <2>3, <4>1
      <4> QED
        BY <4>1, <4>2, <4>3, ResultIs
    <3> QED
      BY <3>2, <3>3, <3>4, AlikeIs
  <2>6. CASE ~At(s, "endbrace") /\ ~At(s, "comma")
    <3>1. ParseMembers(f, i, d) = Failed /\ ParseMembers(g, i, d) = Failed
      BY <2>0, <2>6, MembersFailBoth
    <3> QED
      BY <3>1, FailedIsResult
  <2> QED
    BY <2>4, <2>5, <2>6
<1>4. CASE KeyAt(i)
  <2>1. w \in (i + 1)..(Size + 1)
    BY <1>4, ValueAtIs
  <2>2. Alike(f, g, "value", w, d + 1)
    BY <2>1 DEF AlikeFrom
  <2>3. BothFailed(f, g, <<"value", w, d + 1>>) \/ BothRead(f, g, "value", w, d + 1)
    BY <2>2, AlikeIs
  <2> QED
    BY <1>2, <1>3, <1>4, <2>1, <2>3
<1> QED
  BY <1>1, <1>4

LEMMA ValueEnds ==
  ASSUME OfTokens, NEW i \in 1..(Size + 1), NEW n \in i..Size, NEW v
  PROVE  IsResult(Got(v, n + 1), "value", i)
<1>1. Size \in Nat
  BY SizeIs
<1>2. n + 1 \in (i + 1)..(Size + 1)
  BY <1>1
<1> QED
  BY <1>2, ResultIs, ClosesWith

LEMMA ArrayEmpty ==
  ASSUME NEW f, NEW i, NEW d, Skip(i) \in Nat, Size \in Nat, ~TooDeep(d), At(Skip(i), "bracket"),
         At(Skip(Skip(i) + 1), "endbracket")
  PROVE  ParseJson(f, i, d) = Got(Leaf(Array(0)), Skip(Skip(i) + 1) + 1)
  BY ArrayValue

LEMMA ArrayFails ==
  ASSUME NEW f, NEW i, NEW d, Skip(i) \in Nat, Size \in Nat, ~TooDeep(d), At(Skip(i), "bracket"),
         ~At(Skip(Skip(i) + 1), "endbracket"), f[<<"items", Skip(i) + 1, d>>] = Failed
  PROVE  ParseJson(f, i, d) = Failed
  BY ArrayValue

LEMMA ArrayGot ==
  ASSUME NEW f, NEW i, NEW d, Skip(i) \in Nat, Size \in Nat, ~TooDeep(d), At(Skip(i), "bracket"),
         ~At(Skip(Skip(i) + 1), "endbracket"),
         NEW l, NEW m, f[<<"items", Skip(i) + 1, d>>] = Got(l, m)
  PROVE  ParseJson(f, i, d) = Got(ArrayOf(l), m)
  BY ArrayValue

LEMMA ObjectEmpty ==
  ASSUME NEW f, NEW i, NEW d, Skip(i) \in Nat, Size \in Nat, ~TooDeep(d), At(Skip(i), "brace"),
         At(Skip(Skip(i) + 1), "endbrace")
  PROVE  ParseJson(f, i, d) = Got(Leaf(Object({})), Skip(Skip(i) + 1) + 1)
  BY ObjectValue

LEMMA ObjectFails ==
  ASSUME NEW f, NEW i, NEW d, Skip(i) \in Nat, Size \in Nat, ~TooDeep(d), At(Skip(i), "brace"),
         ~At(Skip(Skip(i) + 1), "endbrace"), f[<<"members", Skip(i) + 1, d>>] = Failed
  PROVE  ParseJson(f, i, d) = Failed
  BY ObjectValue

LEMMA ObjectGot ==
  ASSUME NEW f, NEW i, NEW d, Skip(i) \in Nat, Size \in Nat, ~TooDeep(d), At(Skip(i), "brace"),
         ~At(Skip(Skip(i) + 1), "endbrace"),
         NEW l, NEW m, f[<<"members", Skip(i) + 1, d>>] = Got(l, m)
  PROVE  ParseJson(f, i, d) = Got(ObjectOf(l), m)
  BY ObjectValue

LEMMA ListAlike ==
  ASSUME OfTokens, NEW i \in 1..(Size + 1), NEW d \in Nat, NEW f, NEW g,
         At(Skip(i), "bracket") => AlikeFrom(f, g, "items", i + 1, d),
         At(Skip(i), "brace") => AlikeFrom(f, g, "members", i + 1, d),
         ~TooDeep(d), At(Skip(i), "bracket") \/ At(Skip(i), "brace")
  PROVE  ParseJson(f, i, d) = ParseJson(g, i, d) /\ IsResult(ParseJson(f, i, d), "value", i)
<1> DEFINE s == Skip(i)
           k == s + 1
           e == Skip(k)
<1>1. s \in i..(Size + 1) /\ s \in Nat /\ Size \in Nat
  BY SkipRange
<1>2. s \in 1..(Size + 1)
  <2> HIDE DEF s
  <2> QED
    BY <1>1
<1>3. s \in i..Size /\ k \in (i + 1)..(Size + 1) /\ k \in 1..(Size + 1)
  <2>1. s \in 1..Size
    BY <1>2, AtRange
  <2> HIDE DEF s
  <2> QED
    BY <1>1, <2>1
<1>4. e \in k..(Size + 1) /\ e \in 1..(Size + 1)
  <2>1. e \in k..(Size + 1)
    BY <1>3, SkipRange
  <2> HIDE DEF s, e, k
  <2> QED
    BY <1>1, <1>3, <2>1
<1>5. ASSUME NEW p, At(e, p) PROVE e \in i..Size
  <2>1. e \in 1..Size
    BY <1>4, <1>5, AtRange
  <2> HIDE DEF s, e, k
  <2> QED
    BY <1>1, <1>3, <1>4, <2>1
<1>6. ASSUME At(s, "bracket") PROVE ParseJson(f, i, d) = ParseJson(g, i, d)
                              /\ IsResult(ParseJson(f, i, d), "value", i)
  <2>1. CASE At(e, "endbracket")
    <3>1. ParseJson(f, i, d) = Got(Leaf(Array(0)), e + 1)
          /\ ParseJson(g, i, d) = Got(Leaf(Array(0)), e + 1)
      BY <1>1, <1>6, <2>1, ArrayEmpty
    <3>2. e \in i..Size
      BY <1>5, <2>1
    <3> QED
      BY <3>1, <3>2, ValueEnds
  <2>2. CASE ~At(e, "endbracket")
    <3>1. Alike(f, g, "items", k, d)
      BY <1>3, <1>6 DEF AlikeFrom
    <3>2. CASE BothFailed(f, g, <<"items", k, d>>)
      <4>1. ParseJson(f, i, d) = Failed /\ ParseJson(g, i, d) = Failed
        BY <1>1, <1>6, <2>2, <3>2, ArrayFails DEF BothFailed
      <4> QED
        BY <4>1, FailedIsResult
    <3>3. CASE BothRead(f, g, "items", k, d)
      <4>1. PICK l, m : BothGot(f, g, <<"items", k, d>>, l, m) /\ m \in (k + 1)..(Size + 1)
        BY <3>3 DEF BothRead
      <4>2. ParseJson(f, i, d) = Got(ArrayOf(l), m)
        <5>1. f[<<"items", k, d>>] = Got(l, m)
          BY <4>1 DEF BothGot
        <5> QED
          BY <1>1, <1>6, <2>2, <5>1, ArrayGot
      <4>3. ParseJson(g, i, d) = Got(ArrayOf(l), m)
        <5>1. g[<<"items", k, d>>] = Got(l, m)
          BY <4>1 DEF BothGot
        <5> QED
          BY <1>1, <1>6, <2>2, <5>1, ArrayGot
      <4> HIDE DEF s, k, e
      <4>4. m \in (i + 1)..(Size + 1)
        BY <1>1, <1>3, <4>1
      <4> QED
        BY <4>2, <4>3, <4>4, ResultIs, ClosesWith
    <3> QED
      BY <3>1, <3>2, <3>3, AlikeIs
  <2> QED
    BY <2>1, <2>2
<1>7. ASSUME At(s, "brace") PROVE ParseJson(f, i, d) = ParseJson(g, i, d)
                            /\ IsResult(ParseJson(f, i, d), "value", i)
  <2>1. CASE At(e, "endbrace")
    <3>1. ParseJson(f, i, d) = Got(Leaf(Object({})), e + 1)
          /\ ParseJson(g, i, d) = Got(Leaf(Object({})), e + 1)
      BY <1>1, <1>7, <2>1, ObjectEmpty
    <3>2. e \in i..Size
      BY <1>5, <2>1
    <3> QED
      BY <3>1, <3>2, ValueEnds
  <2>2. CASE ~At(e, "endbrace")
    <3>1. Alike(f, g, "members", k, d)
      BY <1>3, <1>7 DEF AlikeFrom
    <3>2. CASE BothFailed(f, g, <<"members", k, d>>)
      <4>1. ParseJson(f, i, d) = Failed /\ ParseJson(g, i, d) = Failed
        BY <1>1, <1>7, <2>2, <3>2, ObjectFails DEF BothFailed
      <4> QED
        BY <4>1, FailedIsResult
    <3>3. CASE BothRead(f, g, "members", k, d)
      <4>1. PICK l, m : BothGot(f, g, <<"members", k, d>>, l, m) /\ m \in (k + 1)..(Size + 1)
        BY <3>3 DEF BothRead
      <4>2. ParseJson(f, i, d) = Got(ObjectOf(l), m)
        <5>1. f[<<"members", k, d>>] = Got(l, m)
          BY <4>1 DEF BothGot
        <5> QED
          BY <1>1, <1>7, <2>2, <5>1, ObjectGot
      <4>3. ParseJson(g, i, d) = Got(ObjectOf(l), m)
        <5>1. g[<<"members", k, d>>] = Got(l, m)
          BY <4>1 DEF BothGot
        <5> QED
          BY <1>1, <1>7, <2>2, <5>1, ObjectGot
      <4> HIDE DEF s, k, e
      <4>4. m \in (i + 1)..(Size + 1)
        BY <1>1, <1>3, <4>1
      <4> QED
        BY <4>2, <4>3, <4>4, ResultIs, ClosesWith
    <3> QED
      BY <3>1, <3>2, <3>3, AlikeIs
  <2> QED
    BY <2>1, <2>2
<1> QED
  BY <1>6, <1>7

LEMMA ValueAlike ==
  ASSUME OfTokens, NEW i \in 1..(Size + 1), NEW d \in Nat, NEW f, NEW g,
         i <= Size => AlikeFrom(f, g, "items", i + 1, d),
         i <= Size => AlikeFrom(f, g, "members", i + 1, d)
  PROVE  ParseJson(f, i, d) = ParseJson(g, i, d) /\ IsResult(ParseJson(f, i, d), "value", i)
<1> DEFINE s == Skip(i)
<1>1. s \in i..(Size + 1) /\ s \in Nat /\ Size \in Nat
  BY SkipRange
<1>2. CASE TooDeep(d) \/ s > Size
  <2>1. ParseJson(f, i, d) = Failed /\ ParseJson(g, i, d) = Failed
    BY <1>1, <1>2, NoValue
  <2> QED
    BY <2>1, FailedIsResult
<1>3. CASE ~TooDeep(d) /\ s <= Size /\ (At(s, "bracket") \/ At(s, "brace"))
  <2>1. i <= Size
    <3> HIDE DEF s
    <3> QED
      BY <1>1, <1>3
  <2> QED
    BY <1>3, <2>1, ListAlike
<1>4. CASE ~TooDeep(d) /\ s <= Size /\ ~At(s, "bracket") /\ ~At(s, "brace")
  <2>1. s \in i..Size /\ text[s] \in AllTokens
    <3> HIDE DEF s
    <3>1. s \in 1..Size /\ s \in i..Size
      BY <1>1, <1>4
    <3> QED
      BY <3>1, SizeIs
  <2>2. CASE Scalar(text[s]) = {}
    <3>1. ParseJson(f, i, d) = Failed /\ ParseJson(g, i, d) = Failed
      BY <1>1, <1>4, <2>2, ScalarValue
    <3> QED
      BY <3>1, FailedIsResult
  <2>3. CASE Scalar(text[s]) # {}
    <3>1. PICK v : Scalar(text[s]) = {v}
      BY <2>1, <2>3, ScalarIsMeant
    <3>2. ParseJson(f, i, d) = Got(v, s + 1) /\ ParseJson(g, i, d) = Got(v, s + 1)
      BY <1>1, <1>4, <3>1, ScalarValue
    <3> QED
      BY <2>1, <3>2, ValueEnds
  <2> QED
    BY <2>2, <2>3
<1> HIDE DEF s
<1> QED
  BY <1>1, <1>2, <1>3, <1>4

\* How far a call is from the end of the text.
CallRank(x) == 2 * (Size + 1 - x[2]) + (IF x[1] = "value" THEN 0 ELSE 1)

LEMMA CallIs ==
  ASSUME OfTokens, NEW kind \in {"value", "items", "members"}, NEW i \in 1..(Size + 1), NEW d \in Nat
  PROVE  /\ <<kind, i, d>> \in Calls
         /\ CallRank(<<kind, i, d>>) \in Nat /\ CallRank(<<kind, i, d>>) < 2 * Size + 2
         /\ <<kind, i, d>>[1] = kind /\ <<kind, i, d>>[2] = i /\ <<kind, i, d>>[3] = d
         /\ kind = "value" => CallRank(<<kind, i, d>>) = 2 * (Size + 1 - i)
         /\ kind # "value" => CallRank(<<kind, i, d>>) = 2 * (Size + 1 - i) + 1
<1>1. Size \in Nat
  BY SizeIs
<1>2. <<kind, i, d>> \in Calls
  BY DEF Calls, Size
<1>3. <<kind, i, d>>[1] = kind /\ <<kind, i, d>>[2] = i /\ <<kind, i, d>>[3] = d
  OBVIOUS
<1>4. CallRank(<<kind, i, d>>) = 2 * (Size + 1 - i) + (IF kind = "value" THEN 0 ELSE 1)
  BY <1>3 DEF CallRank
<1>5. kind = "value" => CallRank(<<kind, i, d>>) = 2 * (Size + 1 - i)
  BY <1>1, <1>4
<1>6. kind # "value" => CallRank(<<kind, i, d>>) = 2 * (Size + 1 - i) + 1
  BY <1>1, <1>4
<1>7. 2 * (Size + 1 - i) \in Nat /\ 2 * (Size + 1 - i) + 1 < 2 * Size + 2
  BY <1>1
<1> QED
  BY <1>1, <1>2, <1>3, <1>5, <1>6, <1>7

LEMMA CallParts ==
  ASSUME OfTokens, NEW x \in Calls
  PROVE  \E kind \in {"value", "items", "members"}, i \in 1..(Size + 1), d \in Nat :
            x = <<kind, i, d>>
  BY DEF Calls, Size

\* Two readers that agree on the calls of a lower rank.
Lower(f, g, n) ==
    \A kind \in {"value", "items", "members"}, i \in 1..(Size + 1), d \in Nat :
        CallRank(<<kind, i, d>>) < n => Alike(f, g, kind, i, d)

LEMMA YieldsAlike ==
  ASSUME OfTokens, NEW kind \in {"value", "items", "members"}, NEW i \in 1..(Size + 1), NEW d \in Nat,
         NEW f, NEW g, Lower(f, g, CallRank(<<kind, i, d>>))
  PROVE  /\ Yields(f, <<kind, i, d>>) = Yields(g, <<kind, i, d>>)
         /\ IsResult(Yields(f, <<kind, i, d>>), kind, i)
<1> DEFINE x == <<kind, i, d>>
           n == CallRank(x)
<1>1. Size \in Nat
  BY SizeIs
<1>2. \A k \in (i + 1)..(Size + 1) : k \in 1..(Size + 1) /\ 2 * (Size + 1 - k) + 1 < 2 * (Size + 1 - i)
  BY <1>1
<1>3. x[1] = kind /\ x[2] = i /\ x[3] = d
  OBVIOUS
<1>4. n >= 2 * (Size + 1 - i) /\ (kind # "value" => n = 2 * (Size + 1 - i) + 1)
  BY <1>1, CallIs
<1>5. ASSUME NEW c \in {"value", "items", "members"}, NEW e \in Nat
      PROVE  AlikeFrom(f, g, c, i + 1, e)
  <2> SUFFICES ASSUME NEW k \in (i + 1)..(Size + 1) PROVE Alike(f, g, c, k, e)
    BY DEF AlikeFrom
  <2>1. k \in 1..(Size + 1)
    BY <1>2
  <2>2. CallRank(<<c, k, e>>) \in Nat /\ CallRank(<<c, k, e>>) <= 2 * (Size + 1 - k) + 1
    BY <1>1, <2>1, CallIs
  <2> DEFINE m == CallRank(<<c, k, e>>)
  <2>3. 2 * (Size + 1 - k) + 1 < 2 * (Size + 1 - i)
    BY <1>2
  <2>4. m < n
    <3>1. n \in Nat
      BY CallIs
    <3> HIDE DEF m, n
    <3>2. m \in Nat /\ m <= 2 * (Size + 1 - k) + 1
      BY <2>2 DEF m
    <3> QED
      BY <1>1, <1>4, <2>1, <2>3, <3>1, <3>2
  <2> QED
    BY <2>1, <2>4 DEF Lower
<1>6. d + 1 \in Nat
  OBVIOUS
<1>7. CASE kind = "value"
  <2>1. Yields(f, x) = ParseJson(f, i, d) /\ Yields(g, x) = ParseJson(g, i, d)
    BY <1>3, <1>7 DEF Yields
  <2> QED
    BY <1>5, <1>7, <2>1, ValueAlike
<1>8. CASE kind = "items"
  <2>1. Yields(f, x) = ParseItems(f, i, d) /\ Yields(g, x) = ParseItems(g, i, d)
    BY <1>3, <1>8 DEF Yields
  <2>2. Alike(f, g, "value", i, d + 1)
    <3>1. CallRank(<<"value", i, d + 1>>) = 2 * (Size + 1 - i)
      BY <1>6, CallIs
    <3>2. n = 2 * (Size + 1 - i) + 1
      BY <1>4, <1>8
    <3>3. CallRank(<<"value", i, d + 1>>) < n
      <4> HIDE DEF n
      <4> QED
        BY <1>1, <3>1, <3>2
    <3> QED
      BY <1>6, <3>3 DEF Lower
  <2> QED
    BY <1>5, <1>8, <2>1, <2>2, ItemsAlike
<1>9. CASE kind = "members"
  <2>1. Yields(f, x) = ParseMembers(f, i, d) /\ Yields(g, x) = ParseMembers(g, i, d)
    BY <1>3, <1>9 DEF Yields
  <2> QED
    BY <1>5, <1>6, <1>9, <2>1, MembersAlike
<1> QED
  BY <1>7, <1>8, <1>9

-----------------------------------------------------------------------------
(* There is such a reader, and Parse is what it yields for the whole text. *)

Reads(f) ==
    \A kind \in {"value", "items", "members"}, i \in 1..(Size + 1), d \in Nat :
        /\ f[<<kind, i, d>>] = Yields(f, <<kind, i, d>>)
        /\ IsResult(f[<<kind, i, d>>], kind, i)

LEMMA ReaderStage ==
  ASSUME OfTokens, NEW n \in Nat, NEW f, NEW g,
         g = [x \in Calls |-> Yields(f, x)], Lower(f, g, n)
  PROVE  \E h : h = [x \in Calls |-> Yields(g, x)] /\ Lower(g, h, n + 1)
<1> DEFINE h == [x \in Calls |-> Yields(g, x)]
<1> SUFFICES Lower(g, h, n + 1)
  OBVIOUS
<1> SUFFICES ASSUME NEW kind \in {"value", "items", "members"}, NEW i \in 1..(Size + 1),
                    NEW d \in Nat, CallRank(<<kind, i, d>>) < n + 1
             PROVE  Alike(g, h, kind, i, d)
  BY DEF Lower
<1>1. <<kind, i, d>> \in Calls /\ CallRank(<<kind, i, d>>) \in Nat
  BY CallIs
<1>2. Lower(f, g, CallRank(<<kind, i, d>>))
  <2> SUFFICES ASSUME NEW c \in {"value", "items", "members"}, NEW k \in 1..(Size + 1),
                      NEW e \in Nat, CallRank(<<c, k, e>>) < CallRank(<<kind, i, d>>)
               PROVE  Alike(f, g, c, k, e)
    BY DEF Lower
  <2>1. CallRank(<<c, k, e>>) \in Nat
    BY CallIs
  <2>2. CallRank(<<c, k, e>>) < n
    BY <1>1, <2>1
  <2> QED
    BY <2>2 DEF Lower
<1>3. /\ Yields(f, <<kind, i, d>>) = Yields(g, <<kind, i, d>>)
      /\ IsResult(Yields(f, <<kind, i, d>>), kind, i)
  BY <1>2, YieldsAlike
<1>4. g[<<kind, i, d>>] = Yields(f, <<kind, i, d>>) /\ h[<<kind, i, d>>] = Yields(g, <<kind, i, d>>)
  BY <1>1
<1> HIDE DEF h
<1> QED
  BY <1>3, <1>4 DEF Alike

LEMMA ReaderIs ==
  ASSUME OfTokens
  PROVE  \E f : /\ Reads(f)
                /\ Parse = LET r == f[<<"value", 1, 0>>]
                           IN IF r.ok /\ Skip(r.next) > Len(text) THEN {r.value} ELSE {}
<1> DEFINE N == 2 * Size + 2
           Stage(n) == \E f, g : g = [x \in Calls |-> Yields(f, x)] /\ Lower(f, g, n)
           P == {n \in 0..N : Stage(n)}
           F == CHOOSE f : f = [x \in Calls |-> Yields(f, x)]
<1>1. Size \in Nat /\ N \in Nat
  BY SizeIs
<1>2. 0 \in P
  <2> DEFINE f == [x \in Calls |-> Failed]
             g == [x \in Calls |-> Yields(f, x)]
  <2>1. Lower(f, g, 0)
    <3> HIDE DEF f, g
    <3> SUFFICES ASSUME NEW kind \in {"value", "items", "members"}, NEW i \in 1..(Size + 1),
                        NEW d \in Nat, CallRank(<<kind, i, d>>) < 0
                 PROVE  FALSE
      BY DEF Lower
    <3>1. CallRank(<<kind, i, d>>) \in Nat
      BY CallIs
    <3> QED
      BY <3>1
  <2>2. Stage(0)
    BY <2>1
  <2> QED
    BY <1>1, <2>2
<1>3. ASSUME NEW n \in 1..N, n - 1 \in P PROVE n \in P
  <2>1. PICK f, g : g = [x \in Calls |-> Yields(f, x)] /\ Lower(f, g, n - 1)
    BY <1>3
  <2>2. n - 1 \in Nat /\ (n - 1) + 1 = n
    BY <1>1
  <2>3. \E h : h = [x \in Calls |-> Yields(g, x)] /\ Lower(g, h, n)
    BY <2>1, <2>2, ReaderStage
  <2>4. Stage(n)
    BY <2>3
  <2> QED
    BY <1>1, <2>4
<1> HIDE DEF P
<1>4. N \in P
  <2>1. \A n \in 0..N : n \in P
    BY <1>1, <1>2, <1>3, UpTo
  <2> QED
    BY <1>1, <2>1
<1>5. PICK f, g : g = [x \in Calls |-> Yields(f, x)] /\ Lower(f, g, N)
  BY <1>4 DEF P
<1>6. ASSUME NEW x \in Calls PROVE g[x] = Yields(g, x) /\ IsResult(g[x], x[1], x[2])
  <2>1. PICK kind \in {"value", "items", "members"}, i \in 1..(Size + 1), d \in Nat :
            x = <<kind, i, d>>
    BY CallParts
  <2>2. CallRank(x) \in Nat /\ CallRank(x) < N /\ x[1] = kind /\ x[2] = i
    BY <2>1, CallIs
  <2>3. Lower(f, g, CallRank(x))
    <3> SUFFICES ASSUME NEW c \in {"value", "items", "members"}, NEW k \in 1..(Size + 1),
                        NEW e \in Nat, CallRank(<<c, k, e>>) < CallRank(x)
                 PROVE  Alike(f, g, c, k, e)
      BY DEF Lower
    <3>1. CallRank(<<c, k, e>>) < N
      BY <1>1, CallIs
    <3> QED
      BY <1>5, <3>1 DEF Lower
  <2>4. Yields(f, x) = Yields(g, x) /\ IsResult(Yields(f, x), kind, i)
    BY <2>1, <2>3, YieldsAlike
  <2>5. g[x] = Yields(f, x)
    BY <1>5
  <2> QED
    BY <2>2, <2>4, <2>5
<1>7. g = [x \in Calls |-> Yields(g, x)]
  BY <1>5, <1>6
<1>8. F = [x \in Calls |-> Yields(F, x)]
  BY <1>7
<1>9. Parse = LET r == F[<<"value", 1, 0>>]
              IN IF r.ok /\ Skip(r.next) > Len(text) THEN {r.value} ELSE {}
  BY DEF Parse
<1> HIDE DEF F
<1>10. \A x \in Calls : F[x] = Yields(F, x)
  BY <1>8
<1> DEFINE Q == {n \in 0..N : Lower(F, F, n)}
<1>11. 0 \in Q
  <2> SUFFICES ASSUME NEW kind \in {"value", "items", "members"}, NEW i \in 1..(Size + 1),
                      NEW d \in Nat, CallRank(<<kind, i, d>>) < 0
               PROVE  FALSE
    BY <1>1 DEF Lower
  <2>1. CallRank(<<kind, i, d>>) \in Nat
    BY CallIs
  <2> QED
    BY <2>1
<1>12. ASSUME NEW n \in 1..N, n - 1 \in Q PROVE n \in Q
  <2>1. n - 1 \in Nat /\ (n - 1) + 1 = n
    BY <1>1
  <2>2. Lower(F, F, n - 1)
    BY <1>12
  <2>3. Lower(F, F, n)
    BY <1>8, <2>1, <2>2, ReaderStage
  <2> QED
    BY <1>1, <2>3
<1> HIDE DEF Q
<1>13. N \in Q
  <2>1. \A n \in 0..N : n \in Q
    BY <1>1, <1>11, <1>12, UpTo
  <2> QED
    BY <1>1, <2>1
<1>14. Reads(F)
  <2> SUFFICES ASSUME NEW kind \in {"value", "items", "members"}, NEW i \in 1..(Size + 1),
                      NEW d \in Nat
               PROVE  /\ F[<<kind, i, d>>] = Yields(F, <<kind, i, d>>)
                      /\ IsResult(F[<<kind, i, d>>], kind, i)
    BY DEF Reads
  <2>1. <<kind, i, d>> \in Calls /\ CallRank(<<kind, i, d>>) < N
    BY CallIs
  <2>2. Alike(F, F, kind, i, d)
    BY <1>13, <2>1 DEF Q, Lower
  <2> QED
    BY <1>10, <2>1, <2>2 DEF Alike
<1> QED
  BY <1>9, <1>14

-----------------------------------------------------------------------------
(* The grammar, element by element. *)

IsSpaced(f, i, j, d, v) ==
    \E a \in i..j, b \in i..j : Blank(i, a - 1) /\ Blank(b + 1, j) /\ v \in Bare(f, a, b, d)

LEMMA SpacedIs ==
  ASSUME NEW f, NEW i, NEW j, NEW d, NEW v
  PROVE  v \in Spaced(f, i, j, d) <=> IsSpaced(f, i, j, d, v)
  BY DEF Spaced, IsSpaced

IsItemList(f, i, j, d, l) ==
    \/ \E v \in f[<<"value", i, j, d + 1>>] : l = <<v>>
    \/ \E c \in i..j : /\ text[c] = Punct("comma")
                       /\ \E v \in f[<<"value", i, c - 1, d + 1>>], r \in f[<<"items", c + 1, j, d>>] :
                            l = <<v>> \o r

LEMMA ItemListsAre ==
  ASSUME NEW f, NEW i, NEW j, NEW d, NEW l
  PROVE  l \in ItemLists(f, i, j, d) <=> IsItemList(f, i, j, d, l)
<1> DEFINE Of(c) == {<<v>> \o r : v \in f[<<"value", i, c - 1, d + 1>>],
                                  r \in f[<<"items", c + 1, j, d>>]}
           C == {c \in i..j : text[c] = Punct("comma")}
           One == {<<v>> : v \in f[<<"value", i, j, d + 1>>]}
<1>1. ItemLists(f, i, j, d) = One \cup UNION {Of(c) : c \in C}
  BY DEF ItemLists
<1>2. l \in One <=> \E v \in f[<<"value", i, j, d + 1>>] : l = <<v>>
  OBVIOUS
<1>3. ASSUME NEW c
      PROVE  l \in Of(c) <=> \E v \in f[<<"value", i, c - 1, d + 1>>], r \in f[<<"items", c + 1, j, d>>] :
                                l = <<v>> \o r
  OBVIOUS
<1>4. \A c : c \in C <=> c \in i..j /\ text[c] = Punct("comma")
  OBVIOUS
<1> HIDE DEF Of, C, One
<1>5. l \in ItemLists(f, i, j, d) <=> l \in One \/ \E c \in C : l \in Of(c)
  BY <1>1
<1>6. l \in ItemLists(f, i, j, d) <=>
        \/ l \in One
        \/ \E c \in i..j : text[c] = Punct("comma") /\ l \in Of(c)
  BY <1>4, <1>5
<1> QED
  BY <1>2, <1>3, <1>6 DEF IsItemList

\* The key and the colon of a member.
KeyIn(i, j, k, c) ==
    /\ k \in i..j /\ c \in i..j /\ k < c
    /\ Blank(i, k - 1) /\ Blank(k + 1, c - 1)
    /\ "str" \in DOMAIN text[k] /\ text[c] = Punct("colon")

IsMember(f, i, j, d, m) ==
    \E k, c : /\ KeyIn(i, j, k, c)
              /\ \E v \in f[<<"value", c + 1, j, d + 1>>] :
                    m = [key |-> Spelling(text[k].str), value |-> v]

LEMMA MembersAre ==
  ASSUME NEW f, NEW i, NEW j, NEW d, NEW m
  PROVE  m \in Members(f, i, j, d) <=> IsMember(f, i, j, d, m)
<1> DEFINE Cuts == {x \in (i..j) \X (i..j) :
                      /\ x[1] < x[2] /\ Blank(i, x[1] - 1) /\ Blank(x[1] + 1, x[2] - 1)
                      /\ "str" \in DOMAIN text[x[1]] /\ text[x[2]] = Punct("colon")}
           Of(x) == {[key |-> Spelling(text[x[1]].str), value |-> v] :
                        v \in f[<<"value", x[2] + 1, j, d + 1>>]}
<1>1. Members(f, i, j, d) = UNION {Of(x) : x \in Cuts}
  BY DEF Members
<1>2. ASSUME NEW k, NEW c PROVE <<k, c>> \in Cuts <=> KeyIn(i, j, k, c)
  BY DEF KeyIn
<1>3. ASSUME NEW x \in Cuts PROVE x = <<x[1], x[2]>>
  OBVIOUS
<1>4. ASSUME NEW k, NEW c
      PROVE  m \in Of(<<k, c>>) <=> \E v \in f[<<"value", c + 1, j, d + 1>>] :
                                        m = [key |-> Spelling(text[k].str), value |-> v]
  OBVIOUS
<1> HIDE DEF Cuts, Of
<1>5. m \in Members(f, i, j, d) <=> \E x \in Cuts : m \in Of(x)
  BY <1>1
<1>6. (\E x \in Cuts : m \in Of(x)) <=> \E k, c : <<k, c>> \in Cuts /\ m \in Of(<<k, c>>)
  BY <1>3
<1> QED
  BY <1>2, <1>4, <1>5, <1>6 DEF IsMember

IsMemberList(f, i, j, d, l) ==
    \/ \E m : IsMember(f, i, j, d, m) /\ l = <<m>>
    \/ \E c \in i..j : /\ text[c] = Punct("comma")
                       /\ \E m : /\ IsMember(f, i, c - 1, d, m)
                                 /\ \E r \in f[<<"members", c + 1, j, d>>] : l = <<m>> \o r

LEMMA MemberListsAre ==
  ASSUME NEW f, NEW i, NEW j, NEW d, NEW l
  PROVE  l \in MemberLists(f, i, j, d) <=> IsMemberList(f, i, j, d, l)
<1> DEFINE Of(c) == {<<m>> \o r : m \in Members(f, i, c - 1, d),
                                  r \in f[<<"members", c + 1, j, d>>]}
           C == {c \in i..j : text[c] = Punct("comma")}
           One == {<<m>> : m \in Members(f, i, j, d)}
<1>1. MemberLists(f, i, j, d) = One \cup UNION {Of(c) : c \in C}
  BY DEF MemberLists
<1>2. l \in One <=> \E m : IsMember(f, i, j, d, m) /\ l = <<m>>
  BY MembersAre
<1>3. ASSUME NEW c
      PROVE  l \in Of(c) <=> \E m : /\ IsMember(f, i, c - 1, d, m)
                                    /\ \E r \in f[<<"members", c + 1, j, d>>] : l = <<m>> \o r
  <2>1. l \in Of(c) <=> \E m \in Members(f, i, c - 1, d), r \in f[<<"members", c + 1, j, d>>] :
                            l = <<m>> \o r
    OBVIOUS
  <2>2. \A m : m \in Members(f, i, c - 1, d) <=> IsMember(f, i, c - 1, d, m)
    BY MembersAre
  <2> HIDE DEF Of
  <2> QED
    BY <2>1, <2>2
<1>4. \A c : c \in C <=> c \in i..j /\ text[c] = Punct("comma")
  OBVIOUS
<1> HIDE DEF Of, C, One
<1>5. l \in MemberLists(f, i, j, d) <=> l \in One \/ \E c \in C : l \in Of(c)
  BY <1>1
<1>6. l \in MemberLists(f, i, j, d) <=>
        \/ l \in One
        \/ \E c \in i..j : text[c] = Punct("comma") /\ l \in Of(c)
  BY <1>4, <1>5
<1> QED
  BY <1>2, <1>3, <1>6 DEF IsMemberList

-----------------------------------------------------------------------------
(* The meanings of the spans of a text: each needs only those of shorter     *)
(* spans, or of the same one if it is of a value in a list.                  *)

SpanRank(x) == 2 * (x[3] - x[2] + Size + 2) + (IF x[1] = "value" THEN 0 ELSE 1)

LEMMA SpanIs ==
  ASSUME OfTokens, NEW kind \in {"value", "items", "members"}, NEW i \in 1..(Size + 1),
         NEW j \in 0..Size, NEW d \in Nat
  PROVE  /\ <<kind, i, j, d>> \in Spans
         /\ SpanRank(<<kind, i, j, d>>) \in Nat /\ SpanRank(<<kind, i, j, d>>) < 4 * Size + 4
         /\ <<kind, i, j, d>>[1] = kind /\ <<kind, i, j, d>>[2] = i
         /\ <<kind, i, j, d>>[3] = j /\ <<kind, i, j, d>>[4] = d
         /\ kind = "value" => SpanRank(<<kind, i, j, d>>) = 2 * (j - i + Size + 2)
         /\ kind # "value" => SpanRank(<<kind, i, j, d>>) = 2 * (j - i + Size + 2) + 1
<1>1. Size \in Nat
  BY SizeIs
<1>2. <<kind, i, j, d>> \in Spans
  BY DEF Spans, Size
<1>3. /\ <<kind, i, j, d>>[1] = kind /\ <<kind, i, j, d>>[2] = i
      /\ <<kind, i, j, d>>[3] = j /\ <<kind, i, j, d>>[4] = d
  OBVIOUS
<1>4. SpanRank(<<kind, i, j, d>>) = 2 * (j - i + Size + 2) + (IF kind = "value" THEN 0 ELSE 1)
  BY <1>3 DEF SpanRank
<1>5. kind = "value" => SpanRank(<<kind, i, j, d>>) = 2 * (j - i + Size + 2)
  BY <1>1, <1>4
<1>6. kind # "value" => SpanRank(<<kind, i, j, d>>) = 2 * (j - i + Size + 2) + 1
  BY <1>1, <1>4
<1>7. 2 * (j - i + Size + 2) \in Nat /\ 2 * (j - i + Size + 2) + 1 < 4 * Size + 4
  <2>1. j - i + Size + 2 \in Nat /\ j - i + Size + 2 <= 2 * Size + 1
    BY <1>1
  <2> QED
    BY <1>1, <2>1
<1> QED
  BY <1>1, <1>2, <1>3, <1>5, <1>6, <1>7

LEMMA SpanParts ==
  ASSUME OfTokens, NEW x \in Spans
  PROVE  \E kind \in {"value", "items", "members"}, i \in 1..(Size + 1), j \in 0..Size, d \in Nat :
            x = <<kind, i, j, d>>
  BY DEF Spans, Size

\* Two grammars that agree on the spans of a lower rank.
Shorter(f, g, n) ==
    \A kind \in {"value", "items", "members"}, i \in 1..(Size + 1), j \in 0..Size, d \in Nat :
        SpanRank(<<kind, i, j, d>>) < n => f[<<kind, i, j, d>>] = g[<<kind, i, j, d>>]

LEMMA BareSame ==
  ASSUME NEW f, NEW g, NEW a, NEW b, NEW d,
         a # b => f[<<"items", a + 1, b - 1, d>>] = g[<<"items", a + 1, b - 1, d>>],
         a # b => f[<<"members", a + 1, b - 1, d>>] = g[<<"members", a + 1, b - 1, d>>]
  PROVE  Bare(f, a, b, d) = Bare(g, a, b, d)
<1>1. CASE a = b
  BY <1>1 DEF Bare
<1>2. CASE a # b
  BY <1>2 DEF Bare
<1> QED
  BY <1>1, <1>2

LEMMA SpacedSame ==
  ASSUME NEW f, NEW g, NEW i, NEW j, NEW d,
         \A a, b \in i..j : Bare(f, a, b, d) = Bare(g, a, b, d)
  PROVE  Spaced(f, i, j, d) = Spaced(g, i, j, d)
<1>1. ASSUME NEW v PROVE v \in Spaced(f, i, j, d) <=> v \in Spaced(g, i, j, d)
  <2>1. IsSpaced(f, i, j, d, v) <=> IsSpaced(g, i, j, d, v)
    BY DEF IsSpaced
  <2> QED
    BY <2>1, SpacedIs
<1> QED
  BY <1>1

LEMMA ItemListsSame ==
  ASSUME NEW f, NEW g, NEW i, NEW j, NEW d,
         f[<<"value", i, j, d + 1>>] = g[<<"value", i, j, d + 1>>],
         \A c \in i..j : f[<<"value", i, c - 1, d + 1>>] = g[<<"value", i, c - 1, d + 1>>],
         \A c \in i..j : f[<<"items", c + 1, j, d>>] = g[<<"items", c + 1, j, d>>]
  PROVE  ItemLists(f, i, j, d) = ItemLists(g, i, j, d)
<1>1. ASSUME NEW l PROVE l \in ItemLists(f, i, j, d) <=> l \in ItemLists(g, i, j, d)
  <2>1. IsItemList(f, i, j, d, l) <=> IsItemList(g, i, j, d, l)
    BY DEF IsItemList
  <2> QED
    BY <2>1, ItemListsAre
<1> QED
  BY <1>1

LEMMA MemberSame ==
  ASSUME NEW f, NEW g, NEW i, NEW j, NEW d, NEW m,
         \A c \in i..j : f[<<"value", c + 1, j, d + 1>>] = g[<<"value", c + 1, j, d + 1>>]
  PROVE  IsMember(f, i, j, d, m) <=> IsMember(g, i, j, d, m)
<1>1. ASSUME NEW k, NEW c, KeyIn(i, j, k, c)
      PROVE  f[<<"value", c + 1, j, d + 1>>] = g[<<"value", c + 1, j, d + 1>>]
  BY <1>1 DEF KeyIn
<1> QED
  BY <1>1 DEF IsMember

LEMMA MemberListsSame ==
  ASSUME NEW f, NEW g, NEW i, NEW j, NEW d,
         \A m : IsMember(f, i, j, d, m) <=> IsMember(g, i, j, d, m),
         \A c \in i..j : \A m : IsMember(f, i, c - 1, d, m) <=> IsMember(g, i, c - 1, d, m),
         \A c \in i..j : f[<<"members", c + 1, j, d>>] = g[<<"members", c + 1, j, d>>]
  PROVE  MemberLists(f, i, j, d) = MemberLists(g, i, j, d)
<1>1. ASSUME NEW l PROVE l \in MemberLists(f, i, j, d) <=> l \in MemberLists(g, i, j, d)
  <2>1. IsMemberList(f, i, j, d, l) <=> IsMemberList(g, i, j, d, l)
    BY DEF IsMemberList
  <2> QED
    BY <2>1, MemberListsAre
<1> QED
  BY <1>1

LEMMA DerivedSame ==
  ASSUME OfTokens, NEW kind \in {"value", "items", "members"}, NEW i \in 1..(Size + 1),
         NEW j \in 0..Size, NEW d \in Nat,
         NEW f, NEW g, Shorter(f, g, SpanRank(<<kind, i, j, d>>))
  PROVE  Derived(f, <<kind, i, j, d>>) = Derived(g, <<kind, i, j, d>>)
<1> DEFINE x == <<kind, i, j, d>>
           n == SpanRank(x)
<1>1. Size \in Nat
  BY SizeIs
<1>2. x[1] = kind /\ x[2] = i /\ x[3] = j /\ x[4] = d
  OBVIOUS
<1>3. n \in Nat /\ n >= 2 * (j - i + Size + 2)
      /\ (kind # "value" => n = 2 * (j - i + Size + 2) + 1)
  BY <1>1, SpanIs
<1> HIDE DEF n
<1>4. ASSUME NEW c \in {"value", "items", "members"}, NEW a \in 1..(Size + 1), NEW b \in 0..Size,
             NEW e \in Nat, b - a < j - i
      PROVE  f[<<c, a, b, e>>] = g[<<c, a, b, e>>]
  <2> DEFINE m == SpanRank(<<c, a, b, e>>)
  <2>1. m \in Nat /\ m <= 2 * (b - a + Size + 2) + 1
    <3> DEFINE y == b - a + Size + 2
    <3>1. m \in Nat /\ (m = 2 * y \/ m = 2 * y + 1)
      BY SpanIs
    <3>2. y \in Int
      BY <1>1
    <3> HIDE DEF m, y
    <3>3. m \in Nat /\ m <= 2 * y + 1
      BY <3>1, <3>2
    <3> QED
      BY <3>3 DEF y
  <2> HIDE DEF m
  <2>2. b - a + Size + 2 <= (j - i + Size + 2) - 1
    BY <1>1, <1>4
  <2>3. m < n
    BY <1>1, <1>3, <2>1, <2>2
  <2> QED
    BY <2>3 DEF Shorter, m, n
<1>5. ASSUME kind # "value", NEW e \in Nat
      PROVE  f[<<"value", i, j, e>>] = g[<<"value", i, j, e>>]
  <2>1. SpanRank(<<"value", i, j, e>>) < n
    <3>1. SpanRank(<<"value", i, j, e>>) = 2 * (j - i + Size + 2)
      BY SpanIs
    <3> QED
      BY <1>1, <1>3, <1>5, <3>1
  <2> QED
    BY <2>1 DEF Shorter, n
<1>6. d + 1 \in Nat
  OBVIOUS
<1>7. \A c \in i..j : /\ c \in 1..Size /\ c - 1 \in 0..Size /\ c + 1 \in 1..(Size + 1)
                      /\ (c - 1) - i < j - i /\ j - (c + 1) < j - i
  BY <1>1
<1>8. CASE kind = "value"
  <2>1. /\ Derived(f, x) = IF TooDeep(d) THEN {} ELSE Spaced(f, i, j, d)
        /\ Derived(g, x) = IF TooDeep(d) THEN {} ELSE Spaced(g, i, j, d)
    BY <1>2, <1>8 DEF Derived
  <2>2. ASSUME NEW a \in i..j, NEW b \in i..j PROVE Bare(f, a, b, d) = Bare(g, a, b, d)
    <3>1. a + 1 \in 1..(Size + 1) /\ b - 1 \in 0..Size /\ (b - 1) - (a + 1) < j - i
      BY <1>1
    <3>2. /\ f[<<"items", a + 1, b - 1, d>>] = g[<<"items", a + 1, b - 1, d>>]
          /\ f[<<"members", a + 1, b - 1, d>>] = g[<<"members", a + 1, b - 1, d>>]
      BY <1>4, <3>1
    <3> QED
      BY <3>2, BareSame
  <2> QED
    BY <2>1, <2>2, SpacedSame
<1>9. CASE kind = "items"
  <2>1. Derived(f, x) = ItemLists(f, i, j, d) /\ Derived(g, x) = ItemLists(g, i, j, d)
    BY <1>2, <1>9 DEF Derived
  <2>2. f[<<"value", i, j, d + 1>>] = g[<<"value", i, j, d + 1>>]
    BY <1>5, <1>6, <1>9
  <2>3. \A c \in i..j : f[<<"value", i, c - 1, d + 1>>] = g[<<"value", i, c - 1, d + 1>>]
    BY <1>4, <1>6, <1>7
  <2>4. \A c \in i..j : f[<<"items", c + 1, j, d>>] = g[<<"items", c + 1, j, d>>]
    BY <1>4, <1>7
  <2> QED
    BY <2>1, <2>2, <2>3, <2>4, ItemListsSame
<1>10. CASE kind = "members"
  <2>1. Derived(f, x) = MemberLists(f, i, j, d) /\ Derived(g, x) = MemberLists(g, i, j, d)
    BY <1>2, <1>10 DEF Derived
  <2>2. ASSUME NEW m PROVE IsMember(f, i, j, d, m) <=> IsMember(g, i, j, d, m)
    <3>1. \A c \in i..j : f[<<"value", c + 1, j, d + 1>>] = g[<<"value", c + 1, j, d + 1>>]
      BY <1>4, <1>6, <1>7
    <3> QED
      BY <3>1, MemberSame
  <2>3. ASSUME NEW c \in i..j, NEW m
        PROVE  IsMember(f, i, c - 1, d, m) <=> IsMember(g, i, c - 1, d, m)
    <3>1. ASSUME NEW y \in i..(c - 1)
          PROVE  f[<<"value", y + 1, c - 1, d + 1>>] = g[<<"value", y + 1, c - 1, d + 1>>]
      <4>1. y + 1 \in 1..(Size + 1) /\ c - 1 \in 0..Size /\ (c - 1) - (y + 1) < j - i
        BY <1>1
      <4> QED
        BY <1>4, <1>6, <4>1
    <3> QED
      BY <3>1, MemberSame
  <2>4. \A c \in i..j : f[<<"members", c + 1, j, d>>] = g[<<"members", c + 1, j, d>>]
    BY <1>4, <1>7
  <2> QED
    BY <2>1, <2>2, <2>3, <2>4, MemberListsSame
<1> QED
  BY <1>8, <1>9, <1>10

Means(f) ==
    \A kind \in {"value", "items", "members"}, i \in 1..(Size + 1), j \in 0..Size, d \in Nat :
        f[<<kind, i, j, d>>] = Derived(f, <<kind, i, j, d>>)

LEMMA GrammarStage ==
  ASSUME OfTokens, NEW n \in Nat, NEW f, NEW g,
         g = [x \in Spans |-> Derived(f, x)], Shorter(f, g, n)
  PROVE  \E h : h = [x \in Spans |-> Derived(g, x)] /\ Shorter(g, h, n + 1)
<1> DEFINE h == [x \in Spans |-> Derived(g, x)]
<1> SUFFICES Shorter(g, h, n + 1)
  OBVIOUS
<1> SUFFICES ASSUME NEW kind \in {"value", "items", "members"}, NEW i \in 1..(Size + 1),
                    NEW j \in 0..Size, NEW d \in Nat, SpanRank(<<kind, i, j, d>>) < n + 1
             PROVE  g[<<kind, i, j, d>>] = h[<<kind, i, j, d>>]
  BY DEF Shorter
<1>1. <<kind, i, j, d>> \in Spans /\ SpanRank(<<kind, i, j, d>>) \in Nat
  BY SpanIs
<1>2. Shorter(f, g, SpanRank(<<kind, i, j, d>>))
  <2> SUFFICES ASSUME NEW c \in {"value", "items", "members"}, NEW a \in 1..(Size + 1),
                      NEW b \in 0..Size, NEW e \in Nat,
                      SpanRank(<<c, a, b, e>>) < SpanRank(<<kind, i, j, d>>)
               PROVE  f[<<c, a, b, e>>] = g[<<c, a, b, e>>]
    BY DEF Shorter
  <2>1. SpanRank(<<c, a, b, e>>) \in Nat
    BY SpanIs
  <2>2. SpanRank(<<c, a, b, e>>) < n
    BY <1>1, <2>1
  <2> QED
    BY <2>2 DEF Shorter
<1>3. Derived(f, <<kind, i, j, d>>) = Derived(g, <<kind, i, j, d>>)
  BY <1>2, DerivedSame
<1>4. /\ g[<<kind, i, j, d>>] = Derived(f, <<kind, i, j, d>>)
      /\ h[<<kind, i, j, d>>] = Derived(g, <<kind, i, j, d>>)
  BY <1>1
<1> HIDE DEF h
<1> QED
  BY <1>3, <1>4

LEMMA GrammarIs ==
  ASSUME OfTokens
  PROVE  \E f : Means(f) /\ Meaning = f[<<"value", 1, Size, 0>>]
<1> DEFINE N == 4 * Size + 4
           Stage(n) == \E f, g : g = [x \in Spans |-> Derived(f, x)] /\ Shorter(f, g, n)
           P == {n \in 0..N : Stage(n)}
           F == CHOOSE f : f = [x \in Spans |-> Derived(f, x)]
<1>1. Size \in Nat /\ N \in Nat
  BY SizeIs
<1>2. 0 \in P
  <2> DEFINE f == [x \in Spans |-> {}]
             g == [x \in Spans |-> Derived(f, x)]
  <2>1. Shorter(f, g, 0)
    <3> HIDE DEF f, g
    <3> SUFFICES ASSUME NEW kind \in {"value", "items", "members"}, NEW i \in 1..(Size + 1),
                        NEW j \in 0..Size, NEW d \in Nat, SpanRank(<<kind, i, j, d>>) < 0
                 PROVE  FALSE
      BY DEF Shorter
    <3>1. SpanRank(<<kind, i, j, d>>) \in Nat
      BY SpanIs
    <3> QED
      BY <3>1
  <2>2. Stage(0)
    BY <2>1
  <2> QED
    BY <1>1, <2>2
<1>3. ASSUME NEW n \in 1..N, n - 1 \in P PROVE n \in P
  <2>1. PICK f, g : g = [x \in Spans |-> Derived(f, x)] /\ Shorter(f, g, n - 1)
    BY <1>3
  <2>2. n - 1 \in Nat /\ (n - 1) + 1 = n
    BY <1>1
  <2>3. \E h : h = [x \in Spans |-> Derived(g, x)] /\ Shorter(g, h, n)
    BY <2>1, <2>2, GrammarStage
  <2>4. Stage(n)
    BY <2>3
  <2> QED
    BY <1>1, <2>4
<1> HIDE DEF P
<1>4. N \in P
  <2>1. \A n \in 0..N : n \in P
    BY <1>1, <1>2, <1>3, UpTo
  <2> QED
    BY <1>1, <2>1
<1>5. PICK f, g : g = [x \in Spans |-> Derived(f, x)] /\ Shorter(f, g, N)
  BY <1>4 DEF P
<1>6. ASSUME NEW x \in Spans PROVE g[x] = Derived(g, x)
  <2>1. PICK kind \in {"value", "items", "members"}, i \in 1..(Size + 1), j \in 0..Size, d \in Nat :
            x = <<kind, i, j, d>>
    BY SpanParts
  <2>2. SpanRank(x) \in Nat /\ SpanRank(x) < N
    BY <2>1, SpanIs
  <2>3. Shorter(f, g, SpanRank(x))
    <3> SUFFICES ASSUME NEW c \in {"value", "items", "members"}, NEW a \in 1..(Size + 1),
                        NEW b \in 0..Size, NEW e \in Nat, SpanRank(<<c, a, b, e>>) < SpanRank(x)
                 PROVE  f[<<c, a, b, e>>] = g[<<c, a, b, e>>]
      BY DEF Shorter
    <3>1. SpanRank(<<c, a, b, e>>) < N
      BY <1>1, SpanIs
    <3> QED
      BY <1>5, <3>1 DEF Shorter
  <2>4. Derived(f, x) = Derived(g, x)
    BY <2>1, <2>3, DerivedSame
  <2> QED
    BY <1>5, <2>4
<1>7. g = [x \in Spans |-> Derived(g, x)]
  BY <1>5, <1>6
<1>8. F = [x \in Spans |-> Derived(F, x)]
  BY <1>7
<1>9. Meaning = F[<<"value", 1, Size, 0>>]
  BY DEF Meaning, Size
<1> HIDE DEF F
<1>10. Means(F)
  <2>1. \A x \in Spans : F[x] = Derived(F, x)
    BY <1>8
  <2>2. \A kind \in {"value", "items", "members"}, i \in 1..(Size + 1), j \in 0..Size, d \in Nat :
            <<kind, i, j, d>> \in Spans
    BY SpanIs
  <2> QED
    BY <2>1, <2>2 DEF Means
<1> QED
  BY <1>9, <1>10

-----------------------------------------------------------------------------
(* A reader R and the grammar M agree: on a value from i, up to any token    *)
(* before the next one that counts; on items and members, up to the one      *)
(* before their bracket.                                                     *)

ValueAgrees(R, M, i, d) ==
    \A j \in 0..Size :
        /\ R[<<"value", i, d>>] = Failed => M[<<"value", i, j, d>>] = {}
        /\ \A v, n : R[<<"value", i, d>>] = Got(v, n) =>
              \A u : u \in M[<<"value", i, j, d>>] <=> u = v /\ n <= j + 1 /\ j < Skip(n)

ItemsAgree(R, M, i, d) ==
    \A j \in 0..(Size - 1) : text[j + 1] = Punct("endbracket") =>
        /\ R[<<"items", i, d>>] = Failed => M[<<"items", i, j, d>>] = {}
        /\ \A l, n : R[<<"items", i, d>>] = Got(l, n) =>
              \A u : u \in M[<<"items", i, j, d>>] <=> u = l /\ n = j + 2

LEMMA ResultParts ==
  ASSUME NEW r, NEW kind, NEW i, IsResult(r, kind, i)
  PROVE  r = Failed \/ \E v, n : r = Got(v, n) /\ n \in (i + 1)..(Size + 1) /\ Closes(kind, n)
  BY DEF IsResult

\* A token that counts is the next one if none is before it.
Stops(n, c) == (n <= c /\ c - 1 < Skip(n)) <=> Skip(n) = c

LEMMA StopsAt ==
  ASSUME OfTokens, NEW n \in 1..(Size + 1), NEW c \in 1..Size, ~Garbage(c)
  PROVE  Stops(n, c)
<1> DEFINE s == Skip(n)
<1>1. /\ Size \in Nat /\ s \in n..(Size + 1)
      /\ \A k \in n..(s - 1) : Garbage(k)
  BY SkipIs, SizeIs DEF IsNext, Blank
<1> HIDE DEF s
<1>2. n <= c /\ c - 1 < s => s = c
  <2> SUFFICES ASSUME n <= c, c - 1 < s, s # c PROVE FALSE
    OBVIOUS
  <2>1. c \in n..(s - 1)
    BY <1>1
  <2> QED
    BY <1>1, <2>1
<1>3. s = c => n <= c /\ c - 1 < s
  BY <1>1
<1> QED
  BY <1>2, <1>3 DEF s, Stops

LEMMA PunctCounts ==
  ASSUME NEW c, NEW p, text[c] = Punct(p) PROVE ~Garbage(c)
  BY SortsOfTokens DEF Garbage

LEMMA AtToken ==
  ASSUME NEW s, NEW p, OfTokens, s \in 1..Size, text[s] = Punct(p)
  PROVE  At(s, p)
  BY SizeIs DEF At, Size

LEMMA ItemsMatch ==
  ASSUME OfTokens, NEW R, NEW M, Reads(R), Means(M), NEW i \in 1..(Size + 1), NEW d \in Nat,
         ValueAgrees(R, M, i, d + 1), \A k \in (i + 1)..(Size + 1) : ItemsAgree(R, M, k, d)
  PROVE  ItemsAgree(R, M, i, d)
<1>1. Size \in Nat /\ d + 1 \in Nat
  BY SizeIs
<1> SUFFICES ASSUME NEW j \in 0..(Size - 1), text[j + 1] = Punct("endbracket")
             PROVE  /\ R[<<"items", i, d>>] = Failed => M[<<"items", i, j, d>>] = {}
                    /\ \A l, n : R[<<"items", i, d>>] = Got(l, n) =>
                          \A u : u \in M[<<"items", i, j, d>>] <=> u = l /\ n = j + 2
  BY DEF ItemsAgree
<1>2. j \in 0..Size /\ j + 1 \in 1..Size /\ \A c \in i..j : c \in 1..Size /\ c - 1 \in 0..Size
  BY <1>1
<1> DEFINE t == R[<<"value", i, d + 1>>]
           r0 == R[<<"items", i, d>>]
           MI == M[<<"items", i, j, d>>]
<1>3. r0 = ParseItems(R, i, d)
  <2>1. <<"items", i, d>>[1] = "items" /\ <<"items", i, d>>[2] = i /\ <<"items", i, d>>[3] = d
    OBVIOUS
  <2>2. r0 = Yields(R, <<"items", i, d>>)
    BY DEF Reads
  <2> QED
    BY <2>1, <2>2 DEF Yields
<1>4. \A u : u \in MI <=> IsItemList(M, i, j, d, u)
  <2> DEFINE x == <<"items", i, j, d>>
  <2>1. x[1] = "items" /\ x[2] = i /\ x[3] = j /\ x[4] = d
    OBVIOUS
  <2>2. MI = Derived(M, x)
    BY <1>2 DEF Means
  <2>3. MI = ItemLists(M, i, j, d)
    BY <2>1, <2>2 DEF Derived
  <2> QED
    BY <2>3, ItemListsAre
<1>5. t = Failed \/ \E v, n : t = Got(v, n) /\ n \in (i + 1)..(Size + 1)
  <2>1. IsResult(t, "value", i)
    BY <1>1 DEF Reads
  <2> QED
    BY <2>1, ResultParts
<1> HIDE DEF MI, r0
<1>6. CASE t = Failed
  <2>1. r0 = Failed
    BY <1>3, <1>6, ItemsFail
  <2>2. \A k \in 0..Size : M[<<"value", i, k, d + 1>>] = {}
    BY <1>6 DEF ValueAgrees
  <2>3. \A u : ~IsItemList(M, i, j, d, u)
    BY <1>2, <2>2 DEF IsItemList
  <2> QED
    BY <1>4, <2>1, <2>3, GotNotFailed DEF r0, MI
<1>7. ASSUME NEW v, NEW n, t = Got(v, n), n \in (i + 1)..(Size + 1)
      PROVE  /\ r0 = Failed => MI = {}
             /\ \A l, m : r0 = Got(l, m) => \A u : u \in MI <=> u = l /\ m = j + 2
  <2> DEFINE s == Skip(n)
  <2>1. n \in 1..(Size + 1)
    BY <1>1, <1>7
  <2>2. s \in n..(Size + 1) /\ s \in 1..(Size + 1)
    BY <2>1, SkipRange
  <2>3. ASSUME NEW c \in 1..Size, NEW p, text[c] = Punct(p), NEW u
        PROVE  u \in M[<<"value", i, c - 1, d + 1>>] <=> u = v /\ s = c
    <3>1. Stops(n, c)
      BY <2>1, <2>3, StopsAt, PunctCounts
    <3>2. c - 1 \in 0..Size /\ (c - 1) + 1 = c
      BY <1>1
    <3>3. u \in M[<<"value", i, c - 1, d + 1>>] <=> u = v /\ n <= (c - 1) + 1 /\ c - 1 < s
      BY <1>7, <3>2 DEF ValueAgrees
    <3> QED
      BY <3>1, <3>2, <3>3 DEF Stops
  <2> HIDE DEF s
  <2>4. ASSUME NEW u PROVE u \in M[<<"value", i, j, d + 1>>] <=> u = v /\ s = j + 1
    <3>1. (j + 1) - 1 = j
      BY <1>2
    <3> QED
      BY <1>2, <2>3, <3>1
  <2>5. ASSUME NEW u
        PROVE  u \in MI <=> \/ u = <<v>> /\ s = j + 1
                            \/ /\ s \in i..j /\ text[s] = Punct("comma")
                               /\ \E r \in M[<<"items", s + 1, j, d>>] : u = <<v>> \o r
    <3>1. (\E w \in M[<<"value", i, j, d + 1>>] : u = <<w>>) <=> u = <<v>> /\ s = j + 1
      BY <2>4
    <3>2. ASSUME NEW c \in i..j, text[c] = Punct("comma")
          PROVE  (\E w \in M[<<"value", i, c - 1, d + 1>>], r \in M[<<"items", c + 1, j, d>>] :
                    u = <<w>> \o r)
                 <=> s = c /\ \E r \in M[<<"items", s + 1, j, d>>] : u = <<v>> \o r
      <4>1. \A w : w \in M[<<"value", i, c - 1, d + 1>>] <=> w = v /\ s = c
        BY <1>2, <2>3, <3>2
      <4> QED
        BY <4>1
    <3>3. IsItemList(M, i, j, d, u) <=>
            \/ u = <<v>> /\ s = j + 1
            \/ /\ s \in i..j /\ text[s] = Punct("comma")
               /\ \E r \in M[<<"items", s + 1, j, d>>] : u = <<v>> \o r
      BY <3>1, <3>2 DEF IsItemList
    <3> QED
      BY <1>4, <3>3
  <2>6. ASSUME NEW p, At(s, p) PROVE s \in 1..Size /\ text[s] = Punct(p)
    BY <2>2, <2>6, AtRange
  <2>7. CASE At(s, "endbracket")
    <3>1. r0 = Got(<<v>>, s + 1)
      BY <1>3, <1>7, <2>7, ItemsEnd DEF s
    <3>2. text[s] # Punct("comma")
      BY <2>6, <2>7, SamePunct
    <3>3. \A u : u \in MI <=> u = <<v>> /\ s = j + 1
      BY <2>5, <3>2
    <3>4. s + 1 = j + 2 <=> s = j + 1
      BY <1>2, <2>2
    <3>5. r0 # Failed /\ \A l, m : r0 = Got(l, m) => l = <<v>> /\ m = s + 1
      BY <3>1, GotNotFailed, GotSame
    <3> QED
      BY <3>3, <3>4, <3>5
  <2>8. CASE ~At(s, "endbracket") /\ At(s, "comma")
    <3> DEFINE r == R[<<"items", s + 1, d>>]
    <3>1. s \in 1..Size /\ text[s] = Punct("comma")
      BY <2>6, <2>8
    <3>2. s + 1 \in (i + 1)..(Size + 1) /\ s + 1 \in 1..(Size + 1) /\ s >= i
      BY <1>1, <1>7, <2>2, <3>1
    <3>3. s # j + 1
      BY <3>1, SamePunct
    <3>4. ItemsAgree(R, M, s + 1, d)
      BY <3>2
    <3>5. r = Failed \/ \E l, m : r = Got(l, m) /\ m \in (s + 1 + 1)..(Size + 1)
      <4>1. IsResult(r, "items", s + 1)
        BY <3>2 DEF Reads
      <4> QED
        BY <4>1, ResultParts
    <3>6. CASE r = Failed
      <4>1. r0 = Failed
        BY <1>3, <1>7, <2>8, <3>6, ItemsGoOn DEF s
      <4>2. M[<<"items", s + 1, j, d>>] = {}
        BY <3>4, <3>6 DEF ItemsAgree
      <4>3. MI = {}
        BY <2>5, <3>3, <4>2
      <4> QED
        BY <4>1, <4>3, GotNotFailed
    <3>7. ASSUME NEW l, NEW m, r = Got(l, m), m \in (s + 1 + 1)..(Size + 1)
          PROVE  /\ r0 = Failed => MI = {}
                 /\ \A l2, m2 : r0 = Got(l2, m2) => \A u : u \in MI <=> u = l2 /\ m2 = j + 2
      <4>1. r0 = Got(<<v>> \o l, m)
        BY <1>3, <1>7, <2>8, <3>7, ItemsGoOn DEF s
      <4>2. \A u : u \in M[<<"items", s + 1, j, d>>] <=> u = l /\ m = j + 2
        BY <3>4, <3>7 DEF ItemsAgree
      <4>3. m = j + 2 => s \in i..j
        BY <1>1, <1>2, <3>1, <3>2, <3>7
      <4>4. ASSUME NEW u PROVE u \in MI <=> u = <<v>> \o l /\ m = j + 2
        <5>1. (\E x \in M[<<"items", s + 1, j, d>>] : u = <<v>> \o x) <=> u = <<v>> \o l /\ m = j + 2
          BY <4>2
        <5>2. u \in MI <=> /\ s \in i..j
                          /\ \E x \in M[<<"items", s + 1, j, d>>] : u = <<v>> \o x
          BY <2>5, <3>1, <3>3
        <5> QED
          BY <4>3, <5>1, <5>2
      <4> DEFINE w == <<v>> \o l
      <4> HIDE DEF w
      <4>5. r0 # Failed /\ \A l2, m2 : r0 = Got(l2, m2) => l2 = w /\ m2 = m
        BY <4>1, GotNotFailed, GotSame DEF w
      <4>6. \A u : u \in MI <=> u = w /\ m = j + 2
        BY <4>4 DEF w
      <4> QED
        BY <4>5, <4>6
    <3> QED
      BY <3>5, <3>6, <3>7
  <2>9. CASE ~At(s, "endbracket") /\ ~At(s, "comma")
    <3>1. r0 = Failed
      BY <1>3, <1>7, <2>9, ItemsStop DEF s
    <3>2. s # j + 1
      BY <1>2, <2>9, AtToken
    <3>3. ~(s \in i..j /\ text[s] = Punct("comma"))
      <4>1. s \in i..j => s \in 1..Size
        BY <1>2
      <4> QED
        BY <2>9, <4>1, AtToken
    <3>4. MI = {}
      BY <2>5, <3>2, <3>3
    <3> QED
      BY <3>1, <3>4, GotNotFailed
  <2> QED
    BY <2>7, <2>8, <2>9
<1> QED
  BY <1>5, <1>6, <1>7 DEF r0, MI

-----------------------------------------------------------------------------
(* Members with the same key. *)

IsList(l) == \E S : l \in Seq(S)

LEMMA ListWith ==
  ASSUME NEW m, NEW r, IsList(r)
  PROVE  /\ IsList(<<m>> \o r) /\ Len(r) \in Nat /\ DOMAIN r = 1..Len(r)
         /\ Len(<<m>> \o r) = Len(r) + 1 /\ DOMAIN (<<m>> \o r) = 1..(Len(r) + 1)
         /\ (<<m>> \o r)[1] = m
         /\ \A i \in 1..Len(r) : (<<m>> \o r)[i + 1] = r[i]
<1>1. PICK S : r \in Seq(S)
  BY DEF IsList
<1> DEFINE C == S \cup {m}
           w == <<m>> \o r
<1>2. <<m>> \in Seq(C) /\ r \in Seq(C)
  BY <1>1
<1> HIDE DEF C
<1>3. /\ w \in Seq(C) /\ Len(r) \in Nat /\ Len(w) = 1 + Len(r)
      /\ w[1] = m /\ \A i \in 1..Len(r) : w[1 + i] = r[i]
  BY <1>2, Joined
<1> HIDE DEF w
<1>4. DOMAIN r = 1..Len(r) /\ DOMAIN w = 1..Len(w)
  BY <1>2, <1>3
<1>5. \A i \in 1..Len(r) : w[i + 1] = r[i]
  <2>1. \A i \in 1..Len(r) : 1 + i = i + 1
    BY <1>3
  <2> QED
    BY <1>3, <2>1
<1>6. Len(w) = Len(r) + 1
  BY <1>3
<1>7. IsList(w)
  BY <1>3 DEF IsList
<1> QED
  BY <1>3, <1>4, <1>5, <1>6, <1>7 DEF w

LEMMA OneIsList == ASSUME NEW m PROVE IsList(<<m>>)
<1>1. <<m>> \in Seq({m})
  OBVIOUS
<1> QED
  BY <1>1 DEF IsList

\* The last member with a key.
IsLast(l, i) == i \in DOMAIN l /\ \A j \in DOMAIN l : l[j].key = l[i].key => j <= i

KeysOf(l) == {l[i].key : i \in DOMAIN l}

LEMMA LastIs ==
  ASSUME NEW l, IsList(l), NEW k \in KeysOf(l)
  PROVE  \E i : IsLast(l, i) /\ l[i].key = k
<1>1. Len(l) \in Nat /\ DOMAIN l = 1..Len(l)
  BY DEF IsList
<1> DEFINE n == Len(l)
           T == {j \in 0..(n - 1) : l[n - j].key = k}
<1> HIDE DEF n
<1>2. n \in Nat /\ DOMAIN l = 1..n
  BY <1>1 DEF n
<1>3. PICK i0 \in 1..n : l[i0].key = k
  BY <1>2 DEF KeysOf
<1>4. n - i0 \in T
  <2>1. n - i0 \in 0..(n - 1) /\ n - (n - i0) = i0
    BY <1>2
  <2> QED
    BY <1>3, <2>1
<1>5. T \subseteq Nat
  OBVIOUS
<1> HIDE DEF T
<1>6. PICK j \in T : \A x \in T : j <= x
  BY <1>4, <1>5, LeastOf
<1>7. j \in 0..(n - 1) /\ l[n - j].key = k
  BY <1>6 DEF T
<1>8. n - j \in 1..n
  BY <1>2, <1>7
<1>9. ASSUME NEW x \in 1..n, l[x].key = k PROVE x <= n - j
  <2>1. n - x \in 0..(n - 1) /\ n - (n - x) = x
    BY <1>2
  <2>2. n - x \in T
    BY <1>9, <2>1 DEF T
  <2>3. j <= n - x
    BY <1>6, <2>2
  <2> QED
    BY <1>2, <1>7, <2>3
<1>10. IsLast(l, n - j)
  BY <1>2, <1>7, <1>8, <1>9 DEF IsLast
<1> QED
  BY <1>7, <1>10

LEMMA MergedIs ==
  ASSUME NEW l, IsList(l)
  PROVE  /\ DOMAIN Merged(l) = KeysOf(l)
         /\ Merged(l) = [k \in KeysOf(l) |-> Merged(l)[k]]
         /\ \A i : IsLast(l, i) => l[i].key \in KeysOf(l) /\ Merged(l)[l[i].key] = l[i].value
<1> DEFINE With(k) == {i \in DOMAIN l : l[i].key = k}
           LastWith(k) == CHOOSE i \in With(k) : \A j \in With(k) : j <= i
<1>1. Len(l) \in Nat /\ DOMAIN l = 1..Len(l)
  BY DEF IsList
<1>2. Merged(l) = [k \in KeysOf(l) |-> l[LastWith(k)].value]
  BY DEF Merged, KeysOf
<1>3. ASSUME NEW i, IsLast(l, i) PROVE LastWith(l[i].key) = i
  <2> DEFINE k == l[i].key
             Good(x) == x \in With(k) /\ \A j \in With(k) : j <= x
  <2>1. i \in 1..Len(l) /\ \A j \in 1..Len(l) : l[j].key = k => j <= i
    BY <1>1, <1>3 DEF IsLast
  <2>2. Good(i)
    BY <1>1, <2>1
  <2>3. LastWith(k) = CHOOSE x : Good(x)
    OBVIOUS
  <2>4. Good(LastWith(k))
    <3> HIDE DEF Good, LastWith
    <3> QED
      BY <2>2, <2>3
  <2> HIDE DEF LastWith
  <2>5. LastWith(k) \in 1..Len(l) /\ LastWith(k) <= i /\ i <= LastWith(k)
    BY <1>1, <2>1, <2>2, <2>4
  <2> HIDE DEF k
  <2>6. LastWith(k) = i
    BY <1>1, <2>1, <2>5
  <2> QED
    BY <2>6 DEF k
<1> HIDE DEF LastWith
<1>4. ASSUME NEW i, IsLast(l, i) PROVE l[i].key \in KeysOf(l)
  BY <1>4 DEF IsLast, KeysOf
<1> QED
  BY <1>2, <1>3, <1>4

\* The one in front counts if no other has its key.
LEMMA MergedMore ==
  ASSUME NEW m, NEW r, IsList(r)
  PROVE  Merged(<<m>> \o r) = WithFirst(m.key, m.value, Merged(r))
<1> DEFINE w == <<m>> \o r
           n == Len(r)
           K == m.key
           f == Merged(r)
           g == Merged(w)
           h == WithFirst(K, m.value, f)
<1>1. /\ IsList(w) /\ n \in Nat /\ DOMAIN r = 1..n /\ DOMAIN w = 1..(n + 1)
      /\ w[1] = m /\ \A i \in 1..n : w[i + 1] = r[i]
  BY ListWith
<1> HIDE DEF w, n
<1>2. /\ DOMAIN f = KeysOf(r)
      /\ \A i : IsLast(r, i) => r[i].key \in KeysOf(r) /\ f[r[i].key] = r[i].value
  BY MergedIs
<1>3. /\ DOMAIN g = KeysOf(w) /\ g = [k \in KeysOf(w) |-> g[k]]
      /\ \A i : IsLast(w, i) => w[i].key \in KeysOf(w) /\ g[w[i].key] = w[i].value
  BY <1>1, MergedIs
<1> HIDE DEF f, g
<1>4. KeysOf(w) = KeysOf(r) \cup {K}
  <2>1. ASSUME NEW k \in KeysOf(w) PROVE k \in KeysOf(r) \cup {K}
    <3>1. PICK i \in 1..(n + 1) : k = w[i].key
      BY <1>1 DEF KeysOf
    <3>2. CASE i = 1
      BY <1>1, <3>1, <3>2
    <3>3. CASE i # 1
      <4>1. i - 1 \in 1..n /\ (i - 1) + 1 = i
        BY <1>1, <3>3
      <4>2. w[i] = r[i - 1]
        BY <1>1, <4>1
      <4> QED
        BY <1>1, <3>1, <4>1, <4>2 DEF KeysOf
    <3> QED
      BY <3>2, <3>3
  <2>2. ASSUME NEW k \in KeysOf(r) PROVE k \in KeysOf(w)
    <3>1. PICK i \in 1..n : k = r[i].key
      BY <1>1 DEF KeysOf
    <3>2. i + 1 \in 1..(n + 1) /\ w[i + 1] = r[i]
      BY <1>1
    <3> QED
      BY <1>1, <3>1, <3>2 DEF KeysOf
  <2>3. K \in KeysOf(w)
    <3>1. 1 \in 1..(n + 1)
      BY <1>1
    <3> QED
      BY <1>1, <3>1 DEF KeysOf
  <2> QED
    BY <2>1, <2>2, <2>3
<1>5. h = [k \in KeysOf(r) \cup {K} |-> IF k \in KeysOf(r) THEN f[k] ELSE m.value]
  BY <1>2 DEF WithFirst
<1>6. ASSUME NEW k \in KeysOf(r) PROVE g[k] = f[k]
  <2>1. PICK i : IsLast(r, i) /\ r[i].key = k
    BY LastIs
  <2>2. i \in 1..n /\ \A j \in 1..n : r[j].key = k => j <= i
    BY <1>1, <2>1 DEF IsLast
  <2>3. w[i + 1] = r[i] /\ i + 1 \in 1..(n + 1)
    BY <1>1, <2>2
  <2>4. ASSUME NEW j \in 1..(n + 1), w[j].key = k PROVE j <= i + 1
    <3>1. CASE j = 1
      BY <2>2, <3>1
    <3>2. CASE j # 1
      <4>1. j - 1 \in 1..n /\ (j - 1) + 1 = j
        BY <1>1, <3>2
      <4>2. w[j] = r[j - 1]
        BY <1>1, <4>1
      <4>3. j - 1 <= i
        BY <2>2, <2>4, <4>1, <4>2
      <4> QED
        BY <1>1, <2>2, <4>3
    <3> QED
      BY <3>1, <3>2
  <2>5. IsLast(w, i + 1)
    BY <1>1, <2>1, <2>3, <2>4 DEF IsLast
  <2>6. g[k] = w[i + 1].value
    BY <1>3, <2>1, <2>3, <2>5
  <2>7. f[k] = r[i].value
    BY <1>2, <2>1
  <2> QED
    BY <2>3, <2>6, <2>7
<1>7. ASSUME K \notin KeysOf(r) PROVE g[K] = m.value
  <2>1. ASSUME NEW j \in 1..(n + 1), w[j].key = K PROVE j <= 1
    <3> SUFFICES ASSUME j # 1 PROVE FALSE
      OBVIOUS
    <3>1. j - 1 \in 1..n /\ (j - 1) + 1 = j
      BY <1>1
    <3>2. w[j] = r[j - 1]
      BY <1>1, <3>1
    <3> QED
      BY <1>1, <1>7, <2>1, <3>1, <3>2 DEF KeysOf
  <2>2. 1 \in 1..(n + 1)
    BY <1>1
  <2>3. IsLast(w, 1)
    BY <1>1, <2>1, <2>2 DEF IsLast
  <2> QED
    BY <1>1, <1>3, <2>3
<1>8. g = h
  <2> HIDE DEF h, K
  <2>1. g = [k \in KeysOf(r) \cup {K} |-> g[k]]
    BY <1>3, <1>4
  <2>2. \A k \in KeysOf(r) \cup {K} : g[k] = IF k \in KeysOf(r) THEN f[k] ELSE m.value
    BY <1>6, <1>7
  <2> QED
    BY <1>5, <2>1, <2>2
<1> QED
  BY <1>8 DEF g, h, f, w

LEMMA MergedOne ==
  ASSUME NEW m PROVE Merged(<<m>>) = Sole(m.key, m.value)
<1> DEFINE l == <<m>>
           K == m.key
<1>1. l \in Seq({m}) /\ DOMAIN l = {1} /\ l[1] = m
  OBVIOUS
<1> HIDE DEF l
<1>2. IsList(l) /\ KeysOf(l) = {K}
  BY <1>1 DEF IsList, KeysOf
<1>3. IsLast(l, 1)
  BY <1>1 DEF IsLast
<1>4. Merged(l) = [k \in {K} |-> Merged(l)[k]] /\ Merged(l)[K] = m.value
  BY <1>1, <1>2, <1>3, MergedIs
<1> HIDE DEF K
<1>5. Merged(l) = [k \in {K} |-> m.value]
  BY <1>4
<1>6. Sole(K, m.value) = [k \in {K} |-> m.value]
  BY DEF Sole
<1> QED
  BY <1>5, <1>6 DEF K, l

MembersAgree(R, M, i, d) ==
    \A j \in 0..(Size - 1) : text[j + 1] = Punct("endbrace") =>
        /\ \A u \in M[<<"members", i, j, d>>] : IsList(u)
        /\ R[<<"members", i, d>>] = Failed => M[<<"members", i, j, d>>] = {}
        /\ \A l, n : R[<<"members", i, d>>] = Got(l, n) =>
              \A x : (\E u \in M[<<"members", i, j, d>>] : x = Merged(u)) <=> x = l /\ n = j + 2

\* The key and the colon are where the parser finds them.
KeyUpTo(i, c) == KeyAt(i) /\ Skip(Skip(i) + 1) < c

LEMMA KeyIs ==
  ASSUME OfTokens, NEW i \in 1..(Size + 1), NEW c \in 1..Size, NEW k, NEW q
  PROVE  KeyIn(i, c - 1, k, q) <=> KeyUpTo(i, c) /\ k = Skip(i) /\ q = Skip(Skip(i) + 1)
<1>1. Size \in Nat
  BY SizeIs
<1>2. ASSUME KeyIn(i, c - 1, k, q)
      PROVE  KeyUpTo(i, c) /\ k = Skip(i) /\ q = Skip(Skip(i) + 1)
  <2>1. /\ k \in i..(c - 1) /\ q \in i..(c - 1) /\ k < q
        /\ Blank(i, k - 1) /\ Blank(k + 1, q - 1)
        /\ "str" \in DOMAIN text[k] /\ text[q] = Punct("colon")
    BY <1>2 DEF KeyIn
  <2>2. k \in 1..Size /\ q \in 1..Size /\ k + 1 \in 1..(Size + 1) /\ k \in i..(Size + 1)
        /\ q \in (k + 1)..(Size + 1) /\ q < c
    BY <1>1, <2>1
  <2>3. ~Garbage(k)
    <3>1. text[k] \in AllTokens
      BY <2>2, SizeIs
    <3> QED
      BY <2>1, <3>1, StringToken DEF Garbage
  <2>4. ~Garbage(q)
    BY <2>1, PunctCounts
  <2>5. k = Skip(i)
    BY <2>1, <2>2, <2>3, NextIs DEF IsNext
  <2>6. q = Skip(k + 1)
    BY <2>1, <2>2, <2>4, NextIs DEF IsNext
  <2>7. At(q, "colon")
    BY <2>1, <2>2, AtToken
  <2>8. k <= Size
    BY <2>2
  <2> QED
    BY <2>1, <2>2, <2>5, <2>6, <2>7, <2>8 DEF KeyUpTo, KeyAt
<1>3. ASSUME KeyUpTo(i, c), k = Skip(i), q = Skip(Skip(i) + 1)
      PROVE  KeyIn(i, c - 1, k, q)
  <2>1. KeyAt(i) /\ q < c
    BY <1>3 DEF KeyUpTo
  <2>2. k \in i..Size /\ q \in (k + 1)..Size /\ k + 1 \in 1..(Size + 1)
    BY <1>3, <2>1, ValueAtIs
  <2>3. IsNext(i, k) /\ IsNext(k + 1, q)
    BY <1>3, <2>2, SkipIs
  <2>4. Blank(i, k - 1) /\ Blank(k + 1, q - 1)
    BY <2>3 DEF IsNext
  <2>5. "str" \in DOMAIN text[k] /\ At(q, "colon")
    BY <1>3, <2>1 DEF KeyAt
  <2>6. text[q] = Punct("colon")
    BY <2>5 DEF At
  <2>7. k \in i..(c - 1) /\ q \in i..(c - 1) /\ k < q
    BY <1>1, <2>1, <2>2
  <2> QED
    BY <2>4, <2>5, <2>6, <2>7 DEF KeyIn
<1> QED
  BY <1>2, <1>3

MemberOf(i, v) == [key |-> KeyOf(i), value |-> v]

IsMemberAt(M, i, c, d, m) ==
    KeyUpTo(i, c) /\ \E v \in M[<<"value", ValueAt(i), c - 1, d + 1>>] : m = MemberOf(i, v)

LEMMA MemberIs ==
  ASSUME OfTokens, NEW M, NEW i \in 1..(Size + 1), NEW c \in 1..Size, NEW d, NEW m
  PROVE  IsMember(M, i, c - 1, d, m) <=> IsMemberAt(M, i, c, d, m)
<1> DEFINE k0 == Skip(i)
           q0 == Skip(k0 + 1)
<1>1. IsMember(M, i, c - 1, d, m) <=>
        \E k, q : /\ KeyUpTo(i, c) /\ k = k0 /\ q = q0
                  /\ \E v \in M[<<"value", q + 1, c - 1, d + 1>>] :
                        m = [key |-> Spelling(text[k].str), value |-> v]
  BY KeyIs DEF IsMember
<1>2. IsMember(M, i, c - 1, d, m) <=>
        /\ KeyUpTo(i, c)
        /\ \E v \in M[<<"value", q0 + 1, c - 1, d + 1>>] :
              m = [key |-> Spelling(text[k0].str), value |-> v]
  BY <1>1
<1>3. ValueAt(i) = q0 + 1
  BY DEF ValueAt
<1>4. KeyUpTo(i, c) => KeyOf(i) = Spelling(text[k0].str)
  <2> SUFFICES ASSUME KeyAt(i) PROVE KeyOf(i) = Spelling(text[k0].str)
    BY DEF KeyUpTo
  <2>1. k0 \in i..Size /\ "str" \in DOMAIN text[k0]
    BY ValueAtIs DEF KeyAt
  <2> HIDE DEF k0
  <2>2. k0 \in 1..Size
    BY <2>1, SizeIs
  <2>3. text[k0] \in AllTokens
    BY <2>2, SizeIs
  <2>4. ParseString(text[k0].str) = Spelling(text[k0].str)
    BY <2>1, <2>3, StringToken
  <2> QED
    BY <2>4 DEF KeyOf, k0
<1> HIDE DEF k0, q0
<1> QED
  BY <1>2, <1>3, <1>4 DEF MemberOf, IsMemberAt

LEMMA MembersMatch ==
  ASSUME OfTokens, NEW R, NEW M, Reads(R), Means(M), NEW i \in 1..(Size + 1), NEW d \in Nat,
         \A k \in (i + 1)..(Size + 1) : ValueAgrees(R, M, k, d + 1),
         \A k \in (i + 1)..(Size + 1) : MembersAgree(R, M, k, d)
  PROVE  MembersAgree(R, M, i, d)
<1>1. Size \in Nat /\ d + 1 \in Nat /\ Skip(i) \in Nat
  BY SizeIs, SkipRange
<1>10. ASSUME NEW c \in 1..Size, NEW m
       PROVE  IsMember(M, i, c - 1, d, m) <=> IsMemberAt(M, i, c, d, m)
  BY MemberIs
<1> DEFINE w == ValueAt(i)
           t == R[<<"value", w, d + 1>>]
           r0 == R[<<"members", i, d>>]
<1>2. r0 = ParseMembers(R, i, d)
  <2>1. <<"members", i, d>>[1] = "members" /\ <<"members", i, d>>[2] = i /\ <<"members", i, d>>[3] = d
    OBVIOUS
  <2>2. r0 = Yields(R, <<"members", i, d>>)
    BY DEF Reads
  <2> QED
    BY <2>1, <2>2 DEF Yields
<1> SUFFICES ASSUME NEW j \in 0..(Size - 1), text[j + 1] = Punct("endbrace")
             PROVE  /\ \A u \in M[<<"members", i, j, d>>] : IsList(u)
                    /\ r0 = Failed => M[<<"members", i, j, d>>] = {}
                    /\ \A l, n : r0 = Got(l, n) =>
                          \A x : (\E u \in M[<<"members", i, j, d>>] : x = Merged(u))
                                    <=> x = l /\ n = j + 2
  BY DEF MembersAgree
<1>3. j \in 0..Size /\ j + 1 \in 1..Size /\ (j + 1) - 1 = j /\ \A c \in i..j : c \in 1..Size
  BY <1>1
<1> DEFINE MM == M[<<"members", i, j, d>>]
<1>4. \A u : u \in MM <=> IsMemberList(M, i, j, d, u)
  <2> DEFINE x == <<"members", i, j, d>>
  <2>1. x[1] = "members" /\ x[2] = i /\ x[3] = j /\ x[4] = d
    OBVIOUS
  <2>2. MM = Derived(M, x)
    BY <1>3 DEF Means
  <2>3. MM = MemberLists(M, i, j, d)
    BY <2>1, <2>2 DEF Derived
  <2> QED
    BY <2>3, MemberListsAre
<1> HIDE DEF MM, r0
<1>5. ASSUME r0 = Failed, \A c \in 1..Size : \A m : text[c] = Punct("comma") \/ c = j + 1 =>
                              ~IsMember(M, i, c - 1, d, m)
      PROVE  /\ \A u \in MM : IsList(u)
             /\ r0 = Failed => MM = {}
             /\ \A l, n : r0 = Got(l, n) =>
                   \A x : (\E u \in MM : x = Merged(u)) <=> x = l /\ n = j + 2
  <2>1. \A m : ~IsMember(M, i, j, d, m)
    BY <1>3, <1>5
  <2>2. \A c \in i..j : text[c] = Punct("comma") => \A m : ~IsMember(M, i, c - 1, d, m)
    BY <1>3, <1>5
  <2>3. \A u : ~IsMemberList(M, i, j, d, u)
    BY <2>1, <2>2 DEF IsMemberList
  <2> QED
    BY <1>4, <1>5, <2>3, GotNotFailed
<1>6. CASE ~KeyAt(i)
  <2>1. r0 = Failed
    BY <1>1, <1>2, <1>6, MembersFail
  <2>2. ASSUME NEW c \in 1..Size, NEW m PROVE ~IsMember(M, i, c - 1, d, m)
    BY <1>6, <1>10 DEF KeyUpTo, IsMemberAt
  <2> QED
    BY <1>5, <2>1, <2>2 DEF MM
<1>7. ASSUME KeyAt(i), t = Failed, w \in (i + 1)..(Size + 1)
      PROVE  /\ \A u \in MM : IsList(u)
             /\ r0 = Failed => MM = {}
             /\ \A l, n : r0 = Got(l, n) =>
                   \A x : (\E u \in MM : x = Merged(u)) <=> x = l /\ n = j + 2
  <2>1. r0 = Failed
    BY <1>1, <1>2, <1>7, MembersFail
  <2>2. ASSUME NEW c \in 1..Size, NEW m PROVE ~IsMember(M, i, c - 1, d, m)
    <3>1. c - 1 \in 0..Size
      BY <1>1
    <3>2. M[<<"value", w, c - 1, d + 1>>] = {}
      BY <1>7, <3>1 DEF ValueAgrees
    <3> QED
      BY <3>2, <1>10 DEF IsMemberAt
  <2> QED
    BY <1>5, <2>1, <2>2
<1>8. ASSUME KeyAt(i), w \in (i + 1)..(Size + 1),
             NEW v, NEW n, t = Got(v, n), n \in (w + 1)..(Size + 1)
      PROVE  /\ \A u \in MM : IsList(u)
             /\ r0 = Failed => MM = {}
             /\ \A l, m : r0 = Got(l, m) =>
                   \A x : (\E u \in MM : x = Merged(u)) <=> x = l /\ m = j + 2
  <2> DEFINE s == Skip(n)
             one == MemberOf(i, v)
             K == KeyOf(i)
  <2>1. n \in 1..(Size + 1) /\ n > i /\ w < n
    <3> HIDE DEF w
    <3> QED
      BY <1>1, <1>8
  <2>2. s \in n..(Size + 1) /\ s \in 1..(Size + 1)
    BY <2>1, SkipRange
  <2>3. one.key = K /\ one.value = v
    BY DEF MemberOf
  <2>4. ASSUME NEW c \in 1..Size, NEW p, text[c] = Punct(p), NEW m
        PROVE  IsMember(M, i, c - 1, d, m) <=> m = one /\ s = c
    <3>1. Stops(n, c)
      BY <2>1, <2>4, StopsAt, PunctCounts
    <3>2. c - 1 \in 0..Size /\ (c - 1) + 1 = c
      BY <1>1
    <3>3. \A u : u \in M[<<"value", w, c - 1, d + 1>>] <=> u = v /\ n <= (c - 1) + 1 /\ c - 1 < s
      BY <1>8, <3>2 DEF ValueAgrees
    <3>4. \A u : u \in M[<<"value", w, c - 1, d + 1>>] <=> u = v /\ s = c
      BY <3>1, <3>2, <3>3 DEF Stops
    <3>5. s = c => KeyUpTo(i, c)
      <4>1. ValueAt(i) = Skip(Skip(i) + 1) + 1 /\ Skip(Skip(i) + 1) \in Int
        BY <1>8, ValueAtIs DEF ValueAt
      <4> DEFINE q == Skip(Skip(i) + 1)
      <4> HIDE DEF q
      <4>2. w = q + 1 /\ q \in Int
        BY <4>1 DEF q
      <4> HIDE DEF w, s
      <4>3. s = c => q < c
        BY <1>1, <2>1, <2>2, <4>2
      <4> QED
        BY <1>8, <4>3 DEF KeyUpTo, q
    <3>6. IsMember(M, i, c - 1, d, m) <=>
            KeyUpTo(i, c) /\ \E u \in M[<<"value", w, c - 1, d + 1>>] : m = MemberOf(i, u)
      BY <1>10 DEF IsMemberAt
    <3> DEFINE MV == M[<<"value", w, c - 1, d + 1>>]
    <3> HIDE DEF MV, s
    <3>7. IsMember(M, i, c - 1, d, m) <=> KeyUpTo(i, c) /\ s = c /\ m = MemberOf(i, v)
      BY <3>4, <3>6 DEF MV
    <3> QED
      BY <3>5, <3>7
  <2> HIDE DEF s, one
  <2>5. ASSUME NEW m PROVE IsMember(M, i, j, d, m) <=> m = one /\ s = j + 1
    BY <1>3, <2>4
  <2>6. ASSUME NEW u
        PROVE  u \in MM <=> \/ u = <<one>> /\ s = j + 1
                            \/ /\ s \in i..j /\ text[s] = Punct("comma")
                               /\ \E r \in M[<<"members", s + 1, j, d>>] : u = <<one>> \o r
    <3>1. (\E m : IsMember(M, i, j, d, m) /\ u = <<m>>) <=> u = <<one>> /\ s = j + 1
      BY <2>5
    <3>2. ASSUME NEW c \in i..j, text[c] = Punct("comma")
          PROVE  (\E m : /\ IsMember(M, i, c - 1, d, m)
                         /\ \E r \in M[<<"members", c + 1, j, d>>] : u = <<m>> \o r)
                 <=> s = c /\ \E r \in M[<<"members", s + 1, j, d>>] : u = <<one>> \o r
      <4>1. \A m : IsMember(M, i, c - 1, d, m) <=> m = one /\ s = c
        BY <1>3, <2>4, <3>2
      <4> QED
        BY <4>1
    <3>3. IsMemberList(M, i, j, d, u) <=>
            \/ u = <<one>> /\ s = j + 1
            \/ /\ s \in i..j /\ text[s] = Punct("comma")
               /\ \E r \in M[<<"members", s + 1, j, d>>] : u = <<one>> \o r
      BY <3>1, <3>2 DEF IsMemberList
    <3> QED
      BY <1>4, <3>3
  <2>7. ASSUME NEW p, At(s, p) PROVE s \in 1..Size /\ text[s] = Punct(p)
    BY <2>2, <2>7, AtRange
  <2>8. CASE At(s, "endbrace")
    <3>1. r0 = Got(Sole(K, v), s + 1)
      BY <1>1, <1>2, <1>8, <2>8, MembersEnd DEF s
    <3>2. text[s] # Punct("comma")
      BY <2>7, <2>8, SamePunct
    <3>3. \A u : u \in MM <=> u = <<one>> /\ s = j + 1
      BY <2>6, <3>2
    <3>4. s + 1 = j + 2 <=> s = j + 1
      BY <1>3, <2>2
    <3>5. Merged(<<one>>) = Sole(K, v) /\ IsList(<<one>>)
      BY <2>3, MergedOne, OneIsList
    <3> DEFINE S == Sole(K, v)
    <3>6. r0 # Failed /\ \A l, m : r0 = Got(l, m) => l = S /\ m = s + 1
      BY <3>1, GotNotFailed, GotSame
    <3> HIDE DEF S
    <3>7. ASSUME NEW x PROVE (\E u \in MM : x = Merged(u)) <=> x = S /\ s = j + 1
      BY <3>3, <3>5 DEF S
    <3>8. \A u \in MM : IsList(u)
      BY <3>3, <3>5
    <3> QED
      BY <3>4, <3>6, <3>7, <3>8
  <2>9. CASE ~At(s, "endbrace") /\ At(s, "comma")
    <3> DEFINE r == R[<<"members", s + 1, d>>]
               MR == M[<<"members", s + 1, j, d>>]
    <3>1. s \in 1..Size /\ text[s] = Punct("comma")
      BY <2>7, <2>9
    <3>2. s + 1 \in (i + 1)..(Size + 1) /\ s + 1 \in 1..(Size + 1) /\ s >= i
      BY <1>1, <2>1, <2>2, <3>1
    <3>3. s # j + 1
      BY <3>1, SamePunct
    <3>4. MembersAgree(R, M, s + 1, d)
      BY <3>2
    <3>5. r = Failed \/ \E l, m : r = Got(l, m) /\ m \in (s + 1 + 1)..(Size + 1)
      <4>1. IsResult(r, "members", s + 1)
        BY <3>2 DEF Reads
      <4> QED
        BY <4>1, ResultParts
    <3>6. \A u : u \in MM <=> s \in i..j /\ \E x \in MR : u = <<one>> \o x
      BY <2>6, <3>1, <3>3
    <3>7. \A x \in MR : IsList(x)
      BY <3>4 DEF MembersAgree
    <3>8. ASSUME NEW u \in MM PROVE IsList(u)
      <4>1. PICK x \in MR : u = <<one>> \o x
        BY <3>6
      <4>2. IsList(x)
        BY <3>7
      <4> QED
        BY <4>1, <4>2, ListWith
    <3>9. CASE r = Failed
      <4>1. r0 = Failed
        BY <1>1, <1>2, <1>8, <2>9, <3>9, MembersGoOn DEF s
      <4>2. MR = {}
        BY <3>4, <3>9 DEF MembersAgree
      <4>3. MM = {}
        BY <3>6, <4>2
      <4> QED
        BY <4>1, <4>3, GotNotFailed
    <3>10. ASSUME NEW l, NEW m, r = Got(l, m), m \in (s + 1 + 1)..(Size + 1)
           PROVE  /\ r0 = Failed => MM = {}
                  /\ \A l2, m2 : r0 = Got(l2, m2) =>
                        \A x : (\E u \in MM : x = Merged(u)) <=> x = l2 /\ m2 = j + 2
      <4> DEFINE W == WithFirst(K, v, l)
      <4>1. r0 = Got(W, m)
        <5>1. R[<<"members", Skip(n) + 1, d>>] = Got(l, m)
          BY <3>10 DEF s
        <5>2. ~At(Skip(n), "endbrace") /\ At(Skip(n), "comma")
          BY <2>9 DEF s
        <5>3. MemberRead(R, R, i, d, v, n) /\ BothGot(R, R, <<"members", Skip(n) + 1, d>>, l, m)
          BY <1>1, <1>8, <5>1 DEF MemberRead, BothGot, BothRead
        <5>4. ParseMembers(R, i, d) = Got(WithFirst(KeyOf(i), v, l), m)
          <6> HIDE DEF W, K, s, w, t
          <6> QED
            BY <5>2, <5>3, MembersGoOnBoth
        <5> QED
          BY <1>2, <5>4
      <4>2. \A x : (\E u \in MR : x = Merged(u)) <=> x = l /\ m = j + 2
        BY <3>4, <3>10 DEF MembersAgree
      <4>3. m = j + 2 => s \in i..j
        BY <1>1, <1>3, <3>1, <3>2, <3>10
      <4>4. r0 # Failed /\ \A l2, m2 : r0 = Got(l2, m2) => l2 = W /\ m2 = m
        BY <4>1, GotNotFailed, GotSame
      <4> HIDE DEF MR
      <4>5. ASSUME NEW y \in MR PROVE Merged(<<one>> \o y) = WithFirst(K, v, Merged(y))
        BY <2>3, <3>7, MergedMore
      <4>6. \A y \in MR : Merged(y) = l /\ m = j + 2
        BY <4>2
      <4>7. \A y \in MR : Merged(<<one>> \o y) = W
        BY <4>5, <4>6
      <4> HIDE DEF W
      <4>8. ASSUME NEW x, NEW u \in MM, x = Merged(u) PROVE x = W /\ m = j + 2
        <5>1. PICK y \in MR : u = <<one>> \o y
          BY <3>6
        <5> QED
          BY <4>6, <4>7, <4>8, <5>1
      <4>9. ASSUME m = j + 2 PROVE \E u \in MM : W = Merged(u)
        <5>1. PICK y \in MR : l = Merged(y)
          BY <4>2, <4>9
        <5>2. <<one>> \o y \in MM
          BY <3>6, <4>3, <4>9
        <5> QED
          BY <4>7, <5>2
      <4>10. ASSUME NEW x PROVE (\E u \in MM : x = Merged(u)) <=> x = W /\ m = j + 2
        BY <4>8, <4>9
      <4> QED
        BY <4>4, <4>10
    <3> QED
      BY <3>5, <3>8, <3>9, <3>10
  <2>10. CASE ~At(s, "endbrace") /\ ~At(s, "comma")
    <3>1. r0 = Failed
      BY <1>1, <1>2, <1>8, <2>10, MembersStop DEF s
    <3>2. s # j + 1
      BY <1>3, <2>10, AtToken
    <3>3. ~(s \in i..j /\ text[s] = Punct("comma"))
      <4>1. s \in i..j => s \in 1..Size
        BY <1>3
      <4> QED
        BY <2>10, <4>1, AtToken
    <3>4. MM = {}
      BY <2>6, <3>2, <3>3
    <3> QED
      BY <3>1, <3>4, GotNotFailed
  <2> QED
    BY <2>8, <2>9, <2>10
<1>9. CASE KeyAt(i)
  <2>1. w \in (i + 1)..(Size + 1) /\ w \in 1..(Size + 1)
    <3>1. w \in (i + 1)..(Size + 1)
      BY <1>9, ValueAtIs
    <3> HIDE DEF w
    <3> QED
      BY <1>1, <3>1
  <2>2. IsResult(t, "value", w)
    BY <1>1, <2>1 DEF Reads
  <2>3. t = Failed \/ \E v, n : t = Got(v, n) /\ n \in (w + 1)..(Size + 1)
    BY <2>2, ResultParts
  <2> HIDE DEF t, w
  <2> QED
    BY <1>7, <1>8, <1>9, <2>1, <2>3 DEF MM
<1> QED
  BY <1>6, <1>9 DEF MM, r0

-----------------------------------------------------------------------------
(* A value begins at the token that is next, and ends where the reader says. *)

LEMMA BareCounts ==
  ASSUME NEW M, NEW a, NEW b, NEW d, NEW u \in Bare(M, a, b, d), text[a] \in AllTokens
  PROVE  ~Garbage(a) /\ (a # b => \E p : text[b] = Punct(p))
<1>1. CASE a = b
  <2>1. u \in Meant(text[a])
    BY <1>1 DEF Bare
  <2>2. text[a] # Word("comment")
    BY <2>1, ScalarIsMeant
  <2> QED
    BY <1>1, <2>2 DEF Garbage
<1>2. CASE a # b /\ text[a] = Punct("bracket")
  <2>1. text[b] = Punct("endbracket")
    BY <1>2, SamePunct DEF Bare
  <2> QED
    BY <1>2, <2>1, PunctCounts
<1>3. CASE a # b /\ text[a] # Punct("bracket")
  <2>1. text[a] = Punct("brace") /\ text[b] = Punct("endbrace")
    BY <1>3 DEF Bare
  <2> QED
    BY <1>3, <2>1, PunctCounts
<1> QED
  BY <1>1, <1>2, <1>3

ValueTo(M, i, j, d, u) ==
    /\ ~TooDeep(d)
    /\ \E b \in Skip(i)..j : j < Skip(b + 1) /\ u \in Bare(M, Skip(i), b, d)

LEMMA ValueFrom ==
  ASSUME OfTokens, NEW M, Means(M), NEW i \in 1..(Size + 1), NEW j \in 0..Size, NEW d \in Nat, NEW u
  PROVE  u \in M[<<"value", i, j, d>>] <=> ValueTo(M, i, j, d, u)
<1>1. Size \in Nat
  BY SizeIs
<1>2. u \in M[<<"value", i, j, d>>] <=> ~TooDeep(d) /\ IsSpaced(M, i, j, d, u)
  <2> DEFINE x == <<"value", i, j, d>>
  <2>1. x[1] = "value" /\ x[2] = i /\ x[3] = j /\ x[4] = d
    OBVIOUS
  <2>2. M[x] = Derived(M, x)
    BY DEF Means
  <2>3. M[x] = IF TooDeep(d) THEN {} ELSE Spaced(M, i, j, d)
    BY <2>1, <2>2 DEF Derived
  <2> QED
    BY <2>3, SpacedIs
<1> DEFINE s == Skip(i)
<1>3. s \in i..(Size + 1)
  BY SkipRange
<1>4. IsNext(i, s)
  BY SkipIs
<1> HIDE DEF s
<1>5. ASSUME NEW a \in i..j, NEW b \in i..j, Blank(i, a - 1), Blank(b + 1, j), u \in Bare(M, a, b, d)
      PROVE  a = s /\ b \in s..j /\ j < Skip(b + 1) /\ u \in Bare(M, s, b, d)
  <2>1. a \in 1..Size /\ a \in i..(Size + 1) /\ b + 1 \in 1..(Size + 1)
    BY <1>1
  <2>2. ~Garbage(a) /\ (a # b => \E p : text[b] = Punct(p))
    BY <1>5, <2>1, BareCounts, SizeIs
  <2>3. IsNext(i, a)
    BY <1>5, <2>1, <2>2 DEF IsNext
  <2>4. a = s
    BY <2>3, NextIs DEF s
  <2>5. b >= a
    <3> SUFFICES ASSUME b < a PROVE FALSE
      BY <1>1
    <3>1. b \in i..(a - 1)
      BY <1>1
    <3>2. Garbage(b)
      BY <1>5, <3>1 DEF Blank
    <3> QED
      BY <2>2, <3>2, PunctCounts
  <2>6. j < Skip(b + 1)
    BY <1>5, <2>1, BlankIsBefore
  <2> QED
    BY <1>1, <1>5, <2>4, <2>5, <2>6
<1>6. ASSUME NEW b \in s..j, j < Skip(b + 1), u \in Bare(M, s, b, d)
      PROVE  s \in i..j /\ b \in i..j /\ Blank(i, s - 1) /\ Blank(b + 1, j)
  <2>1. s \in i..j /\ b \in i..j /\ b + 1 \in 1..(Size + 1)
    BY <1>1, <1>3
  <2>2. Blank(i, s - 1)
    BY <1>4 DEF IsNext
  <2> QED
    BY <1>6, <2>1, <2>2, BlankIsBefore
<1>7. IsSpaced(M, i, j, d, u) <=> \E b \in s..j : j < Skip(b + 1) /\ u \in Bare(M, s, b, d)
  <2>1. ASSUME IsSpaced(M, i, j, d, u) PROVE \E b \in s..j : j < Skip(b + 1) /\ u \in Bare(M, s, b, d)
    <3>1. PICK a \in i..j, b \in i..j : Blank(i, a - 1) /\ Blank(b + 1, j) /\ u \in Bare(M, a, b, d)
      BY <2>1 DEF IsSpaced
    <3> QED
      BY <1>5, <3>1
  <2>2. ASSUME NEW b \in s..j, j < Skip(b + 1), u \in Bare(M, s, b, d) PROVE IsSpaced(M, i, j, d, u)
    BY <1>6, <2>2 DEF IsSpaced
  <2> QED
    BY <2>1, <2>2
<1> QED
  BY <1>2, <1>7 DEF s, ValueTo

\* What stands from s without the space around it, and what is read from i.
BareAgrees(R, M, i, d) ==
    \A b \in Skip(i)..Size :
        /\ ParseJson(R, i, d) = Failed => Bare(M, Skip(i), b, d) = {}
        /\ \A v, n : ParseJson(R, i, d) = Got(v, n) =>
              /\ n \in (Skip(i) + 1)..(Size + 1)
              /\ \A u : u \in Bare(M, Skip(i), b, d) <=> u = v /\ n = b + 1

LEMMA ScalarBare ==
  ASSUME OfTokens, NEW R, NEW M, NEW i \in 1..(Size + 1), NEW d \in Nat, ~TooDeep(d),
         Skip(i) <= Size, ~At(Skip(i), "bracket"), ~At(Skip(i), "brace")
  PROVE  BareAgrees(R, M, i, d)
<1> DEFINE s == Skip(i)
           r == ParseJson(R, i, d)
           S == Scalar(text[s])
<1>1. s \in i..(Size + 1) /\ s \in Nat /\ Size \in Nat
  BY SkipRange
<1>2. s \in 1..Size
  BY <1>1
<1>3. text[s] \in AllTokens
  BY <1>2, SizeIs
<1>4. Meant(text[s]) = S
  BY <1>3, ScalarIsMeant
<1>5. S = {} \/ \E v : S = {v}
  BY <1>3, ScalarIsMeant
<1>6. /\ S = {} => r = Failed
      /\ \A v : S = {v} => r = Got(v, s + 1)
  BY <1>1, ScalarValue
<1>7. text[s] # Punct("bracket") /\ text[s] # Punct("brace")
  BY <1>2, AtToken
<1>8. ASSUME NEW b PROVE Bare(M, s, b, d) = IF b = s THEN S ELSE {}
  <2>1. CASE b = s
    BY <1>4, <2>1 DEF Bare
  <2>2. CASE b # s
    BY <1>7, <2>2 DEF Bare
  <2> QED
    BY <2>1, <2>2
<1> HIDE DEF s, r, S
<1> SUFFICES ASSUME NEW b \in s..Size
             PROVE  /\ r = Failed => Bare(M, s, b, d) = {}
                    /\ \A v, n : r = Got(v, n) =>
                          /\ n \in (s + 1)..(Size + 1)
                          /\ \A u : u \in Bare(M, s, b, d) <=> u = v /\ n = b + 1
  BY DEF s, r, BareAgrees
<1>9. CASE S = {}
  <2>1. r = Failed
    BY <1>6, <1>9
  <2> QED
    BY <1>8, <1>9, <2>1, GotNotFailed
<1>10. ASSUME NEW w, S = {w}
       PROVE  /\ r = Failed => Bare(M, s, b, d) = {}
              /\ \A v, n : r = Got(v, n) =>
                    /\ n \in (s + 1)..(Size + 1)
                    /\ \A u : u \in Bare(M, s, b, d) <=> u = v /\ n = b + 1
  <2>1. r = Got(w, s + 1)
    BY <1>6, <1>10
  <2>2. r # Failed
    BY <2>1, GotNotFailed
  <2>3. \A v, n : r = Got(v, n) => v = w /\ n = s + 1
    BY <2>1, GotSame
  <2>4. s + 1 \in (s + 1)..(Size + 1)
    BY <1>1, <1>2
  <2>5. s + 1 = b + 1 <=> b = s
    BY <1>2
  <2>6. \A u : u \in Bare(M, s, b, d) <=> u = w /\ s + 1 = b + 1
    BY <1>8, <1>10, <2>5
  <2> QED
    BY <2>2, <2>3, <2>4, <2>6
<1> QED
  BY <1>5, <1>9, <1>10

\* Nothing in brackets.
LEMMA EmptyIs ==
  /\ ArrayOf(<<>>) = Leaf(Array(0))
  /\ \A m : m = Merged(<<>>) => ObjectOf(m) = Leaf(Object({}))
<1>1. ASSUME NEW node, NEW parts, DOMAIN parts = {} PROVE Built(node, parts) = Leaf(node)
  <2>1. Below(parts) = {}
    BY <1>1 DEF Below
  <2>2. Built(node, parts) = [p \in {<<>>} |-> IF p = <<>> THEN node ELSE parts[Head(p)][Tail(p)]]
    BY <2>1 DEF Built
  <2> QED
    BY <2>2 DEF Leaf
<1>2. Len(<<>>) = 0 /\ DOMAIN Items(<<>>) = {}
  BY DEF Items
<1>3. ASSUME NEW m, m = Merged(<<>>) PROVE DOMAIN m = {} /\ DOMAIN Fields(m) = {}
  <2>1. DOMAIN m = {}
    BY <1>3 DEF Merged
  <2> QED
    BY <2>1 DEF Fields
<1> QED
  BY <1>1, <1>2, <1>3 DEF ArrayOf, ObjectOf

\* A list is not read from its closing bracket.
LEMMA NoListAtEnd ==
  ASSUME OfTokens, NEW R, Reads(R), NEW k \in 1..(Size + 1), NEW d \in Nat
  PROVE  /\ At(Skip(k), "endbracket") => R[<<"items", k, d>>] = Failed
         /\ At(Skip(k), "endbrace") => R[<<"members", k, d>>] = Failed
<1>1. d + 1 \in Nat /\ Skip(k) \in k..(Size + 1) /\ Skip(k) \in Nat /\ Size \in Nat
  BY SkipRange
<1>2. ASSUME At(Skip(k), "endbracket") PROVE R[<<"items", k, d>>] = Failed
  <2> DEFINE s == Skip(k)
             x == <<"items", k, d>>
             y == <<"value", k, d + 1>>
  <2>1. s \in 1..Size /\ text[s] = Punct("endbracket")
    <3>1. Skip(k) \in 1..(Size + 1)
      BY <1>1
    <3> QED
      BY <1>2, <3>1, AtRange
  <2>2. text[s] # Punct("bracket")
    BY <2>1, SamePunct
  <2>3. text[s] # Punct("brace")
    BY <2>1, SamePunct
  <2>4. Scalar(text[s]) = {}
    BY <2>1, ScalarOf
  <2>5. ~At(s, "bracket") /\ ~At(s, "brace") /\ s <= Size
    BY <2>1, <2>2, <2>3 DEF At
  <2>6. ParseJson(R, k, d + 1) = Failed
    BY <1>1, <2>4, <2>5, NoValue, ScalarValue
  <2>7. R[y] = Failed
    <3>1. y[1] = "value" /\ y[2] = k /\ y[3] = d + 1
      OBVIOUS
    <3>2. R[y] = Yields(R, y)
      BY <1>1 DEF Reads
    <3> QED
      BY <2>6, <3>1, <3>2 DEF Yields
  <2>8. ParseItems(R, k, d) = Failed
    BY <2>7, ItemsFail
  <2>9. x[1] = "items" /\ x[2] = k /\ x[3] = d
    OBVIOUS
  <2>10. R[x] = Yields(R, x)
    BY DEF Reads
  <2> QED
    BY <2>8, <2>9, <2>10 DEF Yields
<1>3. ASSUME At(Skip(k), "endbrace") PROVE R[<<"members", k, d>>] = Failed
  <2> DEFINE x == <<"members", k, d>>
  <2>1. text[Skip(k)] = Punct("endbrace")
    BY <1>3 DEF At
  <2>2. ~KeyAt(k)
    BY <2>1, SortsOfTokens DEF KeyAt
  <2>3. ParseMembers(R, k, d) = Failed
    BY <1>1, <2>2, MembersFail
  <2>4. x[1] = "members" /\ x[2] = k /\ x[3] = d
    OBVIOUS
  <2>5. R[x] = Yields(R, x)
    BY DEF Reads
  <2> QED
    BY <2>3, <2>4, <2>5 DEF Yields
<1> QED
  BY <1>2, <1>3

LEMMA ArrayBare ==
  ASSUME OfTokens, NEW R, NEW M, Reads(R), Means(M), NEW i \in 1..(Size + 1), NEW d \in Nat,
         ~TooDeep(d), At(Skip(i), "bracket"),
         \A k \in (i + 1)..(Size + 1) : ItemsAgree(R, M, k, d)
  PROVE  BareAgrees(R, M, i, d)
<1> DEFINE s == Skip(i)
           r == ParseJson(R, i, d)
           q == Skip(s + 1)
           t == R[<<"items", s + 1, d>>]
<1>1. s \in i..(Size + 1) /\ s \in Nat /\ Size \in Nat
  BY SkipRange
<1>2. s \in 1..Size /\ text[s] = Punct("bracket")
  <2>1. s \in 1..(Size + 1)
    BY <1>1
  <2> QED
    BY <2>1, AtRange
<1>3. s + 1 \in 1..(Size + 1) /\ s + 1 \in (i + 1)..(Size + 1)
  BY <1>1, <1>2
<1>4. q \in (s + 1)..(Size + 1)
  BY <1>3, SkipRange
<1>5. ItemsAgree(R, M, s + 1, d)
  BY <1>3
<1>6. /\ At(q, "endbracket") => r = Got(Leaf(Array(0)), q + 1)
      /\ ~At(q, "endbracket") =>
            /\ t = Failed => r = Failed
            /\ \A l, m : t = Got(l, m) => r = Got(ArrayOf(l), m)
  <2>1. At(q, "endbracket") => r = Got(Leaf(Array(0)), q + 1)
    BY <1>1, ArrayEmpty
  <2>2. ~At(q, "endbracket") /\ t = Failed => r = Failed
    BY <1>1, ArrayFails
  <2>3. ASSUME NEW l, NEW m, ~At(q, "endbracket"), t = Got(l, m) PROVE r = Got(ArrayOf(l), m)
    BY <1>1, <2>3, ArrayGot
  <2> QED
    BY <2>1, <2>2, <2>3
<1>7. At(q, "endbracket") => t = Failed
  BY <1>3, NoListAtEnd
<1>8. t = Failed \/ \E l, m : t = Got(l, m) /\ m \in (s + 1 + 1)..(Size + 1) /\ Closes("items", m)
  <2>1. IsResult(t, "items", s + 1)
    BY <1>3 DEF Reads
  <2> QED
    BY <2>1, ResultParts
<1>9. text[s] # Punct("brace") /\ Meant(text[s]) = {}
  <2>1. text[s] # Punct("brace")
    BY <1>2, SamePunct
  <2>2. text[s] \in AllTokens
    BY <1>2, SizeIs
  <2>3. Scalar(text[s]) = {}
    BY <1>2, ScalarOf
  <2> QED
    BY <2>1, <2>2, <2>3, ScalarIsMeant
\* What may stand in the brackets.
<1> DEFINE Lists(b) == NoneIf(Blank(s + 1, b - 1)) \cup M[<<"items", s + 1, b - 1, d>>]
<1>10. ASSUME NEW b \in s..Size
       PROVE  Bare(M, s, b, d) = IF b # s /\ text[b] = Punct("endbracket") THEN ArraysOf(Lists(b)) ELSE {}
  <2>1. CASE b = s
    BY <1>9, <2>1 DEF Bare
  <2>2. CASE b # s
    BY <1>2, <1>9, <2>2 DEF Bare
  <2> QED
    BY <2>1, <2>2
<1> HIDE DEF s, r, q, t
<1>11. ASSUME NEW b \in s..Size, b # s, text[b] = Punct("endbracket")
       PROVE  /\ Blank(s + 1, b - 1) <=> q = b
              /\ b - 1 \in 0..(Size - 1) /\ (b - 1) + 1 = b /\ (b - 1) + 2 = b + 1
              /\ b \in 1..Size
  <2>1. b \in 1..Size /\ b - 1 \in 0..(Size - 1) /\ b - 1 \in 0..Size /\ (b - 1) + 1 = b
        /\ (b - 1) + 2 = b + 1 /\ s + 1 <= b
    BY <1>1, <1>2, <1>11
  <2>2. Blank(s + 1, b - 1) <=> b - 1 < q
    BY <1>3, <2>1, BlankIsBefore DEF q
  <2>3. Stops(s + 1, b)
    BY <1>3, <1>11, <2>1, PunctCounts, StopsAt
  <2>4. (s + 1 <= b /\ b - 1 < q) <=> q = b
    BY <2>3 DEF Stops, q
  <2> QED
    BY <2>1, <2>2, <2>4
<1> HIDE DEF Lists
<1> SUFFICES ASSUME NEW b \in s..Size
             PROVE  /\ r = Failed => Bare(M, s, b, d) = {}
                    /\ \A v, n : r = Got(v, n) =>
                          /\ n \in (s + 1)..(Size + 1)
                          /\ \A u : u \in Bare(M, s, b, d) <=> u = v /\ n = b + 1
  BY DEF s, r, BareAgrees
<1>12. CASE At(q, "endbracket")
  <2>1. r = Got(Leaf(Array(0)), q + 1)
    BY <1>6, <1>12
  <2>2. q \in 1..Size /\ text[q] = Punct("endbracket")
    <3>1. q \in 1..(Size + 1)
      BY <1>1, <1>4
    <3> QED
      BY <1>12, <3>1, AtRange
  <2>3. ASSUME b # s, text[b] = Punct("endbracket") PROVE Lists(b) = IF b = q THEN {<<>>} ELSE {}
    <3>1. t = Failed
      BY <1>7, <1>12
    <3>2. M[<<"items", s + 1, b - 1, d>>] = {}
      BY <1>5, <1>11, <2>3, <3>1 DEF ItemsAgree, t
    <3> QED
      BY <1>11, <2>3, <3>2 DEF Lists, NoneIf
  <2>4. Bare(M, s, b, d) = IF b = q THEN {Leaf(Array(0))} ELSE {}
    <3>1. CASE b # s /\ text[b] = Punct("endbracket")
      <4>1. Bare(M, s, b, d) = ArraysOf(IF b = q THEN {<<>>} ELSE {})
        BY <1>10, <2>3, <3>1
      <4> QED
        BY <4>1, EmptyIs DEF ArraysOf, ArrayOf
    <3>2. CASE ~(b # s /\ text[b] = Punct("endbracket"))
      <4>1. b # q
        BY <1>2, <1>4, <2>2, <3>2
      <4> QED
        BY <1>10, <3>2, <4>1
    <3> QED
      BY <3>1, <3>2
  <2> DEFINE e == Leaf(Array(0))
  <2> HIDE DEF e
  <2>5. r # Failed /\ \A v, n : r = Got(v, n) => v = e /\ n = q + 1
    BY <2>1, GotNotFailed, GotSame DEF e
  <2>6. q + 1 \in (s + 1)..(Size + 1)
    BY <1>1, <1>4, <2>2
  <2>7. q + 1 = b + 1 <=> b = q
    BY <1>1, <1>4
  <2>8. \A u : u \in Bare(M, s, b, d) <=> u = e /\ q + 1 = b + 1
    BY <2>4, <2>7 DEF e
  <2> QED
    BY <2>5, <2>6, <2>8
<1>13. ASSUME ~At(q, "endbracket"), b # s, text[b] = Punct("endbracket")
       PROVE  Bare(M, s, b, d) = ArraysOf(M[<<"items", s + 1, b - 1, d>>])
  <2>1. q # b
    BY <1>11, <1>13, AtToken
  <2>2. Lists(b) = M[<<"items", s + 1, b - 1, d>>]
    BY <1>11, <1>13, <2>1 DEF Lists, NoneIf
  <2> QED
    BY <1>10, <1>13, <2>2
<1>14. CASE ~At(q, "endbracket") /\ t = Failed
  <2>1. r = Failed
    BY <1>6, <1>14
  <2>2. ASSUME b # s, text[b] = Punct("endbracket") PROVE Bare(M, s, b, d) = {}
    <3>1. M[<<"items", s + 1, b - 1, d>>] = {}
      BY <1>5, <1>11, <1>14, <2>2 DEF ItemsAgree, t
    <3> QED
      BY <1>13, <1>14, <2>2, <3>1 DEF ArraysOf
  <2>3. Bare(M, s, b, d) = {}
    BY <1>10, <2>2
  <2> QED
    BY <2>1, <2>3, GotNotFailed
<1>15. ASSUME ~At(q, "endbracket"), NEW l, NEW m, t = Got(l, m), m \in (s + 1 + 1)..(Size + 1),
              Closes("items", m)
       PROVE  /\ r = Failed => Bare(M, s, b, d) = {}
              /\ \A v, n : r = Got(v, n) =>
                    /\ n \in (s + 1)..(Size + 1)
                    /\ \A u : u \in Bare(M, s, b, d) <=> u = v /\ n = b + 1
  <2> DEFINE a == ArrayOf(l)
  <2>1. r = Got(a, m)
    BY <1>6, <1>15
  <2>2. m = b + 1 => b # s /\ text[b] = Punct("endbracket")
    <3>1. text[m - 1] = Punct("endbracket")
      BY <1>15 DEF Closes
    <3>2. m = b + 1 => b # s /\ m - 1 = b
      BY <1>1, <1>15
    <3> QED
      BY <3>1, <3>2
  <2>3. ASSUME b # s, text[b] = Punct("endbracket"), NEW u PROVE u \in Bare(M, s, b, d) <=> u = a /\ m = b + 1
    <3>1. \A x : x \in M[<<"items", s + 1, b - 1, d>>] <=> x = l /\ m = b + 1
      BY <1>5, <1>11, <1>15, <2>3 DEF ItemsAgree, t
    <3> QED
      BY <1>13, <1>15, <2>3, <3>1 DEF ArraysOf, ArrayOf
  <2> HIDE DEF a
  <2>4. \A u : u \in Bare(M, s, b, d) <=> u = a /\ m = b + 1
    BY <1>10, <2>2, <2>3
  <2>5. r # Failed /\ \A v, n : r = Got(v, n) => v = a /\ n = m
    BY <2>1, GotNotFailed, GotSame
  <2>6. m \in (s + 1)..(Size + 1)
    BY <1>1, <1>15
  <2> QED
    BY <2>4, <2>5, <2>6
<1> QED
  BY <1>8, <1>12, <1>14, <1>15

LEMMA ObjectsAre ==
  ASSUME NEW L
  PROVE  /\ \A u : u \in ObjectsOf(L) <=> \E x : u = ObjectOf(x) /\ \E y \in L : x = Merged(y)
         /\ ObjectsOf({}) = {} /\ \A l : ObjectsOf({l}) = {ObjectOf(Merged(l))}
  BY DEF ObjectsOf, ObjectOf

LEMMA ObjectBare ==
  ASSUME OfTokens, NEW R, NEW M, Reads(R), Means(M), NEW i \in 1..(Size + 1), NEW d \in Nat,
         ~TooDeep(d), At(Skip(i), "brace"),
         \A k \in (i + 1)..(Size + 1) : MembersAgree(R, M, k, d)
  PROVE  BareAgrees(R, M, i, d)
<1> DEFINE s == Skip(i)
           r == ParseJson(R, i, d)
           q == Skip(s + 1)
           t == R[<<"members", s + 1, d>>]
<1>1. s \in i..(Size + 1) /\ s \in Nat /\ Size \in Nat
  BY SkipRange
<1>2. s \in 1..Size /\ text[s] = Punct("brace")
  <2>1. s \in 1..(Size + 1)
    BY <1>1
  <2> QED
    BY <2>1, AtRange
<1>3. s + 1 \in 1..(Size + 1) /\ s + 1 \in (i + 1)..(Size + 1)
  BY <1>1, <1>2
<1>4. q \in (s + 1)..(Size + 1)
  BY <1>3, SkipRange
<1>5. MembersAgree(R, M, s + 1, d)
  BY <1>3
<1>6. /\ At(q, "endbrace") => r = Got(Leaf(Object({})), q + 1)
      /\ ~At(q, "endbrace") =>
            /\ t = Failed => r = Failed
            /\ \A l, m : t = Got(l, m) => r = Got(ObjectOf(l), m)
  <2>1. At(q, "endbrace") => r = Got(Leaf(Object({})), q + 1)
    BY <1>1, ObjectEmpty
  <2>2. ~At(q, "endbrace") /\ t = Failed => r = Failed
    BY <1>1, ObjectFails
  <2>3. ASSUME NEW l, NEW m, ~At(q, "endbrace"), t = Got(l, m) PROVE r = Got(ObjectOf(l), m)
    BY <1>1, <2>3, ObjectGot
  <2> QED
    BY <2>1, <2>2, <2>3
<1>7. At(q, "endbrace") => t = Failed
  BY <1>3, NoListAtEnd
<1>8. t = Failed \/ \E l, m : t = Got(l, m) /\ m \in (s + 1 + 1)..(Size + 1) /\ Closes("members", m)
  <2>1. IsResult(t, "members", s + 1)
    BY <1>3 DEF Reads
  <2> QED
    BY <2>1, ResultParts
<1>9. text[s] # Punct("bracket") /\ Meant(text[s]) = {}
  <2>1. text[s] # Punct("bracket")
    BY <1>2, SamePunct
  <2>2. text[s] \in AllTokens
    BY <1>2, SizeIs
  <2>3. Scalar(text[s]) = {}
    BY <1>2, ScalarOf
  <2> QED
    BY <2>1, <2>2, <2>3, ScalarIsMeant
\* What may stand in the brackets.
<1> DEFINE Lists(b) == NoneIf(Blank(s + 1, b - 1)) \cup M[<<"members", s + 1, b - 1, d>>]
<1>10. ASSUME NEW b \in s..Size
       PROVE  Bare(M, s, b, d) = IF b # s /\ text[b] = Punct("endbrace") THEN ObjectsOf(Lists(b)) ELSE {}
  <2>1. CASE b = s
    BY <1>9, <2>1 DEF Bare
  <2>2. CASE b # s
    BY <1>2, <1>9, <2>2 DEF Bare
  <2> QED
    BY <2>1, <2>2
<1> HIDE DEF s, r, q, t
<1>11. ASSUME NEW b \in s..Size, b # s, text[b] = Punct("endbrace")
       PROVE  /\ Blank(s + 1, b - 1) <=> q = b
              /\ b - 1 \in 0..(Size - 1) /\ (b - 1) + 1 = b /\ (b - 1) + 2 = b + 1
              /\ b \in 1..Size
  <2>1. b \in 1..Size /\ b - 1 \in 0..(Size - 1) /\ b - 1 \in 0..Size /\ (b - 1) + 1 = b
        /\ (b - 1) + 2 = b + 1 /\ s + 1 <= b
    BY <1>1, <1>2, <1>11
  <2>2. Blank(s + 1, b - 1) <=> b - 1 < q
    BY <1>3, <2>1, BlankIsBefore DEF q
  <2>3. Stops(s + 1, b)
    BY <1>3, <1>11, <2>1, PunctCounts, StopsAt
  <2>4. (s + 1 <= b /\ b - 1 < q) <=> q = b
    BY <2>3 DEF Stops, q
  <2> QED
    BY <2>1, <2>2, <2>4
<1> HIDE DEF Lists
<1> SUFFICES ASSUME NEW b \in s..Size
             PROVE  /\ r = Failed => Bare(M, s, b, d) = {}
                    /\ \A v, n : r = Got(v, n) =>
                          /\ n \in (s + 1)..(Size + 1)
                          /\ \A u : u \in Bare(M, s, b, d) <=> u = v /\ n = b + 1
  BY DEF s, r, BareAgrees
<1>12. CASE At(q, "endbrace")
  <2>1. r = Got(Leaf(Object({})), q + 1)
    BY <1>6, <1>12
  <2>2. q \in 1..Size /\ text[q] = Punct("endbrace")
    <3>1. q \in 1..(Size + 1)
      BY <1>1, <1>4
    <3> QED
      BY <1>12, <3>1, AtRange
  <2>3. ASSUME b # s, text[b] = Punct("endbrace") PROVE Lists(b) = IF b = q THEN {<<>>} ELSE {}
    <3>1. t = Failed
      BY <1>7, <1>12
    <3>2. M[<<"members", s + 1, b - 1, d>>] = {}
      BY <1>5, <1>11, <2>3, <3>1 DEF MembersAgree, t
    <3> QED
      BY <1>11, <2>3, <3>2 DEF Lists, NoneIf
  <2>4. Bare(M, s, b, d) = IF b = q THEN {Leaf(Object({}))} ELSE {}
    <3>1. CASE b # s /\ text[b] = Punct("endbrace")
      <4>1. Bare(M, s, b, d) = ObjectsOf(IF b = q THEN {<<>>} ELSE {})
        BY <1>10, <2>3, <3>1
      <4>2. ObjectsOf({<<>>}) = {Leaf(Object({}))} /\ ObjectsOf({}) = {}
        BY EmptyIs, ObjectsAre
      <4> QED
        BY <4>1, <4>2
    <3>2. CASE ~(b # s /\ text[b] = Punct("endbrace"))
      <4>1. b # q
        BY <1>2, <1>4, <2>2, <3>2
      <4> QED
        BY <1>10, <3>2, <4>1
    <3> QED
      BY <3>1, <3>2
  <2> DEFINE e == Leaf(Object({}))
  <2> HIDE DEF e
  <2>5. r # Failed /\ \A v, n : r = Got(v, n) => v = e /\ n = q + 1
    BY <2>1, GotNotFailed, GotSame DEF e
  <2>6. q + 1 \in (s + 1)..(Size + 1)
    BY <1>1, <1>4, <2>2
  <2>7. q + 1 = b + 1 <=> b = q
    BY <1>1, <1>4
  <2>8. \A u : u \in Bare(M, s, b, d) <=> u = e /\ q + 1 = b + 1
    BY <2>4, <2>7 DEF e
  <2> QED
    BY <2>5, <2>6, <2>8
<1>13. ASSUME ~At(q, "endbrace"), b # s, text[b] = Punct("endbrace")
       PROVE  Bare(M, s, b, d) = ObjectsOf(M[<<"members", s + 1, b - 1, d>>])
  <2>1. q # b
    BY <1>11, <1>13, AtToken
  <2>2. Lists(b) = M[<<"members", s + 1, b - 1, d>>]
    BY <1>11, <1>13, <2>1 DEF Lists, NoneIf
  <2> QED
    BY <1>10, <1>13, <2>2
<1>14. CASE ~At(q, "endbrace") /\ t = Failed
  <2>1. r = Failed
    BY <1>6, <1>14
  <2>2. ASSUME b # s, text[b] = Punct("endbrace") PROVE Bare(M, s, b, d) = {}
    <3>1. M[<<"members", s + 1, b - 1, d>>] = {}
      BY <1>5, <1>11, <1>14, <2>2 DEF MembersAgree, t
    <3> QED
      BY <1>13, <1>14, <2>2, <3>1 DEF ObjectsOf
  <2>3. Bare(M, s, b, d) = {}
    BY <1>10, <2>2
  <2> QED
    BY <2>1, <2>3, GotNotFailed
<1>15. ASSUME ~At(q, "endbrace"), NEW l, NEW m, t = Got(l, m), m \in (s + 1 + 1)..(Size + 1),
              Closes("members", m)
       PROVE  /\ r = Failed => Bare(M, s, b, d) = {}
              /\ \A v, n : r = Got(v, n) =>
                    /\ n \in (s + 1)..(Size + 1)
                    /\ \A u : u \in Bare(M, s, b, d) <=> u = v /\ n = b + 1
  <2> DEFINE a == ObjectOf(l)
  <2>1. r = Got(a, m)
    BY <1>6, <1>15
  <2>2. m = b + 1 => b # s /\ text[b] = Punct("endbrace")
    <3>1. text[m - 1] = Punct("endbrace")
      BY <1>15 DEF Closes
    <3>2. m = b + 1 => b # s /\ m - 1 = b
      BY <1>1, <1>15
    <3> QED
      BY <3>1, <3>2
  <2>3. ASSUME b # s, text[b] = Punct("endbrace"), NEW u PROVE u \in Bare(M, s, b, d) <=> u = a /\ m = b + 1
    <3> DEFINE L == M[<<"members", s + 1, b - 1, d>>]
    <3>1. \A x : (\E y \in L : x = Merged(y)) <=> x = l /\ m = b + 1
      <4>1. b - 1 \in 0..(Size - 1) /\ (b - 1) + 1 = b /\ (b - 1) + 2 = b + 1
        BY <1>11, <2>3
      <4>2. \A l2, n : t = Got(l2, n) =>
               \A x : (\E y \in L : x = Merged(y)) <=> x = l2 /\ n = (b - 1) + 2
        BY <1>5, <2>3, <4>1 DEF MembersAgree, t
      <4>3. \A x : (\E y \in L : x = Merged(y)) <=> x = l /\ m = (b - 1) + 2
        BY <1>15, <4>2
      <4> QED
        BY <4>1, <4>3
    <3>2. Bare(M, s, b, d) = ObjectsOf(L)
      BY <1>13, <1>15, <2>3
    <3> HIDE DEF L
    <3> QED
      BY <3>1, <3>2, ObjectsAre
  <2> HIDE DEF a
  <2>4. \A u : u \in Bare(M, s, b, d) <=> u = a /\ m = b + 1
    BY <1>10, <2>2, <2>3
  <2>5. r # Failed /\ \A v, n : r = Got(v, n) => v = a /\ n = m
    BY <2>1, GotNotFailed, GotSame
  <2>6. m \in (s + 1)..(Size + 1)
    BY <1>1, <1>15
  <2> QED
    BY <2>4, <2>5, <2>6
<1> QED
  BY <1>8, <1>12, <1>14, <1>15

LEMMA ValueMatch ==
  ASSUME OfTokens, NEW R, NEW M, Reads(R), Means(M), NEW i \in 1..(Size + 1), NEW d \in Nat,
         \A k \in (i + 1)..(Size + 1) : ItemsAgree(R, M, k, d),
         \A k \in (i + 1)..(Size + 1) : MembersAgree(R, M, k, d)
  PROVE  ValueAgrees(R, M, i, d)
<1> DEFINE s == Skip(i)
           r == ParseJson(R, i, d)
           x == <<"value", i, d>>
<1>1. s \in i..(Size + 1) /\ s \in Nat /\ Size \in Nat
  BY SkipRange
<1>2. R[x] = r
  <2>1. x[1] = "value" /\ x[2] = i /\ x[3] = d
    OBVIOUS
  <2>2. R[x] = Yields(R, x)
    BY DEF Reads
  <2> QED
    BY <2>1, <2>2 DEF Yields
<1>3. \A j \in 0..Size : \A u : u \in M[<<"value", i, j, d>>] <=> ValueTo(M, i, j, d, u)
  BY ValueFrom
<1>4. CASE TooDeep(d) \/ s > Size
  <2>1. r = Failed
    BY <1>1, <1>4, NoValue
  <2>2. ASSUME NEW j \in 0..Size PROVE M[<<"value", i, j, d>>] = {}
    <3>1. \A u : ~ValueTo(M, i, j, d, u)
      <4> HIDE DEF s
      <4>1. s > Size => s..j = {}
        BY <1>1
      <4> QED
        BY <1>4, <4>1 DEF ValueTo, s
    <3> QED
      BY <1>3, <3>1
  <2> QED
    BY <1>2, <2>1, <2>2, GotNotFailed DEF ValueAgrees
<1>5. CASE ~TooDeep(d) /\ s <= Size
  <2>1. BareAgrees(R, M, i, d)
    <3>1. CASE At(s, "bracket")
      BY <1>5, <3>1, ArrayBare
    <3>2. CASE At(s, "brace")
      BY <1>5, <3>2, ObjectBare
    <3>3. CASE ~At(s, "bracket") /\ ~At(s, "brace")
      BY <1>5, <3>3, ScalarBare
    <3> QED
      BY <3>1, <3>2, <3>3
  <2> SUFFICES ASSUME NEW j \in 0..Size
               PROVE  /\ r = Failed => M[<<"value", i, j, d>>] = {}
                      /\ \A v, n : r = Got(v, n) =>
                            \A u : u \in M[<<"value", i, j, d>>] <=> u = v /\ n <= j + 1 /\ j < Skip(n)
    BY <1>2 DEF ValueAgrees
  <2>2. \A u : u \in M[<<"value", i, j, d>>] <=>
                  \E b \in s..j : j < Skip(b + 1) /\ u \in Bare(M, s, b, d)
    BY <1>3, <1>5 DEF ValueTo
  <2>3. \A b \in s..j : b \in s..Size
    BY <1>1
  <2>4. ASSUME r = Failed PROVE M[<<"value", i, j, d>>] = {}
    <3>1. \A b \in s..j : Bare(M, s, b, d) = {}
      BY <2>1, <2>3, <2>4 DEF BareAgrees
    <3> QED
      BY <2>2, <3>1
  <2>5. ASSUME NEW v, NEW n, r = Got(v, n), NEW u
        PROVE  u \in M[<<"value", i, j, d>>] <=> u = v /\ n <= j + 1 /\ j < Skip(n)
    <3>1. ASSUME NEW b \in s..j
          PROVE  n \in (s + 1)..(Size + 1) /\ (u \in Bare(M, s, b, d) <=> u = v /\ n = b + 1)
      BY <2>1, <2>3, <2>5 DEF BareAgrees
    <3>2. n \in (s + 1)..(Size + 1)
      <4>1. s \in s..Size
        BY <1>1, <1>5
      <4> QED
        BY <2>1, <2>5, <4>1 DEF BareAgrees
    <3> HIDE DEF s, r, x
    <3>3. ASSUME n <= j + 1 PROVE n - 1 \in s..j /\ (n - 1) + 1 = n
      BY <1>1, <3>2, <3>3
    <3>4. ASSUME NEW b \in s..j, n = b + 1 PROVE n <= j + 1
      BY <1>1, <3>4
    <3> QED
      BY <2>2, <3>1, <3>3, <3>4
  <2> QED
    BY <2>4, <2>5
<1> QED
  BY <1>1, <1>4, <1>5

-----------------------------------------------------------------------------
(* A text is read as what it means. *)

Agree(R, M, i) ==
    \A d \in Nat : ValueAgrees(R, M, i, d) /\ ItemsAgree(R, M, i, d) /\ MembersAgree(R, M, i, d)

LEMMA AllAgree ==
  ASSUME OfTokens, NEW R, NEW M, Reads(R), Means(M)
  PROVE  \A i \in 1..(Size + 1) : Agree(R, M, i)
<1>1. Size \in Nat
  BY SizeIs
<1> DEFINE A(n) == \A k \in (Size + 1 - n)..(Size + 1) : Agree(R, M, k)
           P == {n \in 0..Size : A(n)}
<1>2. ASSUME NEW i \in 1..(Size + 1), \A k \in (i + 1)..(Size + 1) : Agree(R, M, k)
      PROVE  Agree(R, M, i)
  <2>1. \A k \in (i + 1)..(Size + 1), d \in Nat :
           ValueAgrees(R, M, k, d) /\ ItemsAgree(R, M, k, d) /\ MembersAgree(R, M, k, d)
    BY <1>2 DEF Agree
  <2>2. \A d \in Nat : ValueAgrees(R, M, i, d)
    BY <2>1, ValueMatch
  <2>3. \A d \in Nat : d + 1 \in Nat
    OBVIOUS
  <2>4. ASSUME NEW d \in Nat PROVE ItemsAgree(R, M, i, d)
    <3>1. ValueAgrees(R, M, i, d + 1)
      BY <2>2, <2>3
    <3> QED
      BY <2>1, <3>1, ItemsMatch
  <2>5. ASSUME NEW d \in Nat PROVE MembersAgree(R, M, i, d)
    <3>1. \A k \in (i + 1)..(Size + 1) : ValueAgrees(R, M, k, d + 1)
      BY <2>1, <2>3
    <3> QED
      BY <2>1, <3>1, MembersMatch
  <2> QED
    BY <2>2, <2>4, <2>5 DEF Agree
<1>3. A(0)
  <2>1. \A k \in (Size + 1 - 0)..(Size + 1) : k = Size + 1
    BY <1>1
  <2>2. Size + 1 \in 1..(Size + 1) /\ (Size + 1 + 1)..(Size + 1) = {}
    BY <1>1
  <2> QED
    BY <1>2, <2>1, <2>2
<1>4. ASSUME NEW n \in 1..Size, A(n - 1) PROVE A(n)
  <2> DEFINE i == Size + 1 - n
  <2>1. i \in 1..(Size + 1)
    BY <1>1
  <2>2. \A k \in (i + 1)..(Size + 1) : k \in (Size + 1 - (n - 1))..(Size + 1)
    BY <1>1
  <2>3. Agree(R, M, i)
    BY <1>2, <1>4, <2>1, <2>2
  <2>4. \A k \in (Size + 1 - n)..(Size + 1) : k = i \/ k \in (i + 1)..(Size + 1)
    BY <1>1
  <2> QED
    BY <1>4, <2>2, <2>3, <2>4
<1> HIDE DEF A
<1>5. 0 \in P /\ \A i \in 1..Size : i - 1 \in P => i \in P
  BY <1>1, <1>3, <1>4
<1> HIDE DEF P
<1>6. \A n \in 0..Size : n \in P
  BY <1>1, <1>5, UpTo
<1>7. A(Size)
  BY <1>1, <1>6 DEF P
<1> QED
  BY <1>1, <1>7 DEF A

\* A text is read as the value that it means and, if it means none, not at all.
THEOREM ReadAsMeant ==
  ASSUME OfTokens PROVE Parse = Meaning
<1> DEFINE x == <<"value", 1, 0>>
<1>1. PICK R : Reads(R) /\ Parse = IF R[x].ok /\ Skip(R[x].next) > Len(text) THEN {R[x].value} ELSE {}
  BY ReaderIs
<1>2. PICK M : Means(M) /\ Meaning = M[<<"value", 1, Size, 0>>]
  BY GrammarIs
<1>3. Size \in Nat /\ 1 \in 1..(Size + 1) /\ 0 \in Nat /\ Size \in 0..Size
  BY SizeIs
<1>4. ValueAgrees(R, M, 1, 0)
  BY <1>1, <1>2, <1>3, AllAgree DEF Agree
<1>5. IsResult(R[x], "value", 1)
  BY <1>1, <1>3 DEF Reads
<1>6. CASE R[x] = Failed
  <2>1. Meaning = {}
    BY <1>2, <1>3, <1>4, <1>6 DEF ValueAgrees
  <2> QED
    BY <1>1, <1>6, <2>1, FailedNot
<1>7. ASSUME NEW v, NEW n, R[x] = Got(v, n), n \in (1 + 1)..(Size + 1) PROVE Parse = Meaning
  <2>1. \A u : u \in Meaning <=> u = v /\ n <= Size + 1 /\ Size < Skip(n)
    BY <1>2, <1>3, <1>4, <1>7 DEF ValueAgrees
  <2>2. n <= Size + 1 /\ n \in 1..(Size + 1)
    BY <1>3, <1>7
  <2>3. Skip(n) \in Nat
    BY <2>2, SkipRange
  <2>4. R[x].ok /\ R[x].next = n /\ R[x].value = v
    BY <1>7, GotParts
  <2>5. Parse = IF Skip(n) > Size THEN {v} ELSE {}
    BY <1>1, <2>4 DEF Size
  <2>6. Skip(n) > Size <=> Size < Skip(n)
    BY <1>3, <2>3
  <2> QED
    BY <2>1, <2>2, <2>5, <2>6
<1> QED
  BY <1>5, <1>6, <1>7, ResultParts

-----------------------------------------------------------------------------
(* The keys of an object in the order in which they are written. *)

LEMMA KeysInOrder ==
  ASSUME NEW S, IsFiniteSet(S)
  PROVE  LET keys == SetToSeq(S)
         IN /\ keys \in Seq(S) /\ Len(keys) = Cardinality(S) /\ DOMAIN keys = 1..Len(keys)
            /\ S = {keys[i] : i \in DOMAIN keys}
            /\ \A i, j \in DOMAIN keys : keys[i] = keys[j] => i = j
<1> DEFINE n == Cardinality(S)
           keys == SetToSeq(S)
           T == {keys[i] : i \in 1..n}
<1>1. n \in Nat /\ ExistsBijection(1..n, S)
  BY FS_CardinalityType
<1>2. \E f \in [1..n -> S] : IsInjective(f)
  BY <1>1 DEF ExistsBijection, Bijection, Injection
<1>3. keys \in [1..n -> S] /\ IsInjective(keys)
  BY <1>2 DEF SetToSeq
<1> HIDE DEF keys, n
<1>4. keys \in Seq(S) /\ Len(keys) = n /\ DOMAIN keys = 1..n
  BY <1>1, <1>3
<1>5. T = S
  <2>1. keys \in Bijection(1..n, T)
    BY <1>3 DEF Bijection, Injection, Surjection, IsInjective
  <2>2. ExistsBijection(1..n, T)
    BY <2>1 DEF ExistsBijection
  <2>3. IsFiniteSet(1..n) /\ Cardinality(1..n) = n
    BY <1>1, FS_Interval
  <2>4. Cardinality(T) = n
    BY <2>2, <2>3, FS_Bijection
  <2>5. T \subseteq S
    BY <1>3
  <2> QED
    BY <2>4, <2>5, FS_Subset DEF n
<1> QED
  BY <1>3, <1>4, <1>5 DEF IsInjective, keys, n

-----------------------------------------------------------------------------
(* The places of a value. *)

StepSet == [item : Nat] \cup [field : Seq(Runes)]

LEMMA PlaceIs ==
  ASSUME NEW v, IsValue(v), NEW p \in DOMAIN v
  PROVE  /\ p \in Seq(StepSet) /\ Len(p) \in Nat /\ IsNode(v[p])
         /\ v[p].js = "string" => v[p].str \in Seq(Runes)
         /\ v[p].js = "object" => v[p].keys \subseteq Seq(Runes)
         /\ \A s \in Steps(v[p]) : /\ Append(p, s) \in DOMAIN v
                                   /\ Len(Append(p, s)) = Len(p) + 1
  BY DEF IsValue, StepSet

\* What holds at a place if it holds below holds everywhere.
LEMMA PlaceInduction ==
  ASSUME NEW v, IsValue(v), NEW P,
         \A p \in DOMAIN v : (\A s \in Steps(v[p]) : Append(p, s) \in P) => p \in P
  PROVE  \A p \in DOMAIN v : p \in P
<1>1. PICK N \in Nat : \A p \in DOMAIN v : Len(p) <= N
  <2>1. PICK n \in {Len(p) : p \in DOMAIN v} : \A p \in DOMAIN v : Len(p) <= n
    BY DEF IsValue
  <2>2. n \in Nat
    BY <2>1, PlaceIs
  <2> QED
    BY <2>1, <2>2
<1> DEFINE Deep(n) == \A p \in DOMAIN v : Len(p) > N - n => p \in P
           D == {n \in 0..(N + 1) : Deep(n)}
<1>2. Deep(0)
  BY <1>1, PlaceIs
<1>3. ASSUME NEW n \in 1..(N + 1), Deep(n - 1) PROVE Deep(n)
  <2> SUFFICES ASSUME NEW p \in DOMAIN v, Len(p) > N - n PROVE p \in P
    OBVIOUS
  <2>1. ASSUME NEW s \in Steps(v[p]) PROVE Append(p, s) \in P
    <3>1. Append(p, s) \in DOMAIN v /\ Len(Append(p, s)) = Len(p) + 1 /\ Len(p) \in Nat
      BY PlaceIs
    <3>2. Len(p) + 1 > N - (n - 1)
      BY <3>1
    <3> QED
      BY <1>3, <3>1, <3>2
  <2> QED
    BY <2>1
<1> HIDE DEF Deep
<1>4. 0 \in D /\ \A n \in 1..(N + 1) : n - 1 \in D => n \in D
  BY <1>2, <1>3
<1> HIDE DEF D
<1>5. \A n \in 0..(N + 1) : n \in D
  BY <1>4, UpTo
<1>6. Deep(N + 1)
  BY <1>5 DEF D
<1> QED
  BY <1>6, PlaceIs DEF Deep

-----------------------------------------------------------------------------
(* What is written at a place. *)

KeysAt(n) == IF n.js = "object" THEN n.keys ELSE {}

Scalars == {"number", "string", "undefined", "null", "symbol", "NaN", "true", "false", "buffer"}

LEMMA NodeSort ==
  ASSUME NEW n, IsNode(n)
  PROVE  /\ n.js \in Scalars \/ n.js = "array" \/ n.js \in {"object", "function"}
         /\ n.js = "array" => n.size \in Nat /\ Steps(n) = {Item(i) : i \in 1..n.size}
         /\ n.js # "array" => Steps(n) = {Field(k) : k \in KeysAt(n)}
         /\ IsFiniteSet(KeysAt(n))
<1>1. CASE n.js = "array"
  <2>1. n = JsArray(n.size) /\ n.size \in Nat
    BY <1>1 DEF IsNode
  <2>2. "size" \in DOMAIN JsArray(n.size)
    BY DEF JsArray
  <2> QED
    BY <1>1, <2>1, <2>2, FS_EmptySet DEF Steps, KeysAt
<1>2. CASE n.js = "object"
  <2>1. n = JsObject(n.keys) /\ IsFiniteSet(n.keys)
    BY <1>2 DEF IsNode
  <2>2. "size" \notin DOMAIN JsObject(n.keys) /\ "keys" \in DOMAIN JsObject(n.keys)
    BY DEF JsObject
  <2> QED
    BY <1>2, <2>1, <2>2 DEF Steps, KeysAt
<1>3. CASE n.js # "array" /\ n.js # "object"
  <2>1. n.js \in Scalars \/ n.js = "function"
    BY <1>3 DEF IsNode, Scalars
  <2>2. "size" \notin DOMAIN n /\ "keys" \notin DOMAIN n
    <3>1. \/ n = JsNumber(n.halves)
          \/ n = JsString(n.str)
          \/ n = Js(n.js)
      BY <1>3 DEF IsNode
    <3>2. "size" \notin DOMAIN JsNumber(n.halves) /\ "keys" \notin DOMAIN JsNumber(n.halves)
      BY DEF JsNumber
    <3>3. "size" \notin DOMAIN JsString(n.str) /\ "keys" \notin DOMAIN JsString(n.str)
      BY DEF JsString
    <3>4. "size" \notin DOMAIN Js(n.js) /\ "keys" \notin DOMAIN Js(n.js)
      BY DEF Js
    <3> QED
      BY <3>1, <3>2, <3>3, <3>4
  <2> QED
    BY <1>3, <2>1, <2>2, FS_EmptySet DEF Steps, KeysAt
<1> QED
  BY <1>1, <1>2, <1>3

\* The type that a node is written as.
LEMMA NodeType ==
  ASSUME NEW n, IsNode(n)
  PROVE  /\ n.js = "array" => BsonNode(n).type = "ARRAY" /\ BsonNode(n).size = n.size
         /\ n.js \in {"object", "function"} =>
               BsonNode(n).type = "OBJECT" /\ BsonNode(n).keys = KeysAt(n)
         /\ n.js \in Scalars => BsonNode(n).type # "ARRAY" /\ BsonNode(n).type # "OBJECT"
<1>1. CASE n.js = "array"
  <2>1. BsonNode(n) = Array(n.size)
    BY <1>1 DEF BsonNode
  <2> QED
    BY <1>1, <2>1 DEF Array, Scalars
<1>2. CASE n.js = "object"
  <2>1. BsonNode(n) = Object(n.keys)
    BY <1>2 DEF BsonNode
  <2> QED
    BY <1>2, <2>1 DEF Object, Scalars, KeysAt
<1>3. CASE n.js = "function"
  <2>1. BsonNode(n) = Object({})
    BY <1>3 DEF BsonNode
  <2> QED
    BY <1>3, <2>1 DEF Object, Scalars, KeysAt
<1>4. CASE n.js \in Scalars
  <2>1. CASE n.js = "number"
    <3>1. BsonNode(n) = Integer(n.halves) \/ BsonNode(n) = Double(n.halves)
      BY <2>1 DEF BsonNode
    <3> QED
      BY <2>1, <3>1 DEF Integer, Double
  <2>2. CASE n.js = "string"
    <3>1. BsonNode(n) = String(n.str)
      BY <2>2 DEF BsonNode
    <3> QED
      BY <2>2, <3>1 DEF String
  <2>3. CASE n.js \in {"undefined", "null", "symbol"}
    <3>1. BsonNode(n) = Nul
      BY <2>3 DEF BsonNode
    <3> QED
      BY <2>3, <3>1 DEF Nul
  <2>4. CASE n.js \in {"true", "false"}
    <3>1. BsonNode(n) = Bool(n.js = "true")
      BY <2>4 DEF BsonNode
    <3> QED
      BY <2>4, <3>1 DEF Bool
  <2>5. CASE n.js = "NaN"
    <3>1. BsonNode(n) = NotFinite
      BY <2>5 DEF BsonNode
    <3> QED
      BY <2>5, <3>1 DEF NotFinite
  <2>6. CASE n.js = "buffer"
    <3>1. BsonNode(n) = Binary
      BY <2>6 DEF BsonNode
    <3> QED
      BY <2>6, <3>1 DEF Binary
  <2> QED
    BY <1>4, <2>1, <2>2, <2>3, <2>4, <2>5, <2>6 DEF Scalars
<1> QED
  BY <1>1, <1>2, <1>3, <1>4, NodeSort

PlaceBson(v) == [p \in DOMAIN v |-> BsonNode(v[p])]

ItemTexts(n, T, p) == [i \in 1..n |-> T[Append(p, Item(i))]]

MemberTexts(keys, T, p) ==
    [i \in DOMAIN keys |-> <<Spelt(keys[i]), Punct("colon")>> \o T[Append(p, Field(keys[i]))]]

LEMMA DumpIs ==
  ASSUME NEW v, IsValue(v), NEW p \in DOMAIN v, NEW T
  PROVE  LET n == v[p]
             t == DumpNode(PlaceBson(v), T, p)
         IN /\ n.js = "array" => t = <<Punct("bracket")>> \o Commas(ItemTexts(n.size, T, p))
                                       \o <<Punct("endbracket")>>
            /\ n.js \in {"object", "function"} =>
                  t = <<Punct("brace")>> \o Commas(MemberTexts(SetToSeq(KeysAt(n)), T, p))
                        \o <<Punct("endbrace")>>
            /\ n.js \in Scalars => t = <<Plain(BsonNode(n))>>
<1> DEFINE n == v[p]
           b == PlaceBson(v)
           t == DumpNode(b, T, p)
<1>1. b[p] = BsonNode(n)
  BY DEF PlaceBson
<1>2. IsNode(n)
  BY PlaceIs
<1> HIDE DEF n, b
<1>3. ASSUME n.js = "array"
      PROVE  t = <<Punct("bracket")>> \o Commas(ItemTexts(n.size, T, p)) \o <<Punct("endbracket")>>
  <2>1. b[p].type = "ARRAY" /\ b[p].size = n.size
    BY <1>1, <1>2, <1>3, NodeType
  <2> QED
    BY <2>1 DEF DumpNode, ItemTexts
<1>4. ASSUME n.js \in {"object", "function"}
      PROVE  t = <<Punct("brace")>> \o Commas(MemberTexts(SetToSeq(KeysAt(n)), T, p))
                   \o <<Punct("endbrace")>>
  <2>1. b[p].type = "OBJECT" /\ b[p].keys = KeysAt(n)
    BY <1>1, <1>2, <1>4, NodeType
  <2>2. b[p].type # "ARRAY"
    BY <2>1
  <2> QED
    BY <2>1, <2>2 DEF DumpNode, MemberTexts
<1>5. ASSUME n.js \in Scalars PROVE t = <<Plain(BsonNode(n))>>
  <2>1. b[p].type # "ARRAY" /\ b[p].type # "OBJECT"
    BY <1>1, <1>2, <1>5, NodeType
  <2> QED
    BY <1>1, <2>1 DEF DumpNode
<1> QED
  BY <1>3, <1>4, <1>5 DEF n, b

\* Only the texts of the values below count.
LEMMA DumpSame ==
  ASSUME NEW v, IsValue(v), NEW p \in DOMAIN v, NEW T, NEW U,
         \A s \in Steps(v[p]) : T[Append(p, s)] = U[Append(p, s)]
  PROVE  DumpNode(PlaceBson(v), T, p) = DumpNode(PlaceBson(v), U, p)
<1> DEFINE n == v[p]
<1>1. IsNode(n)
  BY PlaceIs
<1>2. CASE n.js = "array"
  <2>1. \A i \in 1..n.size : T[Append(p, Item(i))] = U[Append(p, Item(i))]
    BY <1>1, <1>2, NodeSort
  <2>2. ItemTexts(n.size, T, p) = ItemTexts(n.size, U, p)
    BY <2>1 DEF ItemTexts
  <2> QED
    BY <1>2, <2>2, DumpIs, SMTT(30)
<1>3. CASE n.js \in {"object", "function"}
  <2> DEFINE S == KeysAt(n)
             keys == SetToSeq(S)
  <2>1. IsFiniteSet(S) /\ \A k \in S : T[Append(p, Field(k))] = U[Append(p, Field(k))]
    BY <1>1, <1>3, NodeSort
  <2>2. \A i \in DOMAIN keys : keys[i] \in S
    BY <2>1, KeysInOrder
  <2>3. MemberTexts(keys, T, p) = MemberTexts(keys, U, p)
    <3> HIDE DEF keys, S
    <3> QED
      BY <2>1, <2>2 DEF MemberTexts
  <2> QED
    BY <1>3, <2>3, DumpIs, ZenonT(30)
<1>4. CASE n.js \in Scalars
  BY <1>4, DumpIs
<1> QED
  BY <1>1, <1>2, <1>3, <1>4, NodeSort

-----------------------------------------------------------------------------
(* There are such texts, and Dump is the one of the whole. *)

Written(v, T) == T = [p \in DOMAIN v |-> DumpNode(PlaceBson(v), T, p)]

DeepSame(v, T, U, n) == \A p \in DOMAIN v : Len(p) > n => T[p] = U[p]

LEMMA TextStage ==
  ASSUME NEW v, IsValue(v), NEW n \in Int, NEW T, NEW U,
         U = [p \in DOMAIN v |-> DumpNode(PlaceBson(v), T, p)], DeepSame(v, T, U, n)
  PROVE  \E W : W = [p \in DOMAIN v |-> DumpNode(PlaceBson(v), U, p)] /\ DeepSame(v, U, W, n - 1)
<1> DEFINE W == [p \in DOMAIN v |-> DumpNode(PlaceBson(v), U, p)]
<1>1. ASSUME NEW p \in DOMAIN v, Len(p) > n - 1 PROVE U[p] = W[p]
  <2>1. ASSUME NEW s \in Steps(v[p]) PROVE T[Append(p, s)] = U[Append(p, s)]
    <3>1. Append(p, s) \in DOMAIN v /\ Len(Append(p, s)) = Len(p) + 1 /\ Len(p) \in Nat
      BY PlaceIs
    <3>2. Len(p) + 1 > n
      BY <1>1, <3>1
    <3> QED
      BY <3>1, <3>2 DEF DeepSame
  <2>2. DumpNode(PlaceBson(v), T, p) = DumpNode(PlaceBson(v), U, p)
    BY <2>1, DumpSame
  <2> QED
    BY <2>2
<1>2. DeepSame(v, U, W, n - 1)
  <2> HIDE DEF W
  <2> QED
    BY <1>1 DEF DeepSame
<1> QED
  BY <1>2

LEMMA TextsAre ==
  ASSUME NEW v, IsValue(v)
  PROVE  \E T : Written(v, T) /\ Dump(PlaceBson(v)) = T[<<>>]
<1> DEFINE b == PlaceBson(v)
           Next1(T) == [p \in DOMAIN v |-> DumpNode(b, T, p)]
<1>1. PICK N \in Nat : \A p \in DOMAIN v : Len(p) <= N
  <2>1. PICK n \in {Len(p) : p \in DOMAIN v} : \A p \in DOMAIN v : Len(p) <= n
    BY DEF IsValue
  <2>2. n \in Nat
    BY <2>1, PlaceIs
  <2> QED
    BY <2>1, <2>2
<1> DEFINE Stage(n) == \E T, U : U = Next1(T) /\ DeepSame(v, T, U, N - n)
           P == {n \in 0..(N + 1) : Stage(n)}
<1>2. Stage(0)
  <2>1. DeepSame(v, <<>>, Next1(<<>>), N - 0)
    BY <1>1, PlaceIs DEF DeepSame
  <2> QED
    BY <2>1
<1>3. ASSUME NEW n \in 1..(N + 1), Stage(n - 1) PROVE Stage(n)
  <2>1. PICK T, U : U = Next1(T) /\ DeepSame(v, T, U, N - (n - 1))
    BY <1>3
  <2>2. N - (n - 1) \in Int /\ N - (n - 1) - 1 = N - n
    OBVIOUS
  <2>3. \E W : W = Next1(U) /\ DeepSame(v, U, W, N - (n - 1) - 1)
    BY <2>1, <2>2, TextStage
  <2> QED
    BY <2>2, <2>3
<1> HIDE DEF Stage
<1>4. 0 \in P /\ \A n \in 1..(N + 1) : n - 1 \in P => n \in P
  BY <1>2, <1>3
<1> HIDE DEF P
<1>5. \A n \in 0..(N + 1) : n \in P
  BY <1>4, UpTo
<1>6. Stage(N + 1)
  BY <1>5 DEF P
<1>7. PICK T, U : U = Next1(T) /\ DeepSame(v, T, U, N - (N + 1))
  BY <1>6 DEF Stage
<1>8. \A p \in DOMAIN v : T[p] = U[p]
  BY <1>7, PlaceIs DEF DeepSame
<1>9. ASSUME NEW p \in DOMAIN v PROVE U[p] = DumpNode(b, U, p)
  <2>1. \A s \in Steps(v[p]) : T[Append(p, s)] = U[Append(p, s)]
    BY <1>8, PlaceIs
  <2>2. DumpNode(b, T, p) = DumpNode(b, U, p)
    BY <2>1, DumpSame
  <2> QED
    BY <1>7, <2>2
<1>10. U = Next1(U)
  BY <1>7, <1>9
<1> DEFINE F == CHOOSE T0 : T0 = [p \in DOMAIN b |-> DumpNode(b, T0, p)]
<1>11. DOMAIN b = DOMAIN v
  BY DEF PlaceBson
<1>12. F = [p \in DOMAIN b |-> DumpNode(b, F, p)]
  BY <1>10, <1>11
<1>13. Dump(b) = F[<<>>]
  BY DEF Dump
<1> HIDE DEF F
<1> QED
  BY <1>11, <1>12, <1>13 DEF Written

-----------------------------------------------------------------------------
(* Texts with commas between them, from the last one on. *)

\* What this writer writes.
Tame == AllTokens \ {Word("comment")}

Texts == Seq(Tame)

IsChain(tail, texts, n) ==
    /\ tail \in [1..n -> Texts] /\ tail[n] = texts[n]
    /\ \A i \in 1..(n - 1) : tail[i] = texts[i] \o <<Punct("comma")>> \o tail[i + 1]

LEMMA PunctText == ASSUME NEW p \in Puncts PROVE <<Punct(p)>> \in Texts
<1>1. Punct(p) \in AllTokens
  BY DEF AllTokens
<1>2. Punct(p) \in Tame
  BY <1>1, SortsOfTokens DEF Tame
<1> QED
  BY <1>2 DEF Texts

LEMMA BehindComma ==
  ASSUME NEW a \in Texts, NEW b \in Texts
  PROVE  a \o <<Punct("comma")>> \o b \in Texts
<1>1. <<Punct("comma")>> \in Texts
  <2>1. "comma" \in Puncts
    BY DEF Puncts
  <2> QED
    BY <2>1, PunctText
<1> QED
  BY <1>1 DEF Texts

LEMMA CommasAre ==
  ASSUME NEW n \in Nat, NEW texts \in [1..n -> Texts]
  PROVE  /\ n = 0 => Commas(texts) = <<>>
         /\ n # 0 => \E tail : IsChain(tail, texts, n) /\ Commas(texts) = tail[1]
<1>1. n = 0 => texts = <<>>
  <2> SUFFICES ASSUME n = 0 PROVE texts = <<>>
    OBVIOUS
  <2>1. DOMAIN texts = {}
    OBVIOUS
  <2>2. texts \in Seq(Texts) /\ Len(texts) = 0
    OBVIOUS
  <2> QED
    BY <2>2
<1>2. ASSUME n # 0 PROVE \E tail : IsChain(tail, texts, n) /\ Commas(texts) = tail[1]
  <2>1. texts \in Seq(Texts) /\ Len(texts) = n /\ DOMAIN texts = 1..n /\ texts # <<>>
    BY <1>2
  <2> DEFINE G == [j \in 1..(n - 1) |-> [s \in Texts |-> texts[n - j] \o <<Punct("comma")>> \o s]]
  <2>2. \A j \in 1..(n - 1) : n - j \in 1..n /\ texts[n - j] \in Texts
    OBVIOUS
  <2>3. G \in [1..(n - 1) -> [Texts -> Texts]]
    BY <2>2, BehindComma
  <2>4. n - 1 \in Nat /\ texts[n] \in Texts
    BY <1>2
  <2>5. PICK g : AreRounds(g, n - 1, Texts, texts[n], G)
    <3> HIDE DEF G
    <3> QED
      BY <2>3, <2>4, Rounds
  <2>6. /\ g \in [0..(n - 1) -> Texts] /\ g[0] = texts[n]
        /\ \A j \in 1..(n - 1) : g[j] = texts[n - j] \o <<Punct("comma")>> \o g[j - 1]
    <3>1. /\ g \in [0..(n - 1) -> Texts] /\ g[0] = texts[n]
          /\ \A j \in 1..(n - 1) : g[j] = G[j][g[j - 1]]
      BY <2>5 DEF AreRounds
    <3>2. \A j \in 1..(n - 1) : g[j - 1] \in Texts
      BY <2>4, <3>1
    <3> QED
      BY <3>1, <3>2
  <2> HIDE DEF G
  <2> DEFINE h == [i \in 1..n |-> g[n - i]]
  <2>7. ASSUME NEW i \in 1..(n - 1) PROVE h[i] = texts[i] \o <<Punct("comma")>> \o h[i + 1]
    <3>1. n - i \in 1..(n - 1) /\ n - (n - i) = i /\ n - i - 1 = n - (i + 1) /\ i + 1 \in 1..n /\ i \in 1..n
      BY <2>4
    <3>2. h[i] = g[n - i] /\ h[i + 1] = g[n - (i + 1)]
      BY <3>1
    <3>3. g[n - i] = texts[n - (n - i)] \o <<Punct("comma")>> \o g[n - i - 1]
      BY <2>6, <3>1
    <3> QED
      BY <3>1, <3>2, <3>3
  <2>8. h[n] = texts[n]
    BY <1>2, <2>6
  <2> HIDE DEF h
  <2>9. h = [i \in DOMAIN texts |->
               IF i = Len(texts) THEN texts[i] ELSE texts[i] \o <<Punct("comma")>> \o h[i + 1]]
    <3>1. DOMAIN h = 1..n /\ h = [i \in 1..n |-> h[i]]
      BY DEF h
    <3>2. \A i \in 1..n : i # n => i \in 1..(n - 1)
      OBVIOUS
    <3> QED
      BY <2>1, <2>7, <2>8, <3>1, <3>2
  <2> DEFINE F == CHOOSE f : f = [i \in DOMAIN texts |->
               IF i = Len(texts) THEN texts[i] ELSE texts[i] \o <<Punct("comma")>> \o f[i + 1]]
  <2>10. F = [i \in DOMAIN texts |->
               IF i = Len(texts) THEN texts[i] ELSE texts[i] \o <<Punct("comma")>> \o F[i + 1]]
    BY <2>9
  <2>11. Commas(texts) = F[1]
    BY <2>1 DEF Commas
  <2> HIDE DEF F
  <2>12. F[n] = texts[n] /\ DOMAIN F = 1..n
    BY <1>2, <2>1, <2>10
  <2>13. \A i \in 1..(n - 1) : F[i] = texts[i] \o <<Punct("comma")>> \o F[i + 1]
    <3>1. \A i \in 1..(n - 1) : i \in DOMAIN texts /\ i # Len(texts)
      BY <2>1
    <3> QED
      BY <2>10, <3>1
  <2> DEFINE D == {j \in 0..(n - 1) : F[n - j] \in Texts}
  <2>14. 0 \in D /\ \A j \in 1..(n - 1) : j - 1 \in D => j \in D
    <3>1. 0 \in D
      BY <2>4, <2>12
    <3>2. ASSUME NEW j \in 1..(n - 1), j - 1 \in D PROVE j \in D
      <4>1. n - j \in 1..(n - 1) /\ (n - j) + 1 = n - (j - 1)
        BY <2>4
      <4>2. F[n - j] = texts[n - j] \o <<Punct("comma")>> \o F[n - (j - 1)]
        BY <2>13, <4>1
      <4>3. texts[n - j] \in Texts /\ F[n - (j - 1)] \in Texts
        BY <2>2, <3>2
      <4>4. texts[n - j] \o <<Punct("comma")>> \o F[n - (j - 1)] \in Texts
        BY <4>3, BehindComma
      <4> DEFINE x == texts[n - j] \o <<Punct("comma")>> \o F[n - (j - 1)]
      <4>5. F[n - j] = x /\ x \in Texts
        BY <4>2, <4>4
      <4> HIDE DEF x
      <4>6. F[n - j] \in Texts /\ j \in 0..(n - 1)
        BY <4>5
      <4> QED
        BY <4>6
    <3> QED
      BY <3>1, <3>2
  <2> HIDE DEF D
  <2>15. \A j \in 0..(n - 1) : j \in D
    BY <2>4, <2>14, UpTo
  <2>16. \A i \in 1..n : F[i] \in Texts
    <3>1. \A i \in 1..n : n - i \in 0..(n - 1) /\ n - (n - i) = i
      OBVIOUS
    <3> QED
      BY <2>15, <3>1 DEF D
  <2>17. F = [i \in 1..n |-> F[i]]
    BY <2>10, <2>12
  <2>18. IsChain(F, texts, n)
    BY <2>12, <2>13, <2>16, <2>17 DEF IsChain
  <2> QED
    BY <2>11, <2>18
<1> QED
  BY <1>1, <1>2 DEF Commas

LEMMA CommasText ==
  ASSUME NEW n \in Nat, NEW texts \in [1..n -> Texts]
  PROVE  Commas(texts) \in Texts
<1>1. CASE n = 0
  <2>1. <<>> \in Texts
    BY DEF Texts
  <2> QED
    BY <1>1, <2>1, CommasAre
<1>2. CASE n # 0
  <2>1. PICK tail : IsChain(tail, texts, n) /\ Commas(texts) = tail[1]
    BY <1>2, CommasAre
  <2> QED
    BY <1>2, <2>1 DEF IsChain
<1> QED
  BY <1>1, <1>2

LEMMA SpeltIs ==
  ASSUME NEW k \in Seq(Runes)
  PROVE  /\ Spelt(k) \in Tame
         /\ "str" \in DOMAIN Spelt(k) /\ Spelling(Spelt(k).str) = k
<1> DEFINE c == [i \in DOMAIN k |-> [char |-> k[i], escaped |-> k[i] \in {"nul", "control", "separator"}]]
<1>1. Len(k) \in Nat /\ k \in [1..Len(k) -> Runes] /\ DOMAIN k = 1..Len(k)
  OBVIOUS
<1>2. c \in [1..Len(k) -> Chars]
  <2>1. \A i \in 1..Len(k) : k[i] \in Runes
    BY <1>1
  <2>2. \A i \in 1..Len(k) : [char |-> k[i], escaped |-> k[i] \in {"nul", "control", "separator"}] \in Chars
    BY <2>1 DEF Chars
  <2> QED
    BY <1>1, <2>2
<1>3. \A i \in 1..Len(k) : c[i].char = k[i]
  BY <1>1
<1>4. Spelt(k) = Str(c)
  BY DEF Spelt
<1> HIDE DEF c
<1>5. c \in Seq(Chars) /\ DOMAIN c = 1..Len(k)
  BY <1>1, <1>2
<1>6. Str(c) \in Tame
  <2>1. Str(c) \in AllTokens
    BY <1>5 DEF AllTokens
  <2> QED
    BY <2>1, SortsOfTokens DEF Tame
<1>7. Spelling(c) = k
  BY <1>1, <1>3, <1>5 DEF Spelling
<1> QED
  BY <1>4, <1>6, <1>7, SortsOfTokens

\* One token for a value without others.
LEMMA PlainIs ==
  ASSUME NEW n, IsNode(n), n.js \in Scalars
  PROVE  LET t == Plain(BsonNode(n))
         IN /\ n.js = "number" => n.halves \in Int /\ t = Num(n.halves)
            /\ n.js = "string" => t = Spelt(n.str)
            /\ n.js = "true" => t = Word("true")
            /\ n.js = "false" => t = Word("false")
            /\ n.js \in {"undefined", "null", "symbol", "NaN", "buffer"} => t = Word("null")
<1>1. ASSUME n.js = "number" PROVE n.halves \in Int /\ Plain(BsonNode(n)) = Num(n.halves)
  <2>1. n.halves \in Int
    BY <1>1 DEF IsNode
  <2> DEFINE b == BsonNode(n)
  <2>2. b = Integer(n.halves) \/ b = Double(n.halves)
    BY <1>1 DEF BsonNode
  <2>3. "halves" \in DOMAIN Integer(n.halves) /\ "halves" \in DOMAIN Double(n.halves)
    BY DEF Integer, Double
  <2>4. "halves" \notin DOMAIN Nul /\ "halves" \notin DOMAIN NotFinite /\ "halves" \notin DOMAIN Binary
    BY DEF Nul, NotFinite, Binary
  <2>5. b.halves = n.halves /\ b.type \in {"INT", "DOUBLE"}
    BY <2>2 DEF Integer, Double
  <2> HIDE DEF b
  <2>6. b # NotFinite /\ b \notin {Nul, NotFinite, Binary}
    BY <2>2, <2>3, <2>4
  <2>7. b.type # "BOOL" /\ b.type # "STRING"
    BY <2>5
  <2> QED
    BY <2>1, <2>5, <2>6, <2>7 DEF Plain, b
<1>2. ASSUME n.js = "string" PROVE Plain(BsonNode(n)) = Spelt(n.str)
  <2>1. BsonNode(n) = String(n.str)
    BY <1>2 DEF BsonNode
  <2>2. String(n.str).type = "STRING" /\ String(n.str).str = n.str
    BY DEF String
  <2>3. String(n.str) \notin {Nul, NotFinite, Binary}
    BY <2>2 DEF Nul, NotFinite, Binary
  <2> HIDE DEF String
  <2> QED
    BY <2>1, <2>2, <2>3 DEF Plain
<1>3. ASSUME n.js \in {"true", "false"}
      PROVE  Plain(BsonNode(n)) = Word(IF n.js = "true" THEN "true" ELSE "false")
  <2>1. BsonNode(n) = Bool(n.js = "true")
    BY <1>3 DEF BsonNode
  <2> DEFINE x == n.js = "true"
  <2>2. Bool(x).type = "BOOL" /\ (Bool(x).bool <=> x)
    BY DEF Bool
  <2>3. Bool(x) \notin {Nul, NotFinite, Binary}
    BY <2>2 DEF Nul, NotFinite, Binary
  <2>4. Plain(Bool(x)) = Word(IF Bool(x).bool THEN "true" ELSE "false")
    BY <2>2, <2>3 DEF Plain
  <2> QED
    BY <2>1, <2>2, <2>4
<1>4. ASSUME n.js \in {"undefined", "null", "symbol", "NaN", "buffer"}
      PROVE  Plain(BsonNode(n)) = Word("null")
  <2>1. BsonNode(n) \in {Nul, NotFinite, Binary}
    <3>1. CASE n.js \in {"undefined", "null", "symbol"}
      BY <3>1 DEF BsonNode
    <3>2. CASE n.js = "NaN"
      BY <3>2 DEF BsonNode
    <3>3. CASE n.js = "buffer"
      BY <3>3 DEF BsonNode
    <3> QED
      BY <1>4, <3>1, <3>2, <3>3
  <2>2. Nul.type # "BOOL" /\ Nul.type # "STRING" /\ Nul.type # "INT"
    BY DEF Nul
  <2> QED
    BY <2>1 DEF Plain, Nul, NotFinite, Binary
<1> QED
  BY <1>1, <1>2, <1>3, <1>4

LEMMA TameWords == Word("null") \in Tame /\ Word("true") \in Tame /\ Word("false") \in Tame
<1>1. ASSUME NEW w \in Words, w # "comment" PROVE Word(w) \in Tame
  <2>1. Word(w) \in AllTokens
    BY DEF AllTokens
  <2>2. Word(w) # Word("comment")
    BY <1>1, SameWord
  <2> QED
    BY <2>1, <2>2 DEF Tame
<1> QED
  BY <1>1 DEF Words

\* Every text is one of tokens.
LEMMA TokensBelow ==
  ASSUME NEW v, IsValue(v), NEW T, Written(v, T)
  PROVE  \A p \in DOMAIN v : T[p] \in Texts
<1> DEFINE P == {p \in DOMAIN v : T[p] \in Texts}
<1> SUFFICES ASSUME NEW p \in DOMAIN v, \A s \in Steps(v[p]) : Append(p, s) \in P
             PROVE  p \in P
  <2> HIDE DEF P
  <2>1. \A p \in DOMAIN v : p \in P
    BY PlaceInduction
  <2> QED
    BY <2>1 DEF P
<1> DEFINE n == v[p]
<1>1. \A s \in Steps(n) : T[Append(p, s)] \in Texts
  OBVIOUS
<1>2. T[p] = DumpNode(PlaceBson(v), T, p)
  BY DEF Written
<1>3. IsNode(n)
  BY PlaceIs
<1>4. \A a, b, c \in Texts : a \o b \in Texts /\ a \o b \o c \in Texts
  BY DEF Texts
<1>5. /\ <<Punct("bracket")>> \in Texts /\ <<Punct("endbracket")>> \in Texts
      /\ <<Punct("brace")>> \in Texts /\ <<Punct("endbrace")>> \in Texts
  <2>1. "bracket" \in Puncts /\ "endbracket" \in Puncts /\ "brace" \in Puncts /\ "endbrace" \in Puncts
    BY DEF Puncts
  <2> QED
    BY <2>1, PunctText
<1>6. CASE n.js = "array"
  <2>1. n.size \in Nat /\ \A i \in 1..n.size : T[Append(p, Item(i))] \in Texts
    BY <1>1, <1>3, <1>6, NodeSort
  <2>2. ItemTexts(n.size, T, p) \in [1..n.size -> Texts]
    BY <2>1 DEF ItemTexts
  <2>3. Commas(ItemTexts(n.size, T, p)) \in Texts
    BY <2>1, <2>2, CommasText
  <2>4. T[p] = <<Punct("bracket")>> \o Commas(ItemTexts(n.size, T, p)) \o <<Punct("endbracket")>>
    BY <1>2, <1>6, DumpIs
  <2>5. <<Punct("bracket")>> \o Commas(ItemTexts(n.size, T, p)) \o <<Punct("endbracket")>> \in Texts
    BY <1>4, <1>5, <2>3
  <2> QED
    BY <2>4, <2>5
<1>7. CASE n.js \in {"object", "function"}
  <2> DEFINE S == KeysAt(n)
             keys == SetToSeq(S)
             m == Len(keys)
             texts == MemberTexts(keys, T, p)
  <2>1. IsFiniteSet(S) /\ \A k \in S : T[Append(p, Field(k))] \in Texts
    BY <1>1, <1>3, <1>7, NodeSort
  <2>2. DOMAIN keys = 1..m /\ m \in Nat /\ \A i \in 1..m : keys[i] \in S
    <3>1. keys \in Seq(S) /\ DOMAIN keys = 1..m
      BY <2>1, KeysInOrder
    <3> HIDE DEF keys
    <3> QED
      BY <3>1
  <2>3. S \subseteq Seq(Runes)
    BY PlaceIs DEF KeysAt
  <2>4. \A i \in 1..m : texts[i] \in Texts
    <3> HIDE DEF keys, m, S
    <3> SUFFICES ASSUME NEW i \in 1..m
                 PROVE  <<Spelt(keys[i]), Punct("colon")>> \o T[Append(p, Field(keys[i]))] \in Texts
      BY <2>2 DEF MemberTexts
    <3>1. Spelt(keys[i]) \in Tame
      BY <2>2, <2>3, SpeltIs
    <3>2. Punct("colon") \in Tame
      <4>1. Punct("colon") \in AllTokens
        BY DEF AllTokens, Puncts
      <4> QED
        BY <4>1, SortsOfTokens DEF Tame
    <3>3. <<Spelt(keys[i]), Punct("colon")>> \in Texts
      BY <3>1, <3>2 DEF Texts
    <3>4. T[Append(p, Field(keys[i]))] \in Texts
      BY <2>1, <2>2
    <3> QED
      BY <1>4, <3>3, <3>4
  <2>5. texts \in [1..m -> Texts]
    <3>1. texts = [i \in 1..m |-> texts[i]]
      <4> HIDE DEF keys
      <4> QED
        BY <2>2 DEF MemberTexts
    <3> HIDE DEF texts, m
    <3> QED
      BY <2>4, <3>1
  <2>6. Commas(texts) \in Texts
    <3> HIDE DEF texts, m
    <3> QED
      BY <2>2, <2>5, CommasText
  <2>7. T[p] = <<Punct("brace")>> \o Commas(texts) \o <<Punct("endbrace")>>
    BY <1>2, <1>7, DumpIs
  <2>8. <<Punct("brace")>> \o Commas(texts) \o <<Punct("endbrace")>> \in Texts
    BY <1>4, <1>5, <2>6
  <2> QED
    BY <2>7, <2>8
<1>8. CASE n.js \in Scalars
  <2> DEFINE t == Plain(BsonNode(n))
  <2>1. T[p] = <<t>>
    BY <1>2, <1>8, DumpIs
  <2>2. t \in Tame
    <3>1. CASE n.js = "number"
      <4>1. t = Num(v[p].halves) /\ v[p].halves \in Int
        BY <1>3, <1>8, <3>1, PlainIs
      <4> HIDE DEF t
      <4>2. t \in AllTokens
        BY <4>1 DEF AllTokens
      <4> QED
        BY <4>1, <4>2, SortsOfTokens DEF Tame
    <3>2. CASE n.js = "string"
      <4>1. n.str \in Seq(Runes)
        BY <3>2, PlaceIs
      <4> QED
        BY <1>3, <1>8, <3>2, <4>1, PlainIs, SpeltIs
    <3>3. CASE n.js \in {"undefined", "null", "symbol", "NaN", "buffer"}
      <4>1. t = Word("null")
        BY <1>3, <1>8, <3>3, PlainIs
      <4> QED
        BY <4>1, TameWords
    <3>4. CASE n.js = "true"
      <4>1. t = Word("true")
        BY <1>3, <1>8, <3>4, PlainIs
      <4> QED
        BY <4>1, TameWords
    <3>5. CASE n.js = "false"
      <4>1. t = Word("false")
        BY <1>3, <1>8, <3>5, PlainIs
      <4> QED
        BY <4>1, TameWords
    <3> QED
      BY <1>8, <3>1, <3>2, <3>3, <3>4, <3>5 DEF Scalars
  <2> HIDE DEF t
  <2>3. <<t>> \in Texts
    BY <2>2 DEF Texts
  <2> QED
    BY <2>1, <2>3
<1> QED
  BY <1>3, <1>6, <1>7, <1>8, NodeSort

-----------------------------------------------------------------------------
(* A text that stands in the text from k on. *)

SameToken(x, y) ==
    \/ x = y
    \/ "str" \in DOMAIN x /\ "str" \in DOMAIN y /\ Spelling(x.str) = Spelling(y.str)

Stands(t, k) ==
    /\ k + Len(t) <= Size + 1
    /\ \A i \in 1..Len(t) : SameToken(text[k + i - 1], t[i])

Clean == \A i \in 1..Size : ~Garbage(i)

LEMMA CleanSkip ==
  ASSUME OfTokens, Clean, NEW i \in 1..(Size + 1) PROVE Skip(i) = i
<1>1. Size \in Nat
  BY SizeIs
<1>2. IsNext(i, i)
  <2>1. Blank(i, i - 1)
    BY <1>1 DEF Blank
  <2>2. i <= Size => ~Garbage(i)
    BY <1>1 DEF Clean
  <2>3. i \in i..(Size + 1)
    BY <1>1
  <2> QED
    BY <2>1, <2>2, <2>3 DEF IsNext
<1> QED
  BY <1>2, NextIs

LEMMA StandsParts ==
  ASSUME OfTokens, NEW a \in Texts, NEW b \in Texts, NEW k \in 1..(Size + 1), Stands(a \o b, k)
  PROVE  /\ Stands(a, k) /\ Stands(b, k + Len(a))
         /\ k + Len(a) \in 1..(Size + 1) /\ k + Len(a) + Len(b) = k + Len(a \o b)
         /\ k + Len(a) + Len(b) \in 1..(Size + 1)
<1>1. /\ a \o b \in Texts /\ Len(a) \in Nat /\ Len(b) \in Nat
      /\ Len(a \o b) = Len(a) + Len(b)
      /\ \A j \in 1..Len(a) : (a \o b)[j] = a[j]
      /\ \A j \in 1..Len(b) : (a \o b)[Len(a) + j] = b[j]
  BY Joined DEF Texts
<1>2. Size \in Nat
  BY SizeIs
<1> DEFINE c == a \o b
           m == Len(a)
           n == Len(b)
<1> HIDE DEF c, m, n
<1>3. k + (m + n) <= Size + 1 /\ \A i \in 1..(m + n) : SameToken(text[k + i - 1], c[i])
  BY <1>1 DEF Stands, c, m, n
<1>4. m \in Nat /\ n \in Nat
  BY <1>1 DEF m, n
<1>5. \A i \in 1..m : SameToken(text[k + i - 1], a[i])
  <2>1. \A i \in 1..m : i \in 1..(m + n) /\ c[i] = a[i]
    BY <1>1, <1>4 DEF c, m
  <2> QED
    BY <1>3, <2>1
<1>6. \A i \in 1..n : SameToken(text[(k + m) + i - 1], b[i])
  <2> SUFFICES ASSUME NEW i \in 1..n PROVE SameToken(text[(k + m) + i - 1], b[i])
    OBVIOUS
  <2>1. m + i \in 1..(m + n) /\ k + (m + i) - 1 = (k + m) + i - 1
    BY <1>4
  <2>2. c[m + i] = b[i]
    BY <1>1 DEF c, m, n
  <2>3. SameToken(text[k + (m + i) - 1], c[m + i])
    BY <1>3, <2>1
  <2> QED
    BY <2>1, <2>2, <2>3
<1>7. k + m <= Size + 1 /\ (k + m) + n <= Size + 1 /\ k + m \in 1..(Size + 1)
      /\ k + m + n = k + (m + n) /\ k + m + n \in 1..(Size + 1)
  BY <1>2, <1>3, <1>4
<1> QED
  BY <1>1, <1>5, <1>6, <1>7 DEF Stands, m, n

LEMMA StandsOne ==
  ASSUME OfTokens, NEW t, NEW k \in 1..(Size + 1), Stands(<<t>>, k)
  PROVE  k \in 1..Size /\ SameToken(text[k], t) /\ text[k] \in AllTokens /\ k + Len(<<t>>) = k + 1
<1>1. Len(<<t>>) = 1 /\ <<t>>[1] = t
  OBVIOUS
<1>2. k + 1 <= Size + 1 /\ SameToken(text[k + 1 - 1], t)
  <2>1. 1 \in 1..1
    OBVIOUS
  <2> QED
    BY <1>1, <2>1 DEF Stands
<1>3. Size \in Nat /\ k \in 1..Size /\ k + 1 - 1 = k
  BY <1>2, SizeIs
<1> QED
  BY <1>1, <1>2, <1>3, SizeIs

\* Only a string may be another token than what was written.
LEMMA StandsPunct ==
  ASSUME OfTokens, NEW p, NEW k \in 1..(Size + 1), Stands(<<Punct(p)>>, k)
  PROVE  /\ k \in 1..Size /\ text[k] = Punct(p) /\ k + Len(<<Punct(p)>>) = k + 1
         /\ At(k, p) /\ k + 1 \in 1..(Size + 1)
<1>1. k \in 1..Size /\ SameToken(text[k], Punct(p)) /\ k + Len(<<Punct(p)>>) = k + 1
  BY StandsOne
<1>2. text[k] = Punct(p)
  BY <1>1, SortsOfTokens DEF SameToken
<1>3. k + 1 \in 1..(Size + 1)
  BY <1>1, SizeIs
<1> QED
  BY <1>1, <1>2, <1>3, AtToken

-----------------------------------------------------------------------------
(* What is below a place. *)

LEMMA FirstStep ==
  ASSUME NEW A, NEW p \in Seq(A), NEW s \in A, NEW q \in Seq(A)
  PROVE  /\ <<s>> \o q \in Seq(A) /\ <<s>> \o q # <<>>
         /\ Head(<<s>> \o q) = s /\ Tail(<<s>> \o q) = q
         /\ p \o (<<s>> \o q) = Append(p, s) \o q
<1>1. <<s>> \o q \in Seq(A) /\ Len(<<s>> \o q) = Len(q) + 1 /\ (<<s>> \o q)[1] = s /\ Len(q) \in Nat
  OBVIOUS
<1>2. <<s>> \o q # <<>>
  BY <1>1
<1>3. Head(<<s>> \o q) = s
  BY <1>1
<1>4. Tail(<<s>> \o q) = q
  BY SMTT(30)
<1>5. p \o (<<s>> \o q) = Append(p, s) \o q
  BY SMTT(30)
<1> QED
  BY <1>1, <1>2, <1>3, <1>4, <1>5

LEMMA SplitStep ==
  ASSUME NEW A, NEW p \in Seq(A), NEW q \in Seq(A), q # <<>>
  PROVE  /\ Head(q) \in A /\ Tail(q) \in Seq(A) /\ q = <<Head(q)>> \o Tail(q)
         /\ Len(p) + 1 \in 1..Len(p \o q) /\ (p \o q)[Len(p) + 1] = Head(q)
         /\ SubSeq(p \o q, 1, Len(p) + 1 - 1) = p
<1>1. Head(q) \in A /\ Tail(q) \in Seq(A) /\ Len(q) \in Nat /\ Len(q) >= 1 /\ Head(q) = q[1]
  OBVIOUS
<1>2. q = <<Head(q)>> \o Tail(q)
  BY SMTT(30)
<1>3. /\ Len(p) \in Nat /\ p \o q \in Seq(A) /\ Len(p \o q) = Len(p) + Len(q)
      /\ \A i \in 1..Len(p) : (p \o q)[i] = p[i]
      /\ \A i \in 1..Len(q) : (p \o q)[Len(p) + i] = q[i]
  BY Joined
<1>4. Len(p) + 1 \in 1..Len(p \o q) /\ (p \o q)[Len(p) + 1] = Head(q)
  BY <1>1, <1>3
<1>5. SubSeq(p \o q, 1, Len(p) + 1 - 1) = p
  BY <1>1, <1>3, SMTT(30)
<1> QED
  BY <1>1, <1>2, <1>4, <1>5

Under(v, p) == {q \in Seq(StepSet) : p \o q \in DOMAIN v}

LEMMA StepIs ==
  ASSUME NEW v, IsValue(v), NEW p \in DOMAIN v, NEW s \in Steps(v[p])
  PROVE  s \in StepSet
<1>1. p \in Seq(StepSet) /\ Append(p, s) \in Seq(StepSet)
  BY PlaceIs
<1>2. Append(p, s)[Len(p) + 1] = s /\ Len(p) + 1 \in 1..Len(Append(p, s))
  BY <1>1
<1> QED
  BY <1>1, <1>2

Further(v, p, q) == \E s \in Steps(v[p]) : \E r \in Under(v, Append(p, s)) : q = <<s>> \o r

Leads(v, p, q, s, r) ==
    Head(q) = s /\ Tail(q) = r /\ q \in Under(v, p) /\ p \o q = Append(p, s) \o r

LEMMA UnderStep ==
  ASSUME NEW v, IsValue(v), NEW p \in DOMAIN v, NEW s \in Steps(v[p]),
         NEW r \in Under(v, Append(p, s)), NEW q, q = <<s>> \o r
  PROVE  Leads(v, p, q, s, r)
<1>1. p \in Seq(StepSet) /\ s \in StepSet
  BY PlaceIs, StepIs
<1>2. r \in Seq(StepSet) /\ Append(p, s) \o r \in DOMAIN v
  BY DEF Under
<1>3. /\ q \in Seq(StepSet) /\ q # <<>> /\ Head(q) = s /\ Tail(q) = r
      /\ p \o q = Append(p, s) \o r
  BY <1>1, <1>2, FirstStep, SMTT(30)
<1>4. q \in Under(v, p)
  BY <1>2, <1>3 DEF Under
<1> QED
  BY <1>3, <1>4 DEF Leads

LEMMA UnderRoot ==
  ASSUME NEW v, IsValue(v), NEW p \in DOMAIN v
  PROVE  <<>> \in Under(v, p) /\ p \o <<>> = p
<1>1. p \in Seq(StepSet)
  BY PlaceIs
<1>2. p \o <<>> = p /\ <<>> \in Seq(StepSet)
  BY <1>1
<1> QED
  BY <1>2 DEF Under

LEMMA UnderSplit ==
  ASSUME NEW v, IsValue(v), NEW p \in DOMAIN v, NEW q \in Under(v, p), q # <<>>
  PROVE  Further(v, p, q)
<1>0. p \in Seq(StepSet)
  BY PlaceIs
<1> DEFINE s == Head(q)
           r == Tail(q)
<1>1. q \in Seq(StepSet) /\ p \o q \in DOMAIN v
  BY DEF Under
<1>2. /\ s \in StepSet /\ r \in Seq(StepSet) /\ q = <<s>> \o r
      /\ Len(p) + 1 \in 1..Len(p \o q) /\ (p \o q)[Len(p) + 1] = s
      /\ SubSeq(p \o q, 1, Len(p) + 1 - 1) = p
  BY <1>0, <1>1, SplitStep
<1> DEFINE P == p \o q
           n == Len(p) + 1
<1>3. \A m \in 1..Len(P) : P[m] \in Steps(v[SubSeq(P, 1, m - 1)])
  BY <1>1 DEF IsValue
<1> HIDE DEF P, s, r, n
<1>4. n \in 1..Len(P) /\ P[n] = s /\ SubSeq(P, 1, n - 1) = p
  BY <1>2 DEF P, n
<1>5. s \in Steps(v[p])
  BY <1>3, <1>4
<1>6. p \o (<<s>> \o r) = Append(p, s) \o r
  BY <1>0, <1>2, FirstStep, SMTT(30)
<1>7. Append(p, s) \o r \in DOMAIN v
  BY <1>1, <1>2, <1>6
<1>8. r \in Under(v, Append(p, s))
  BY <1>2, <1>7 DEF Under
<1> QED
  BY <1>2, <1>5, <1>8 DEF Further

LEMMA FurtherLeads ==
  ASSUME NEW v, IsValue(v), NEW p \in DOMAIN v, NEW q, Further(v, p, q)
  PROVE  \E s \in Steps(v[p]) : \E r \in Under(v, Append(p, s)) : Leads(v, p, q, s, r)
<1>1. PICK s \in Steps(v[p]) : \E r \in Under(v, Append(p, s)) : q = <<s>> \o r
  BY DEF Further
<1>2. PICK r \in Under(v, Append(p, s)) : q = <<s>> \o r
  BY <1>1
<1>3. Leads(v, p, q, s, r)
  BY <1>2, UnderStep
<1> QED
  BY <1>3

LEMMA UnderFurther ==
  ASSUME NEW v, IsValue(v), NEW p \in DOMAIN v, NEW q
  PROVE  q \in Under(v, p) <=> q = <<>> \/ Further(v, p, q)
<1>1. q \in Under(v, p) => q = <<>> \/ Further(v, p, q)
  BY UnderSplit
<1>2. q = <<>> => q \in Under(v, p)
  BY UnderRoot
<1>3. Further(v, p, q) => q \in Under(v, p)
  BY FurtherLeads DEF Leads
<1> QED
  BY <1>1, <1>2, <1>3

-----------------------------------------------------------------------------
(* A value that holds what text keeps of v from p on. *)

Holds(v, w, p) ==
    /\ DOMAIN w = Under(v, p)
    /\ \A q \in Under(v, p) : ScriptNode(w[q]) = RemainingNode(v[p \o q])

LEMMA BuiltHolds ==
  ASSUME NEW v, IsValue(v), NEW p \in DOMAIN v, NEW node, NEW parts,
         ScriptNode(node) = RemainingNode(v[p]), DOMAIN parts = Steps(v[p]),
         \A s \in Steps(v[p]) : Holds(v, parts[s], Append(p, s))
  PROVE  Holds(v, Built(node, parts), p)
<1> DEFINE w == Built(node, parts)
           D == {<<>>} \cup Below(parts)
<1>1. ASSUME NEW q PROVE q \in Below(parts) <=> Further(v, p, q)
  <2> DEFINE Behind(s) == {<<s>> \o r : r \in DOMAIN parts[s]}
  <2>1. Below(parts) = UNION {Behind(s) : s \in DOMAIN parts}
    BY DEF Below
  <2>2. \A s \in Steps(v[p]) : q \in Behind(s) <=> \E r \in Under(v, Append(p, s)) : q = <<s>> \o r
    BY DEF Holds
  <2> HIDE DEF Behind
  <2>3. q \in Below(parts) <=> \E s \in Steps(v[p]) : q \in Behind(s)
    BY <2>1
  <2> QED
    BY <2>2, <2>3 DEF Further
<1>2. D = Under(v, p)
  BY <1>1, UnderFurther
<1>3. w = [q \in D |-> IF q = <<>> THEN node ELSE parts[Head(q)][Tail(q)]]
  BY DEF Built
<1> HIDE DEF w, D
<1>4. ASSUME NEW q \in Under(v, p) PROVE ScriptNode(w[q]) = RemainingNode(v[p \o q])
  <2>1. CASE q = <<>>
    <3>1. w[q] = node /\ p \o q = p
      BY <1>2, <1>3, <2>1, UnderRoot
    <3> QED
      BY <3>1
  <2>2. CASE q # <<>>
    <3>1. Further(v, p, q)
      BY <2>2, UnderSplit
    <3>2. PICK s \in Steps(v[p]) : \E r \in Under(v, Append(p, s)) : Leads(v, p, q, s, r)
      BY <3>1, FurtherLeads
    <3>3. PICK r \in Under(v, Append(p, s)) : Leads(v, p, q, s, r)
      BY <3>2
    <3>6. Head(q) = s /\ Tail(q) = r /\ p \o q = Append(p, s) \o r
      BY <3>3 DEF Leads
    <3>4. w[q] = parts[s][r]
      BY <1>2, <1>3, <2>2, <3>6
    <3>5. ScriptNode(parts[s][r]) = RemainingNode(v[Append(p, s) \o r])
      BY DEF Holds
    <3> QED
      BY <3>6, <3>4, <3>5
  <2> QED
    BY <2>1, <2>2
<1>5. DOMAIN w = Under(v, p)
  BY <1>2, <1>3
<1> QED
  BY <1>4, <1>5 DEF Holds, w

LEMMA NothingBelow ==
  ASSUME NEW node, NEW parts, DOMAIN parts = {} PROVE Built(node, parts) = Leaf(node)
<1>1. Below(parts) = {}
  BY DEF Below
<1>2. Built(node, parts) = [p \in {<<>>} |-> IF p = <<>> THEN node ELSE parts[Head(p)][Tail(p)]]
  BY <1>1 DEF Built
<1> QED
  BY <1>2 DEF Leaf

LEMMA LeafHolds ==
  ASSUME NEW v, IsValue(v), NEW p \in DOMAIN v, NEW node,
         ScriptNode(node) = RemainingNode(v[p]), Steps(v[p]) = {}
  PROVE  Holds(v, Leaf(node), p)
<1> DEFINE parts == [s \in {} |-> s]
<1>1. DOMAIN parts = {}
  OBVIOUS
<1> HIDE DEF parts
<1>2. Holds(v, Built(node, parts), p)
  BY <1>1, BuiltHolds
<1> QED
  BY <1>1, <1>2, NothingBelow

-----------------------------------------------------------------------------
(* A value of one token is read back. *)

LEMMA ScriptNodeIs ==
  /\ ScriptNode(Nul) = Js("null")
  /\ \A b \in BOOLEAN : ScriptNode(Bool(b)) = Js(IF b THEN "true" ELSE "false")
  /\ \A h : ScriptNode(Integer(h)) = JsNumber(h) /\ ScriptNode(Double(h)) = JsNumber(h)
  /\ \A s : ScriptNode(String(s)) = JsString(UpToNul(s))
  /\ \A n : ScriptNode(Array(n)) = JsArray(n)
  /\ \A k : ScriptNode(Object(k)) = JsObject(k)
<1>1. ScriptNode(Nul) = Js("null")
  <2>1. Nul.type = "NUL"
    BY DEF Nul
  <2>2. Nul # NotFinite
    BY <2>1 DEF NotFinite
  <2> QED
    BY <2>1, <2>2 DEF ScriptNode
<1>2. ASSUME NEW b \in BOOLEAN PROVE ScriptNode(Bool(b)) = Js(IF b THEN "true" ELSE "false")
  <2> DEFINE x == Bool(b)
  <2>1. x.type = "BOOL" /\ (x.bool <=> b)
    BY DEF Bool
  <2>2. x # NotFinite
    BY <2>1 DEF NotFinite
  <2> HIDE DEF x
  <2>3. ScriptNode(x) = Js(IF x.bool THEN "true" ELSE "false")
    BY <2>1, <2>2 DEF ScriptNode
  <2> QED
    BY <2>1, <2>3 DEF x
<1>3. ASSUME NEW h PROVE ScriptNode(Integer(h)) = JsNumber(h) /\ ScriptNode(Double(h)) = JsNumber(h)
  <2>1. "halves" \in DOMAIN Integer(h) /\ "halves" \in DOMAIN Double(h) /\ "halves" \notin DOMAIN NotFinite
    BY DEF Integer, Double, NotFinite
  <2>2. Integer(h) # NotFinite /\ Double(h) # NotFinite
    BY <2>1
  <2>3. /\ Integer(h).type = "INT" /\ Integer(h).halves = h
        /\ Double(h).type = "DOUBLE" /\ Double(h).halves = h
    BY DEF Integer, Double
  <2> QED
    BY <2>2, <2>3 DEF ScriptNode
<1>4. ASSUME NEW s PROVE ScriptNode(String(s)) = JsString(UpToNul(s))
  <2>1. String(s).type = "STRING" /\ String(s).str = s
    BY DEF String
  <2>2. String(s) # NotFinite
    BY <2>1 DEF NotFinite
  <2> QED
    BY <2>1, <2>2 DEF ScriptNode
<1>5. ASSUME NEW n PROVE ScriptNode(Array(n)) = JsArray(n)
  <2>1. Array(n).type = "ARRAY" /\ Array(n).size = n
    BY DEF Array
  <2>2. Array(n) # NotFinite
    BY <2>1 DEF NotFinite
  <2> QED
    BY <2>1, <2>2 DEF ScriptNode
<1>6. ASSUME NEW k PROVE ScriptNode(Object(k)) = JsObject(k)
  <2>1. Object(k).type = "OBJECT" /\ Object(k).keys = k
    BY DEF Object
  <2>2. Object(k) # NotFinite
    BY <2>1 DEF NotFinite
  <2> QED
    BY <2>1, <2>2 DEF ScriptNode
<1> QED
  BY <1>1, <1>2, <1>3, <1>4, <1>5, <1>6

LEMMA RemainingIs ==
  ASSUME NEW n, IsNode(n)
  PROVE  /\ n.js = "number" => RemainingNode(n) = JsNumber(n.halves)
         /\ n.js = "string" => RemainingNode(n) = JsString(UpToNul(n.str))
         /\ n.js \in {"true", "false"} => RemainingNode(n) = Js(n.js)
         /\ n.js \in {"undefined", "null", "symbol", "NaN", "buffer"} => RemainingNode(n) = Js("null")
         /\ n.js = "array" => RemainingNode(n) = JsArray(n.size)
         /\ n.js \in {"object", "function"} => RemainingNode(n) = JsObject(KeysAt(n))
<1>1. CASE n.js = "number"
  <2>1. RemainingNode(n) = n
    BY <1>1 DEF RemainingNode
  <2>2. n = JsNumber(n.halves)
    BY <1>1 DEF IsNode
  <2> QED
    BY <1>1, <2>1, <2>2
<1>2. CASE n.js = "string"
  <2>1. RemainingNode(n) = JsString(UpToNul(n.str))
    BY <1>2 DEF RemainingNode
  <2> QED
    BY <1>2, <2>1
<1>3. CASE n.js \in {"true", "false"}
  <2>1. RemainingNode(n) = n
    BY <1>3 DEF RemainingNode
  <2>2. n = Js(n.js)
    BY <1>3 DEF IsNode
  <2> QED
    BY <1>3, <2>1, <2>2
<1>4. CASE n.js \in {"undefined", "null", "symbol", "NaN", "buffer"}
  <2>1. RemainingNode(n) = Js("null")
    BY <1>4 DEF RemainingNode
  <2> QED
    BY <1>4, <2>1
<1>5. CASE n.js = "array"
  <2>1. RemainingNode(n) = n
    BY <1>5 DEF RemainingNode
  <2>2. n = JsArray(n.size)
    BY <1>5 DEF IsNode
  <2> QED
    BY <1>5, <2>1, <2>2
<1>6. CASE n.js = "object"
  <2>1. RemainingNode(n) = n
    BY <1>6 DEF RemainingNode
  <2>2. n = JsObject(n.keys)
    BY <1>6 DEF IsNode
  <2> QED
    BY <1>6, <2>1, <2>2 DEF KeysAt
<1>7. CASE n.js = "function"
  <2>1. RemainingNode(n) = JsObject({})
    BY <1>7 DEF RemainingNode
  <2> QED
    BY <1>7, <2>1 DEF KeysAt
<1> QED
  BY <1>1, <1>2, <1>3, <1>4, <1>5, <1>6, <1>7, NodeSort DEF Scalars

LEMMA ScalarIsRead ==
  ASSUME NEW n, IsNode(n), n.js \in Scalars, n.js = "string" => n.str \in Seq(Runes),
         NEW y \in AllTokens, SameToken(y, Plain(BsonNode(n)))
  PROVE  \E node : Scalar(y) = {Leaf(node)} /\ ScriptNode(node) = RemainingNode(n)
<1> DEFINE t == Plain(BsonNode(n))
<1>1. SameToken(y, t)
  OBVIOUS
<1>2. CASE n.js = "number"
  <2>1. t = Num(n.halves)
    BY <1>2, PlainIs
  <2> HIDE DEF t
  <2>2. y = Num(n.halves)
    BY <1>1, <2>1, SortsOfTokens DEF SameToken
  <2>3. Scalar(y) = {Leaf(ParseNumber(n.halves))}
    BY <2>2, ScalarOf
  <2>4. ScriptNode(ParseNumber(n.halves)) = JsNumber(n.halves)
    BY ScriptNodeIs DEF ParseNumber
  <2> QED
    BY <1>2, <2>3, <2>4, RemainingIs
<1>3. CASE n.js = "string"
  <2>1. t = Spelt(n.str)
    BY <1>3, PlainIs
  <2> HIDE DEF t
  <2>2. "str" \in DOMAIN t /\ Spelling(t.str) = n.str
    BY <1>3, <2>1, SpeltIs
  <2>3. "str" \in DOMAIN y /\ Spelling(y.str) = n.str
    BY <1>1, <2>2 DEF SameToken
  <2>4. y = Str(y.str) /\ ParseString(y.str) = n.str
    BY <2>3, StringToken
  <2>5. Scalar(y) = {Leaf(String(n.str))}
    BY <2>4, ScalarOf
  <2>6. ScriptNode(String(n.str)) = JsString(UpToNul(n.str))
    BY ScriptNodeIs
  <2> QED
    BY <1>3, <2>5, <2>6, RemainingIs
<1>4. CASE n.js = "true"
  <2>1. t = Word("true")
    BY <1>4, PlainIs
  <2> HIDE DEF t
  <2>2. y = Word("true")
    BY <1>1, <2>1, SortsOfTokens DEF SameToken
  <2>3. Scalar(y) = {Leaf(Bool(TRUE))}
    BY <2>2, ScalarOf
  <2>4. ScriptNode(Bool(TRUE)) = Js("true")
    BY ScriptNodeIs
  <2>5. RemainingNode(n) = Js("true")
    BY <1>4, RemainingIs
  <2> QED
    BY <2>3, <2>4, <2>5
<1>5. CASE n.js = "false"
  <2>1. t = Word("false")
    BY <1>5, PlainIs
  <2> HIDE DEF t
  <2>2. y = Word("false")
    BY <1>1, <2>1, SortsOfTokens DEF SameToken
  <2>3. Scalar(y) = {Leaf(Bool(FALSE))}
    BY <2>2, ScalarOf
  <2>4. ScriptNode(Bool(FALSE)) = Js("false")
    BY ScriptNodeIs
  <2>5. RemainingNode(n) = Js("false")
    BY <1>5, RemainingIs
  <2> QED
    BY <2>3, <2>4, <2>5
<1>6. CASE n.js \in {"undefined", "null", "symbol", "NaN", "buffer"}
  <2>1. t = Word("null")
    BY <1>6, PlainIs
  <2> HIDE DEF t
  <2>2. y = Word("null")
    BY <1>1, <2>1, SortsOfTokens DEF SameToken
  <2>3. Scalar(y) = {Leaf(Nul)}
    BY <2>2, ScalarOf
  <2>4. ScriptNode(Nul) = Js("null")
    BY ScriptNodeIs
  <2>5. RemainingNode(n) = Js("null")
    BY <1>6, RemainingIs
  <2> QED
    BY <2>3, <2>4, <2>5
<1> QED
  BY <1>2, <1>3, <1>4, <1>5, <1>6 DEF Scalars

\* Where t stands, a value that holds the part of v at p is read.
Back(R, v, t, p) ==
    \A k \in 1..(Size + 1) : Stands(t, k) =>
        \E w : R[<<"value", k, Len(p)>>] = Got(w, k + Len(t)) /\ Holds(v, w, p)

LEMMA ValueYields ==
  ASSUME NEW R, Reads(R), NEW k \in 1..(Size + 1), NEW d \in Nat
  PROVE  /\ R[<<"value", k, d>>] = ParseJson(R, k, d)
         /\ R[<<"items", k, d>>] = ParseItems(R, k, d)
         /\ R[<<"members", k, d>>] = ParseMembers(R, k, d)
<1>1. \A kind \in {"value", "items", "members"} : R[<<kind, k, d>>] = Yields(R, <<kind, k, d>>)
  BY DEF Reads
<1>2. \A kind : <<kind, k, d>>[1] = kind /\ <<kind, k, d>>[2] = k /\ <<kind, k, d>>[3] = d
  OBVIOUS
<1>3. Yields(R, <<"value", k, d>>) = ParseJson(R, k, d)
  BY <1>2 DEF Yields
<1>4. Yields(R, <<"items", k, d>>) = ParseItems(R, k, d)
  BY <1>2 DEF Yields
<1>5. Yields(R, <<"members", k, d>>) = ParseMembers(R, k, d)
  BY <1>2 DEF Yields
<1> QED
  BY <1>1, <1>3, <1>4, <1>5

LEMMA ScalarBack ==
  ASSUME OfTokens, Clean, NEW R, Reads(R), NEW v, IsValue(v), NEW p \in DOMAIN v,
         v[p].js \in Scalars, ~TooDeep(Len(p))
  PROVE  Back(R, v, <<Plain(BsonNode(v[p]))>>, p)
<1> DEFINE n == v[p]
           t == Plain(BsonNode(n))
<1> SUFFICES ASSUME NEW k \in 1..(Size + 1), Stands(<<t>>, k)
             PROVE  \E w : R[<<"value", k, Len(p)>>] = Got(w, k + Len(<<t>>)) /\ Holds(v, w, p)
  BY DEF Back
<1>1. k \in 1..Size /\ SameToken(text[k], t) /\ text[k] \in AllTokens /\ k + Len(<<t>>) = k + 1
  BY StandsOne
<1>2. IsNode(n) /\ Len(p) \in Nat /\ (n.js = "string" => n.str \in Seq(Runes)) /\ Size \in Nat
  BY PlaceIs, SizeIs
<1>3. PICK node : Scalar(text[k]) = {Leaf(node)} /\ ScriptNode(node) = RemainingNode(n)
  BY <1>1, <1>2, ScalarIsRead
<1>4. Skip(k) = k
  BY CleanSkip
<1>5. ~At(k, "bracket") /\ ~At(k, "brace")
  <2>1. ASSUME NEW c PROVE ~At(k, c)
    BY <1>3, ScalarOf DEF At
  <2> QED
    BY <2>1
<1> HIDE DEF t
<1>6. ParseJson(R, k, Len(p)) = Got(Leaf(node), k + 1)
  <2>1. k \in Nat /\ k <= Size
    BY <1>1
  <2> QED
    BY <1>2, <1>3, <1>4, <1>5, <2>1, ScalarValue, SMTT(30)
<1>7. Steps(n) = {}
  BY <1>2, NodeSort DEF KeysAt, Scalars
<1>8. Holds(v, Leaf(node), p)
  BY <1>3, <1>7, LeafHolds
<1>9. R[<<"value", k, Len(p)>>] = Got(Leaf(node), k + Len(<<t>>))
  BY <1>1, <1>2, <1>6, ValueYields
<1> QED
  BY <1>8, <1>9

-----------------------------------------------------------------------------
(* Lists are read back from their last value on. *)

ItemsHold(v, l, p, i, n) ==
    /\ IsList(l) /\ Len(l) = n - i + 1
    /\ \A j \in 1..(n - i + 1) : Holds(v, l[j], Append(p, Item(i + j - 1)))

LEMMA OneItemHolds ==
  ASSUME NEW v, NEW w, NEW p, NEW n \in Nat, Holds(v, w, Append(p, Item(n)))
  PROVE  ItemsHold(v, <<w>>, p, n, n)
<1>1. Len(<<w>>) = n - n + 1 /\ <<w>>[1] = w /\ IsList(<<w>>)
  BY OneIsList
<1>2. \A j \in 1..(n - n + 1) : j = 1 /\ n + j - 1 = n
  OBVIOUS
<1> QED
  BY <1>1, <1>2 DEF ItemsHold

LEMMA MoreItemsHold ==
  ASSUME NEW v, NEW w, NEW l, NEW p, NEW n \in Nat, NEW i \in 1..(n - 1),
         Holds(v, w, Append(p, Item(i))), ItemsHold(v, l, p, i + 1, n)
  PROVE  ItemsHold(v, <<w>> \o l, p, i, n)
<1>1. IsList(l) /\ Len(l) = n - (i + 1) + 1
      /\ \A j \in 1..(n - (i + 1) + 1) : Holds(v, l[j], Append(p, Item((i + 1) + j - 1)))
  BY DEF ItemsHold
<1> DEFINE m == <<w>> \o l
<1>2. /\ IsList(m) /\ Len(m) = Len(l) + 1 /\ m[1] = w
      /\ \A j \in 1..Len(l) : m[j + 1] = l[j]
  BY <1>1, ListWith
<1> HIDE DEF m
<1>3. Len(m) = n - i + 1
  BY <1>1, <1>2
<1>4. ASSUME NEW j \in 1..(n - i + 1) PROVE Holds(v, m[j], Append(p, Item(i + j - 1)))
  <2>1. CASE j = 1
    <3>1. i + j - 1 = i
      BY <2>1
    <3> QED
      BY <1>2, <2>1, <3>1
  <2>2. CASE j # 1
    <3>1. j - 1 \in 1..Len(l) /\ (j - 1) + 1 = j /\ j - 1 \in 1..(n - (i + 1) + 1)
          /\ (i + 1) + (j - 1) - 1 = i + j - 1
      BY <1>1, <2>2
    <3>2. m[j] = l[j - 1]
      BY <1>2, <3>1
    <3>3. Holds(v, l[j - 1], Append(p, Item((i + 1) + (j - 1) - 1)))
      BY <1>1, <3>1
    <3> QED
      BY <3>1, <3>2, <3>3
  <2> QED
    BY <2>1, <2>2
<1> QED
  BY <1>2, <1>3, <1>4 DEF ItemsHold, m

\* Where the texts from the i-th on stand in front of the bracket.
ItemsBack(R, v, p, t, i, n) ==
    \A k \in 1..(Size + 1) : Stands(t, k) /\ At(k + Len(t), "endbracket") =>
        \E l : R[<<"items", k, Len(p)>>] = Got(l, k + Len(t) + 1) /\ ItemsHold(v, l, p, i, n)

LEMMA LastItemBack ==
  ASSUME OfTokens, Clean, NEW R, Reads(R), NEW v, NEW p, Len(p) \in Nat, NEW n \in Nat, NEW t \in Texts,
         Len(Append(p, Item(n))) = Len(p) + 1, Back(R, v, t, Append(p, Item(n)))
  PROVE  ItemsBack(R, v, p, t, n, n)
<1> SUFFICES ASSUME NEW k \in 1..(Size + 1), Stands(t, k), At(k + Len(t), "endbracket")
             PROVE  \E l : /\ R[<<"items", k, Len(p)>>] = Got(l, k + Len(t) + 1)
                           /\ ItemsHold(v, l, p, n, n)
  BY DEF ItemsBack
<1> DEFINE e == k + Len(t)
<1>1. PICK w : R[<<"value", k, Len(p) + 1>>] = Got(w, e) /\ Holds(v, w, Append(p, Item(n)))
  BY DEF Back
<1>2. e \in 1..(Size + 1)
  BY SizeIs DEF Stands, Texts
<1>3. Skip(e) = e
  BY <1>2, CleanSkip
<1> HIDE DEF e
<1>4. ParseItems(R, k, Len(p)) = Got(<<w>>, e + 1)
  <2>1. At(Skip(e), "endbracket")
    BY <1>3 DEF e
  <2>2. ParseItems(R, k, Len(p)) = Got(<<w>>, Skip(e) + 1)
    BY <1>1, <2>1, ItemsEnd
  <2> QED
    BY <1>3, <2>2
<1>5. R[<<"items", k, Len(p)>>] = Got(<<w>>, e + 1)
  BY <1>4, ValueYields
<1>6. ItemsHold(v, <<w>>, p, n, n)
  BY <1>1, OneItemHolds
<1> QED
  BY <1>5, <1>6 DEF e

\* A list with a comma behind its first text.
LEMMA StandsList ==
  ASSUME OfTokens, NEW t \in Texts, NEW r \in Texts, NEW k \in 1..(Size + 1),
         Stands(t \o <<Punct("comma")>> \o r, k)
  PROVE  LET c == k + Len(t)
         IN /\ Stands(t, k) /\ c \in 1..Size /\ c + 1 \in 1..(Size + 1)
            /\ At(c, "comma") /\ \A q : At(c, q) => q = "comma"
            /\ Stands(r, c + 1)
            /\ c + 1 + Len(r) = k + Len(t \o <<Punct("comma")>> \o r)
<1> DEFINE s == <<Punct("comma")>>
           c == k + Len(t)
           u == t \o s
<1>1. "comma" \in Puncts /\ s \in Texts
  BY PunctText DEF Puncts
<1>2. u \in Texts
  BY <1>1 DEF Texts
<1>3. /\ Stands(u, k) /\ Stands(r, k + Len(u))
      /\ k + Len(u) + Len(r) = k + Len(u \o r)
  <2>1. Stands(u \o r, k)
    OBVIOUS
  <2> HIDE DEF u
  <2> QED
    BY <1>2, <2>1, StandsParts
<1>4. Stands(t, k) /\ Stands(s, c) /\ c \in 1..(Size + 1) /\ c + Len(s) = k + Len(u)
  <2> HIDE DEF s
  <2> QED
    BY <1>1, <1>3, StandsParts
<1>5. c \in 1..Size /\ c + Len(s) = c + 1 /\ At(c, "comma") /\ c + 1 \in 1..(Size + 1)
  <2> HIDE DEF c
  <2> QED
    BY <1>4, StandsPunct
<1>6. \A q : At(c, q) => q = "comma"
  <2> HIDE DEF c
  <2> QED
    BY <1>1, <1>4, <1>5, AtIs
<1> HIDE DEF s, u, c
<1>7. k + Len(u) = c + 1
  BY <1>4, <1>5
<1> QED
  BY <1>3, <1>4, <1>5, <1>6, <1>7 DEF s, u, c

LEMMA MoreItemsBack ==
  ASSUME OfTokens, Clean, NEW R, Reads(R), NEW v, NEW p, Len(p) \in Nat,
         NEW n \in Nat, NEW i \in 1..(n - 1), NEW t \in Texts, NEW r \in Texts,
         Len(Append(p, Item(i))) = Len(p) + 1, Back(R, v, t, Append(p, Item(i))),
         ItemsBack(R, v, p, r, i + 1, n)
  PROVE  ItemsBack(R, v, p, t \o <<Punct("comma")>> \o r, i, n)
<1> DEFINE u == t \o <<Punct("comma")>> \o r
<1> SUFFICES ASSUME NEW k \in 1..(Size + 1), Stands(u, k), At(k + Len(u), "endbracket")
             PROVE  \E l : /\ R[<<"items", k, Len(p)>>] = Got(l, k + Len(u) + 1)
                           /\ ItemsHold(v, l, p, i, n)
  BY DEF ItemsBack
<1> DEFINE c == k + Len(t)
<1>1. /\ Stands(t, k) /\ c \in 1..Size /\ c + 1 \in 1..(Size + 1)
      /\ At(c, "comma") /\ \A q : At(c, q) => q = "comma"
      /\ Stands(r, c + 1) /\ c + 1 + Len(r) = k + Len(u)
  BY StandsList
<1>2. PICK w : R[<<"value", k, Len(p) + 1>>] = Got(w, c) /\ Holds(v, w, Append(p, Item(i)))
  BY <1>1 DEF Back
<1> HIDE DEF u, c
<1>3. Skip(c) = c
  <2>1. c \in 1..(Size + 1)
    BY <1>1, SizeIs
  <2> QED
    BY <2>1, CleanSkip
<1>4. At(c + 1 + Len(r), "endbracket")
  BY <1>1
<1>5. PICK l : /\ R[<<"items", c + 1, Len(p)>>] = Got(l, c + 1 + Len(r) + 1)
               /\ ItemsHold(v, l, p, i + 1, n)
  BY <1>1, <1>4 DEF ItemsBack
<1> DEFINE e == c + 1 + Len(r) + 1
<1>6. e = k + Len(u) + 1
  BY <1>1
<1> HIDE DEF e
<1>7. ParseItems(R, k, Len(p)) = Got(<<w>> \o l, e)
  <2>1. ~At(Skip(c), "endbracket") /\ At(Skip(c), "comma")
    BY <1>1, <1>3
  <2>2. R[<<"items", Skip(c) + 1, Len(p)>>] = Got(l, e)
    BY <1>3, <1>5 DEF e
  <2> QED
    BY <1>2, <2>1, <2>2, ItemsGoOn
<1>8. R[<<"items", k, Len(p)>>] = Got(<<w>> \o l, e)
  BY <1>7, ValueYields
<1>9. ItemsHold(v, <<w>> \o l, p, i, n)
  BY <1>2, <1>5, MoreItemsHold
<1> QED
  BY <1>6, <1>8, <1>9

MemberText(key, t) == <<Spelt(key), Punct("colon")>> \o t

LEMMA MemberTextIs ==
  ASSUME NEW key \in Seq(Runes), NEW t \in Texts
  PROVE  /\ MemberText(key, t) \in Texts /\ <<Spelt(key), Punct("colon")>> \in Texts
         /\ Len(MemberText(key, t)) = Len(t) + 2 /\ Len(t) \in Nat
<1>1. Spelt(key) \in Tame /\ Punct("colon") \in Tame
  <2>1. Punct("colon") \in AllTokens
    BY DEF AllTokens, Puncts
  <2> QED
    BY <2>1, SpeltIs, SortsOfTokens DEF Tame
<1> DEFINE s == <<Spelt(key), Punct("colon")>>
<1>2. s \in Texts /\ Len(s) = 2
  BY <1>1 DEF Texts
<1> HIDE DEF s
<1>3. s \o t \in Texts /\ Len(s \o t) = Len(t) + 2 /\ Len(t) \in Nat
  <2>1. s \in Seq(Tame) /\ t \in Seq(Tame)
    BY <1>2 DEF Texts
  <2>2. s \o t \in Seq(Tame) /\ Len(s \o t) = Len(s) + Len(t) /\ Len(t) \in Nat
    BY <2>1, Joined
  <2>3. Len(s) + Len(t) = Len(t) + 2
    BY <1>2, <2>2
  <2> QED
    BY <2>2, <2>3 DEF Texts
<1> QED
  BY <1>2, <1>3 DEF MemberText, s

\* Where a member stands, its key is read and its value is next.
LEMMA StandsMember ==
  ASSUME OfTokens, Clean, NEW key \in Seq(Runes), NEW t \in Texts, NEW k \in 1..(Size + 1),
         Stands(MemberText(key, t), k)
  PROVE  /\ KeyAt(k) /\ ValueAt(k) = k + 2 /\ KeyOf(k) = key
         /\ Stands(t, k + 2) /\ k + 2 \in 1..(Size + 1) /\ Skip(k) \in Nat /\ Size \in Nat
         /\ k + 2 + Len(t) = k + Len(MemberText(key, t))
<1> DEFINE a == Spelt(key)
           c == Punct("colon")
           s == <<a, c>>
<1>1. Size \in Nat
  BY SizeIs
<1>2. /\ Stands(s, k) /\ Stands(t, k + Len(s)) /\ k + Len(s) \in 1..(Size + 1)
  <2>1. s \in Texts /\ Stands(s \o t, k)
    BY MemberTextIs DEF MemberText
  <2> HIDE DEF s
  <2> QED
    BY <2>1, StandsParts
<1>3. Len(s) = 2 /\ s[1] = a /\ s[2] = c
  OBVIOUS
<1> HIDE DEF s, a, c
<1>4. k \in 1..Size /\ k + 1 \in 1..Size /\ k + 2 \in 1..(Size + 1)
  BY <1>1, <1>2, <1>3
<1>5. SameToken(text[k], a) /\ SameToken(text[k + 1], c)
  <2>1. \A i \in 1..2 : SameToken(text[k + i - 1], s[i])
    BY <1>2, <1>3 DEF Stands
  <2>2. 1 \in 1..2 /\ 2 \in 1..2 /\ k + 1 - 1 = k /\ k + 2 - 1 = k + 1
    BY <1>4
  <2> QED
    BY <1>3, <2>1, <2>2
<1>6. "str" \in DOMAIN text[k] /\ Spelling(text[k].str) = key
  BY <1>5, SpeltIs DEF SameToken, a
<1>7. text[k] \in AllTokens
  BY <1>4, SizeIs
<1>8. ParseString(text[k].str) = key
  BY <1>6, <1>7, StringToken
<1>9. text[k + 1] = Punct("colon")
  BY <1>5, SortsOfTokens DEF SameToken, c
<1>10. At(k + 1, "colon")
  BY <1>4, <1>9, AtToken
<1>11. Skip(k) = k /\ Skip(k + 1) = k + 1
  <2>1. k + 1 \in 1..(Size + 1)
    BY <1>1, <1>4
  <2> QED
    BY <2>1, CleanSkip
<1>12. KeyAt(k)
  BY <1>1, <1>4, <1>6, <1>10, <1>11 DEF KeyAt
<1>13. ValueAt(k) = k + 2
  BY <1>4, <1>11 DEF ValueAt
<1>14. KeyOf(k) = key
  BY <1>8, <1>11 DEF KeyOf
<1>15. k + 2 + Len(t) = k + Len(MemberText(key, t))
  <2> DEFINE x == Len(t)
             y == Len(MemberText(key, t))
  <2>1. y = x + 2 /\ x \in Nat
    BY MemberTextIs
  <2> HIDE DEF x, y
  <2>2. k + 2 + x = k + y
    BY <2>1
  <2> QED
    BY <2>2 DEF x, y
<1> QED
  BY <1>1, <1>2, <1>3, <1>4, <1>11, <1>12, <1>13, <1>14, <1>15

MembersHold(v, l, p, keys, i, n) ==
    /\ DOMAIN l = {keys[j] : j \in i..n}
    /\ \A x \in DOMAIN l : Holds(v, l[x], Append(p, Field(x)))

LEMMA OneMemberHolds ==
  ASSUME NEW v, NEW w, NEW p, NEW keys, NEW n \in Nat, Holds(v, w, Append(p, Field(keys[n])))
  PROVE  MembersHold(v, Sole(keys[n], w), p, keys, n, n)
<1> DEFINE l == Sole(keys[n], w)
<1>1. DOMAIN l = {keys[n]} /\ l[keys[n]] = w
  BY DEF Sole
<1>2. {keys[j] : j \in n..n} = {keys[n]}
  <2>1. n..n = {n}
    OBVIOUS
  <2> QED
    BY <2>1
<1> HIDE DEF l
<1> QED
  BY <1>1, <1>2 DEF MembersHold, l

LEMMA MoreMembersHold ==
  ASSUME NEW v, NEW w, NEW l, NEW p, NEW keys, NEW n \in Nat, NEW i \in 1..(n - 1),
         Holds(v, w, Append(p, Field(keys[i]))), MembersHold(v, l, p, keys, i + 1, n)
  PROVE  MembersHold(v, WithFirst(keys[i], w, l), p, keys, i, n)
<1> DEFINE m == WithFirst(keys[i], w, l)
           K == keys[i]
<1>1. /\ DOMAIN l = {keys[j] : j \in (i + 1)..n}
      /\ \A x \in DOMAIN l : Holds(v, l[x], Append(p, Field(x)))
  BY DEF MembersHold
<1>2. /\ DOMAIN m = {K} \cup DOMAIN l
      /\ \A x \in {K} \cup DOMAIN l : m[x] = IF x \in DOMAIN l THEN l[x] ELSE w
  BY DEF WithFirst
<1>3. {keys[j] : j \in i..n} = {K} \cup {keys[j] : j \in (i + 1)..n}
  <2>1. i..n = {i} \cup (i + 1)..n
    OBVIOUS
  <2> QED
    BY <2>1
<1> HIDE DEF m, K
<1>4. ASSUME NEW x \in DOMAIN m PROVE Holds(v, m[x], Append(p, Field(x)))
  <2>1. CASE x \in DOMAIN l
    BY <1>1, <1>2, <2>1
  <2>2. CASE x \notin DOMAIN l
    <3>1. x = K /\ m[x] = w
      BY <1>2, <2>2
    <3> QED
      BY <3>1 DEF K
  <2> QED
    BY <2>1, <2>2
<1> QED
  BY <1>1, <1>2, <1>3, <1>4 DEF MembersHold, m

\* Where the members from the i-th on stand in front of the brace.
MembersBack(R, v, p, keys, t, i, n) ==
    \A k \in 1..(Size + 1) : Stands(t, k) /\ At(k + Len(t), "endbrace") =>
        \E l : /\ R[<<"members", k, Len(p)>>] = Got(l, k + Len(t) + 1)
               /\ MembersHold(v, l, p, keys, i, n)

LEMMA LastMemberBack ==
  ASSUME OfTokens, Clean, NEW R, Reads(R), NEW v, NEW p, Len(p) \in Nat,
         NEW keys, NEW n \in Nat, keys[n] \in Seq(Runes), NEW t \in Texts,
         Len(Append(p, Field(keys[n]))) = Len(p) + 1, Back(R, v, t, Append(p, Field(keys[n])))
  PROVE  MembersBack(R, v, p, keys, MemberText(keys[n], t), n, n)
<1> DEFINE K == keys[n]
           u == MemberText(K, t)
<1> SUFFICES ASSUME NEW k \in 1..(Size + 1), Stands(u, k), At(k + Len(u), "endbrace")
             PROVE  \E l : /\ R[<<"members", k, Len(p)>>] = Got(l, k + Len(u) + 1)
                           /\ MembersHold(v, l, p, keys, n, n)
  BY DEF MembersBack
<1>1. /\ KeyAt(k) /\ ValueAt(k) = k + 2 /\ KeyOf(k) = K
      /\ Stands(t, k + 2) /\ k + 2 \in 1..(Size + 1) /\ Skip(k) \in Nat /\ Size \in Nat
      /\ k + 2 + Len(t) = k + Len(u)
  BY StandsMember
<1> DEFINE e == k + 2 + Len(t)
<1>2. PICK w : R[<<"value", k + 2, Len(p) + 1>>] = Got(w, e) /\ Holds(v, w, Append(p, Field(K)))
  BY <1>1 DEF Back
<1> HIDE DEF u
<1>3. e \in 1..(Size + 1)
  BY <1>1 DEF Stands, Texts
<1>4. Skip(e) = e /\ At(e, "endbrace")
  BY <1>1, <1>3, CleanSkip
<1> HIDE DEF e, K
<1>5. ParseMembers(R, k, Len(p)) = Got(Sole(K, w), e + 1)
  <2>1. R[<<"value", ValueAt(k), Len(p) + 1>>] = Got(w, e)
    BY <1>1, <1>2
  <2>2. ParseMembers(R, k, Len(p)) = Got(Sole(KeyOf(k), w), Skip(e) + 1)
    <3>1. MemberRead(R, R, k, Len(p), w, e)
      BY <1>1, <2>1 DEF MemberRead, BothGot
    <3> QED
      BY <1>4, <3>1, MembersEndBoth
  <2> QED
    BY <1>1, <1>4, <2>2
<1>6. R[<<"members", k, Len(p)>>] = Got(Sole(K, w), e + 1)
  BY <1>5, ValueYields
<1>7. MembersHold(v, Sole(K, w), p, keys, n, n)
  BY <1>2, OneMemberHolds DEF K
<1> QED
  BY <1>1, <1>6, <1>7 DEF e

LEMMA MoreMembersBack ==
  ASSUME OfTokens, Clean, NEW R, Reads(R), NEW v, NEW p, Len(p) \in Nat,
         NEW keys, NEW n \in Nat, NEW i \in 1..(n - 1), keys[i] \in Seq(Runes),
         NEW t \in Texts, NEW r \in Texts,
         Len(Append(p, Field(keys[i]))) = Len(p) + 1, Back(R, v, t, Append(p, Field(keys[i]))),
         MembersBack(R, v, p, keys, r, i + 1, n)
  PROVE  MembersBack(R, v, p, keys, MemberText(keys[i], t) \o <<Punct("comma")>> \o r, i, n)
<1> DEFINE K == keys[i]
           m == MemberText(K, t)
           u == m \o <<Punct("comma")>> \o r
<1> SUFFICES ASSUME NEW k \in 1..(Size + 1), Stands(u, k), At(k + Len(u), "endbrace")
             PROVE  \E l : /\ R[<<"members", k, Len(p)>>] = Got(l, k + Len(u) + 1)
                           /\ MembersHold(v, l, p, keys, i, n)
  BY DEF MembersBack
<1> DEFINE c == k + Len(m)
<1>1. /\ Stands(m, k) /\ c \in 1..Size /\ c + 1 \in 1..(Size + 1)
      /\ At(c, "comma") /\ \A q : At(c, q) => q = "comma"
      /\ Stands(r, c + 1) /\ c + 1 + Len(r) = k + Len(u)
  <2>1. m \in Texts
    BY MemberTextIs
  <2> HIDE DEF m
  <2> QED
    BY <2>1, StandsList
<1> HIDE DEF u
<1>2. /\ KeyAt(k) /\ ValueAt(k) = k + 2 /\ KeyOf(k) = K
      /\ Stands(t, k + 2) /\ k + 2 \in 1..(Size + 1) /\ Skip(k) \in Nat /\ Size \in Nat
      /\ k + 2 + Len(t) = c
  BY <1>1, StandsMember
<1> HIDE DEF c, m
<1>3. PICK w : R[<<"value", k + 2, Len(p) + 1>>] = Got(w, c) /\ Holds(v, w, Append(p, Field(K)))
  BY <1>2 DEF Back
<1> HIDE DEF K
<1>4. Skip(c) = c
  <2>1. c \in 1..(Size + 1)
    BY <1>1, SizeIs
  <2> QED
    BY <2>1, CleanSkip
<1>5. At(c + 1 + Len(r), "endbrace")
  BY <1>1
<1>6. PICK l : /\ R[<<"members", c + 1, Len(p)>>] = Got(l, c + 1 + Len(r) + 1)
               /\ MembersHold(v, l, p, keys, i + 1, n)
  BY <1>1, <1>5 DEF MembersBack
<1> DEFINE e == c + 1 + Len(r) + 1
<1>7. e = k + Len(u) + 1
  BY <1>1
<1> HIDE DEF e
<1>8. ParseMembers(R, k, Len(p)) = Got(WithFirst(K, w, l), e)
  <2>1. ~At(Skip(c), "endbrace") /\ At(Skip(c), "comma")
    BY <1>1, <1>4
  <2>2. R[<<"members", Skip(c) + 1, Len(p)>>] = Got(l, e)
    BY <1>4, <1>6 DEF e
  <2>3. R[<<"value", ValueAt(k), Len(p) + 1>>] = Got(w, c)
    BY <1>2, <1>3
  <2>4. ParseMembers(R, k, Len(p)) = Got(WithFirst(KeyOf(k), w, l), e)
    <3>1. MemberRead(R, R, k, Len(p), w, c) /\ BothGot(R, R, <<"members", Skip(c) + 1, Len(p)>>, l, e)
      BY <1>2, <2>2, <2>3 DEF MemberRead, BothGot
    <3> QED
      BY <2>1, <3>1, MembersGoOnBoth
  <2> QED
    BY <1>2, <2>4
<1>9. R[<<"members", k, Len(p)>>] = Got(WithFirst(K, w, l), e)
  BY <1>8, ValueYields
<1>10. MembersHold(v, WithFirst(K, w, l), p, keys, i, n)
  BY <1>3, <1>6, MoreMembersHold DEF K
<1> QED
  BY <1>7, <1>9, <1>10

-----------------------------------------------------------------------------
(* Arrays and objects are read back. *)

LEMMA ItemsAllBack ==
  ASSUME OfTokens, Clean, NEW R, Reads(R), NEW v, NEW p, Len(p) \in Nat, NEW n \in Nat, n # 0,
         NEW texts \in [1..n -> Texts], NEW tail, IsChain(tail, texts, n),
         \A i \in 1..n : /\ Len(Append(p, Item(i))) = Len(p) + 1
                         /\ Back(R, v, texts[i], Append(p, Item(i)))
  PROVE  ItemsBack(R, v, p, tail[1], 1, n)
<1> DEFINE P == {j \in 0..(n - 1) : ItemsBack(R, v, p, tail[n - j], n - j, n)}
<1>1. /\ tail \in [1..n -> Texts] /\ tail[n] = texts[n]
      /\ \A i \in 1..(n - 1) : tail[i] = texts[i] \o <<Punct("comma")>> \o tail[i + 1]
  BY DEF IsChain
<1>2. 0 \in P
  <2>1. n \in 1..n /\ texts[n] \in Texts /\ n - 0 = n /\ 0 \in 0..(n - 1)
    OBVIOUS
  <2>2. ItemsBack(R, v, p, texts[n], n, n)
    BY <2>1, LastItemBack
  <2> QED
    BY <1>1, <2>1, <2>2
<1>3. ASSUME NEW j \in 1..(n - 1), j - 1 \in P PROVE j \in P
  <2> DEFINE i == n - j
  <2>1. i \in 1..(n - 1) /\ n - (j - 1) = i + 1 /\ i \in 1..n /\ i + 1 \in 1..n /\ j \in 0..(n - 1)
    OBVIOUS
  <2>2. ItemsBack(R, v, p, tail[i + 1], i + 1, n)
    BY <1>3, <2>1
  <2> HIDE DEF P, i
  <2>3. texts[i] \in Texts /\ tail[i + 1] \in Texts
    BY <1>1, <2>1
  <2>4. ItemsBack(R, v, p, texts[i] \o <<Punct("comma")>> \o tail[i + 1], i, n)
    BY <2>1, <2>2, <2>3, MoreItemsBack
  <2>5. ItemsBack(R, v, p, tail[i], i, n)
    BY <1>1, <2>1, <2>4
  <2> QED
    BY <2>1, <2>5 DEF P, i
<1> HIDE DEF P
<1>4. \A j \in 0..(n - 1) : j \in P
  <2>1. \A j \in 1..(n - 1) : j - 1 \in P => j \in P
    BY <1>3
  <2>2. n - 1 \in Nat
    OBVIOUS
  <2> QED
    BY <1>2, <2>1, <2>2, UpTo
<1>5. n - 1 \in 0..(n - 1) /\ n - (n - 1) = 1
  OBVIOUS
<1> QED
  BY <1>4, <1>5 DEF P

LEMMA MembersAllBack ==
  ASSUME OfTokens, Clean, NEW R, Reads(R), NEW v, NEW p, Len(p) \in Nat, NEW n \in Nat, n # 0,
         NEW keys, NEW below \in [1..n -> Texts], NEW texts \in [1..n -> Texts],
         NEW tail, IsChain(tail, texts, n),
         \A i \in 1..n : /\ keys[i] \in Seq(Runes) /\ texts[i] = MemberText(keys[i], below[i])
                         /\ Len(Append(p, Field(keys[i]))) = Len(p) + 1
                         /\ Back(R, v, below[i], Append(p, Field(keys[i])))
  PROVE  MembersBack(R, v, p, keys, tail[1], 1, n)
<1> DEFINE P == {j \in 0..(n - 1) : MembersBack(R, v, p, keys, tail[n - j], n - j, n)}
<1>1. /\ tail \in [1..n -> Texts] /\ tail[n] = texts[n]
      /\ \A i \in 1..(n - 1) : tail[i] = texts[i] \o <<Punct("comma")>> \o tail[i + 1]
  BY DEF IsChain
<1>2. 0 \in P
  <2>1. n \in 1..n /\ below[n] \in Texts /\ n - 0 = n /\ 0 \in 0..(n - 1)
    OBVIOUS
  <2>2. MembersBack(R, v, p, keys, MemberText(keys[n], below[n]), n, n)
    BY <2>1, LastMemberBack
  <2> QED
    BY <1>1, <2>1, <2>2
<1>3. ASSUME NEW j \in 1..(n - 1), j - 1 \in P PROVE j \in P
  <2> DEFINE i == n - j
  <2>1. i \in 1..(n - 1) /\ n - (j - 1) = i + 1 /\ i \in 1..n /\ i + 1 \in 1..n /\ j \in 0..(n - 1)
    OBVIOUS
  <2>2. MembersBack(R, v, p, keys, tail[i + 1], i + 1, n)
    BY <1>3, <2>1
  <2> HIDE DEF P, i
  <2>3. below[i] \in Texts /\ tail[i + 1] \in Texts
    BY <1>1, <2>1
  <2>4. MembersBack(R, v, p, keys, MemberText(keys[i], below[i]) \o <<Punct("comma")>> \o tail[i + 1], i, n)
    BY <2>1, <2>2, <2>3, MoreMembersBack
  <2>5. MembersBack(R, v, p, keys, tail[i], i, n)
    BY <1>1, <2>1, <2>4
  <2> QED
    BY <2>1, <2>5 DEF P, i
<1> HIDE DEF P
<1>4. \A j \in 0..(n - 1) : j \in P
  <2>1. \A j \in 1..(n - 1) : j - 1 \in P => j \in P
    BY <1>3
  <2>2. n - 1 \in Nat
    OBVIOUS
  <2> QED
    BY <1>2, <2>1, <2>2, UpTo
<1>5. n - 1 \in 0..(n - 1) /\ n - (n - 1) = 1
  OBVIOUS
<1> QED
  BY <1>4, <1>5 DEF P

\* A text between two brackets.
LEMMA StandsBetween ==
  ASSUME OfTokens, NEW a \in Puncts, NEW b \in Puncts, NEW t \in Texts, NEW k \in 1..(Size + 1),
         Stands(<<Punct(a)>> \o t \o <<Punct(b)>>, k)
  PROVE  /\ k \in 1..Size /\ At(k, a) /\ k + 1 \in 1..(Size + 1) /\ Stands(t, k + 1)
         /\ k + 1 + Len(t) \in 1..(Size + 1) /\ At(k + 1 + Len(t), b)
         /\ k + 1 + Len(t) + 1 = k + Len(<<Punct(a)>> \o t \o <<Punct(b)>>)
<1> DEFINE x == <<Punct(a)>>
           y == <<Punct(b)>>
           u == x \o t
<1>1. x \in Texts /\ y \in Texts
  BY PunctText
<1> HIDE DEF x, y
<1>2. u \in Texts
  BY <1>1 DEF Texts
<1>3. /\ Stands(u, k) /\ Stands(y, k + Len(u)) /\ k + Len(u) \in 1..(Size + 1)
      /\ k + Len(u) + Len(y) = k + Len(u \o y)
  <2>1. Stands(u \o y, k)
    BY DEF x, y
  <2> HIDE DEF u
  <2> QED
    BY <1>1, <1>2, <2>1, StandsParts
<1>4. Stands(x, k) /\ Stands(t, k + Len(x)) /\ k + Len(x) + Len(t) = k + Len(u)
  BY <1>1, <1>3, StandsParts
<1>5. k \in 1..Size /\ k + Len(x) = k + 1 /\ At(k, a) /\ k + 1 \in 1..(Size + 1)
  BY <1>4, StandsPunct DEF x
<1> HIDE DEF u
<1> DEFINE e == k + Len(u)
<1>6. e + Len(y) = e + 1 /\ At(e, b) /\ e \in 1..(Size + 1) /\ Stands(y, e)
  <2>1. e \in 1..(Size + 1) /\ Stands(y, e)
    BY <1>3
  <2> HIDE DEF e
  <2> QED
    BY <2>1, StandsPunct DEF y
<1>7. k + 1 + Len(t) = e
  BY <1>4, <1>5
<1> QED
  BY <1>3, <1>4, <1>5, <1>6, <1>7 DEF u, x, y

LEMMA ArrayBack ==
  ASSUME OfTokens, Clean, NEW R, Reads(R), NEW v, IsValue(v), NEW T, Written(v, T),
         NEW p \in DOMAIN v, v[p].js = "array", ~TooDeep(Len(p)),
         \A s \in Steps(v[p]) : Back(R, v, T[Append(p, s)], Append(p, s))
  PROVE  Back(R, v, T[p], p)
<1> DEFINE n == v[p].size
           texts == ItemTexts(n, T, p)
           C == Commas(texts)
           d == Len(p)
<1>1. IsNode(v[p]) /\ d \in Nat
  BY PlaceIs
<1>2. n \in Nat /\ Steps(v[p]) = {Item(i) : i \in 1..n}
  BY <1>1, NodeSort
<1>3. ASSUME NEW i \in 1..n
      PROVE  /\ Item(i) \in Steps(v[p]) /\ Len(Append(p, Item(i))) = d + 1
             /\ T[Append(p, Item(i))] \in Texts
             /\ Back(R, v, T[Append(p, Item(i))], Append(p, Item(i)))
  <2>1. Item(i) \in Steps(v[p])
    BY <1>2
  <2>2. Append(p, Item(i)) \in DOMAIN v /\ Len(Append(p, Item(i))) = d + 1
    BY <2>1, PlaceIs
  <2> QED
    BY <2>1, <2>2, TokensBelow
<1>4. texts \in [1..n -> Texts] /\ \A i \in 1..n : texts[i] = T[Append(p, Item(i))]
  BY <1>3 DEF ItemTexts
<1>5. T[p] = <<Punct("bracket")>> \o C \o <<Punct("endbracket")>>
  <2>1. T[p] = DumpNode(PlaceBson(v), T, p)
    BY DEF Written
  <2> QED
    BY <2>1, DumpIs
<1> HIDE DEF texts, n
<1>6. C \in Texts
  BY <1>2, <1>4, CommasText
<1> SUFFICES ASSUME NEW k \in 1..(Size + 1), Stands(T[p], k)
             PROVE  \E w : R[<<"value", k, d>>] = Got(w, k + Len(T[p])) /\ Holds(v, w, p)
  BY DEF Back
<1> HIDE DEF C, d
<1> DEFINE e == k + 1 + Len(C)
<1>7. /\ k \in 1..Size /\ At(k, "bracket") /\ k + 1 \in 1..(Size + 1) /\ Stands(C, k + 1)
      /\ e \in 1..(Size + 1) /\ At(e, "endbracket") /\ e + 1 = k + Len(T[p])
  <2>1. "bracket" \in Puncts /\ "endbracket" \in Puncts
    BY DEF Puncts
  <2> QED
    BY <1>5, <1>6, <2>1, StandsBetween
<1>8. Skip(k) = k /\ Skip(k + 1) = k + 1 /\ k \in Nat /\ Size \in Nat
  BY <1>7, CleanSkip, SizeIs
<1>9. ~TooDeep(d)
  BY DEF d
<1>10. RemainingNode(v[p]) = JsArray(n)
  BY <1>1, RemainingIs DEF n
<1>11. CASE n = 0
  <2>1. C = <<>>
    BY <1>2, <1>4, <1>11, CommasAre DEF C
  <2>2. e = k + 1
    BY <1>8, <2>1
  <2>3. At(Skip(k + 1), "endbracket")
    BY <1>7, <1>8, <2>2
  <2>4. ParseJson(R, k, d) = Got(Leaf(Array(0)), Skip(k + 1) + 1)
    BY <1>7, <1>8, <1>9, <2>3, ArrayValue
  <2>5. R[<<"value", k, d>>] = Got(Leaf(Array(0)), e + 1)
    BY <1>1, <1>8, <2>2, <2>4, ValueYields DEF d
  <2>6. Steps(v[p]) = {}
    BY <1>2, <1>11
  <2>7. Holds(v, Leaf(Array(0)), p)
    BY <1>10, <1>11, <2>6, LeafHolds, ScriptNodeIs
  <2> QED
    BY <1>7, <2>5, <2>7
<1>12. CASE n # 0
  <2>1. PICK tail : IsChain(tail, texts, n) /\ C = tail[1]
    BY <1>2, <1>4, <1>12, CommasAre DEF C
  <2>2. ItemsBack(R, v, p, C, 1, n)
    <3>1. \A i \in 1..n : /\ Len(Append(p, Item(i))) = Len(p) + 1
                          /\ Back(R, v, texts[i], Append(p, Item(i)))
      BY <1>3, <1>4 DEF d
    <3>2. Len(p) \in Nat
      BY <1>1 DEF d
    <3> QED
      BY <1>2, <1>4, <1>12, <2>1, <3>1, <3>2, ItemsAllBack
  <2>3. PICK l : R[<<"items", k + 1, d>>] = Got(l, e + 1) /\ ItemsHold(v, l, p, 1, n)
    BY <1>7, <2>2 DEF ItemsBack, d
  <2>4. ~At(k + 1, "endbracket")
    BY <1>1, <1>7, <1>8, <2>3, NoListAtEnd, GotNotFailed DEF d
  <2>5. ParseJson(R, k, d) = Got(ArrayOf(l), e + 1)
    <3> HIDE DEF e
    <3> QED
      BY <1>7, <1>8, <1>9, <2>3, <2>4, ArrayGot
  <2>6. R[<<"value", k, d>>] = Got(ArrayOf(l), e + 1)
    BY <1>1, <2>5, ValueYields DEF d
  <2>7. IsList(l) /\ Len(l) = n /\ \A j \in 1..n : Holds(v, l[j], Append(p, Item(j)))
    <3>1. n - 1 + 1 = n /\ \A j \in 1..n : 1 + j - 1 = j
      BY <1>2
    <3> QED
      BY <2>3, <3>1 DEF ItemsHold
  <2>8. DOMAIN l = 1..n
    <3>1. PICK S : l \in Seq(S)
      BY <2>7 DEF IsList
    <3> QED
      BY <2>7, <3>1
  <2> DEFINE parts == Items(l)
  <2>9. DOMAIN parts = Steps(v[p])
    BY <1>2, <2>8 DEF Items
  <2>10. ASSUME NEW s \in Steps(v[p]) PROVE Holds(v, parts[s], Append(p, s))
    <3>1. PICK j \in 1..n : s = Item(j)
      BY <1>2
    <3>2. parts[s] = l[j]
      <4>1. Item(j).item = j
        BY DEF Item
      <4> QED
        BY <2>8, <3>1, <4>1 DEF Items
    <3> QED
      BY <2>7, <3>1, <3>2
  <2> HIDE DEF parts
  <2>11. Holds(v, Built(Array(n), parts), p)
    BY <1>10, <2>9, <2>10, BuiltHolds, ScriptNodeIs
  <2>12. Holds(v, ArrayOf(l), p)
    BY <2>7, <2>11 DEF ArrayOf, parts
  <2> QED
    BY <1>7, <2>6, <2>12
<1> QED
  BY <1>11, <1>12

LEMMA ObjectBack ==
  ASSUME OfTokens, Clean, NEW R, Reads(R), NEW v, IsValue(v), NEW T, Written(v, T),
         NEW p \in DOMAIN v, v[p].js \in {"object", "function"}, ~TooDeep(Len(p)),
         \A s \in Steps(v[p]) : Back(R, v, T[Append(p, s)], Append(p, s))
  PROVE  Back(R, v, T[p], p)
<1> DEFINE S == KeysAt(v[p])
           keys == SetToSeq(S)
           n == Len(keys)
           texts == MemberTexts(keys, T, p)
           below == [i \in 1..n |-> T[Append(p, Field(keys[i]))]]
           C == Commas(texts)
           d == Len(p)
<1>1. IsNode(v[p]) /\ d \in Nat
  BY PlaceIs
<1>2. IsFiniteSet(S) /\ Steps(v[p]) = {Field(x) : x \in S}
  BY <1>1, NodeSort
<1>3. S \subseteq Seq(Runes)
  BY PlaceIs DEF KeysAt
<1>4. keys \in Seq(S) /\ DOMAIN keys = 1..n /\ S = {keys[i] : i \in 1..n}
  <2>1. keys \in Seq(S) /\ DOMAIN keys = 1..Len(keys) /\ S = {keys[i] : i \in DOMAIN keys}
    BY <1>2, KeysInOrder
  <2> HIDE DEF keys
  <2> QED
    BY <2>1
<1>5. T[p] = <<Punct("brace")>> \o C \o <<Punct("endbrace")>>
  <2>1. T[p] = DumpNode(PlaceBson(v), T, p)
    BY DEF Written
  <2> QED
    BY <2>1, DumpIs
<1>6. RemainingNode(v[p]) = JsObject(S)
  BY <1>1, RemainingIs
<1> HIDE DEF keys, S
<1>7. n \in Nat
  BY <1>4
<1>8. ASSUME NEW i \in 1..n
      PROVE  /\ keys[i] \in S /\ keys[i] \in Seq(Runes)
             /\ Len(Append(p, Field(keys[i]))) = d + 1
             /\ T[Append(p, Field(keys[i]))] \in Texts
             /\ Back(R, v, T[Append(p, Field(keys[i]))], Append(p, Field(keys[i])))
  <2>1. keys[i] \in S
    BY <1>4
  <2>2. keys[i] \in Seq(Runes) /\ Field(keys[i]) \in Steps(v[p])
    BY <1>2, <1>3, <2>1
  <2>3. Append(p, Field(keys[i])) \in DOMAIN v /\ Len(Append(p, Field(keys[i]))) = d + 1
    BY <2>2, PlaceIs
  <2> QED
    BY <2>1, <2>2, <2>3, TokensBelow
<1>9. below \in [1..n -> Texts] /\ \A i \in 1..n : below[i] = T[Append(p, Field(keys[i]))]
  BY <1>8
<1>10. \A i \in 1..n : texts[i] = MemberText(keys[i], below[i])
  BY <1>4, <1>9 DEF MemberTexts, MemberText
<1>11. texts \in [1..n -> Texts]
  <2>1. texts = [i \in 1..n |-> texts[i]]
    BY <1>4 DEF MemberTexts
  <2> HIDE DEF texts, below, n
  <2>2. \A i \in 1..n : texts[i] \in Texts
    BY <1>8, <1>9, <1>10, MemberTextIs
  <2> QED
    BY <2>1, <2>2
<1> HIDE DEF texts, below, n
<1>12. C \in Texts
  BY <1>7, <1>11, CommasText
<1> SUFFICES ASSUME NEW k \in 1..(Size + 1), Stands(T[p], k)
             PROVE  \E w : R[<<"value", k, d>>] = Got(w, k + Len(T[p])) /\ Holds(v, w, p)
  BY DEF Back
<1> HIDE DEF C, d
<1> DEFINE e == k + 1 + Len(C)
<1>13. /\ k \in 1..Size /\ At(k, "brace") /\ k + 1 \in 1..(Size + 1) /\ Stands(C, k + 1)
       /\ e \in 1..(Size + 1) /\ At(e, "endbrace") /\ e + 1 = k + Len(T[p])
  <2>1. "brace" \in Puncts /\ "endbrace" \in Puncts
    BY DEF Puncts
  <2> QED
    BY <1>5, <1>12, <2>1, StandsBetween
<1>14. Skip(k) = k /\ Skip(k + 1) = k + 1 /\ k \in Nat /\ Size \in Nat
  BY <1>13, CleanSkip, SizeIs
<1>15. ~TooDeep(d)
  BY DEF d
<1>16. CASE n = 0
  <2>1. C = <<>>
    BY <1>7, <1>11, <1>16, CommasAre DEF C
  <2>2. e = k + 1
    BY <1>14, <2>1
  <2>3. At(Skip(k + 1), "endbrace")
    BY <1>13, <1>14, <2>2
  <2>4. ParseJson(R, k, d) = Got(Leaf(Object({})), Skip(k + 1) + 1)
    BY <1>13, <1>14, <1>15, <2>3, ObjectValue
  <2>5. R[<<"value", k, d>>] = Got(Leaf(Object({})), e + 1)
    BY <1>1, <1>14, <2>2, <2>4, ValueYields DEF d
  <2>6. S = {} /\ Steps(v[p]) = {}
    BY <1>2, <1>4, <1>16
  <2>7. ScriptNode(Object({})) = RemainingNode(v[p])
    BY <1>6, <2>6, ScriptNodeIs
  <2>8. Holds(v, Leaf(Object({})), p)
    BY <2>6, <2>7, LeafHolds
  <2> QED
    BY <1>13, <2>5, <2>8
<1>17. CASE n # 0
  <2>1. PICK tail : IsChain(tail, texts, n) /\ C = tail[1]
    BY <1>7, <1>11, <1>17, CommasAre DEF C
  <2>2. MembersBack(R, v, p, keys, C, 1, n)
    <3>1. \A i \in 1..n : /\ keys[i] \in Seq(Runes) /\ texts[i] = MemberText(keys[i], below[i])
                          /\ Len(Append(p, Field(keys[i]))) = Len(p) + 1
                          /\ Back(R, v, below[i], Append(p, Field(keys[i])))
      BY <1>8, <1>9, <1>10 DEF d
    <3>2. Len(p) \in Nat
      BY <1>1 DEF d
    <3> QED
      BY <1>7, <1>9, <1>11, <1>17, <2>1, <3>1, <3>2, MembersAllBack
  <2>3. PICK l : R[<<"members", k + 1, d>>] = Got(l, e + 1) /\ MembersHold(v, l, p, keys, 1, n)
    BY <1>13, <2>2 DEF MembersBack, d
  <2>4. ~At(k + 1, "endbrace")
    BY <1>1, <1>13, <1>14, <2>3, NoListAtEnd, GotNotFailed DEF d
  <2>5. ParseJson(R, k, d) = Got(ObjectOf(l), e + 1)
    <3> HIDE DEF e
    <3> QED
      BY <1>13, <1>14, <1>15, <2>3, <2>4, ObjectGot
  <2>6. R[<<"value", k, d>>] = Got(ObjectOf(l), e + 1)
    BY <1>1, <2>5, ValueYields DEF d
  <2>7. DOMAIN l = S /\ \A x \in S : Holds(v, l[x], Append(p, Field(x)))
    BY <1>4, <2>3 DEF MembersHold
  <2> DEFINE parts == Fields(l)
  <2>8. DOMAIN parts = Steps(v[p])
    BY <1>2, <2>7 DEF Fields
  <2>9. ASSUME NEW s \in Steps(v[p]) PROVE Holds(v, parts[s], Append(p, s))
    <3>1. PICK x \in S : s = Field(x)
      BY <1>2
    <3>2. parts[s] = l[x]
      <4>1. Field(x).field = x
        BY DEF Field
      <4> QED
        BY <2>7, <3>1, <4>1 DEF Fields
    <3> QED
      BY <2>7, <3>1, <3>2
  <2> HIDE DEF parts
  <2>10. Holds(v, Built(Object(S), parts), p)
    BY <1>6, <2>8, <2>9, BuiltHolds, ScriptNodeIs
  <2>11. Holds(v, ObjectOf(l), p)
    BY <2>7, <2>10 DEF ObjectOf, parts
  <2> QED
    BY <1>13, <2>6, <2>11
<1> QED
  BY <1>7, <1>16, <1>17

LEMMA AllBack ==
  ASSUME OfTokens, Clean, NEW R, Reads(R), NEW v, IsValue(v), Shallow(v), NEW T, Written(v, T)
  PROVE  \A p \in DOMAIN v : Back(R, v, T[p], p)
<1> DEFINE P == {p \in DOMAIN v : Back(R, v, T[p], p)}
<1>1. ASSUME NEW p \in DOMAIN v, \A s \in Steps(v[p]) : Append(p, s) \in P PROVE p \in P
  <2>1. \A s \in Steps(v[p]) : Back(R, v, T[Append(p, s)], Append(p, s))
    BY <1>1
  <2>2. ~TooDeep(Len(p))
    <3>1. Len(p) <= MaxDepth /\ Len(p) \in Nat /\ MaxDepth \in Nat
      BY PlaceIs, BsonAssumption DEF Shallow
    <3> QED
      BY <3>1 DEF TooDeep
  <2>3. Back(R, v, T[p], p)
    <3>1. CASE v[p].js \in Scalars
      <4>1. T[p] = <<Plain(BsonNode(v[p]))>>
        BY <3>1, DumpIs DEF Written
      <4> QED
        BY <2>2, <3>1, <4>1, ScalarBack
    <3>2. CASE v[p].js = "array"
      BY <2>1, <2>2, <3>2, ArrayBack
    <3>3. CASE v[p].js \in {"object", "function"}
      BY <2>1, <2>2, <3>3, ObjectBack
    <3> QED
      BY <3>1, <3>2, <3>3, PlaceIs, NodeSort
  <2> QED
    BY <2>3
<1> HIDE DEF P
<1>2. \A p \in DOMAIN v : p \in P
  BY <1>1, PlaceInduction
<1> QED
  BY <1>2 DEF P

-----------------------------------------------------------------------------
(* Keys and strings end before U+0000. *)

Ends(s, n) ==
    /\ n \in 0..Len(s) /\ \A m \in 1..n : s[m] # "nul"
    /\ n < Len(s) => s[n + 1] = "nul"

LEMMA UpToNulAt ==
  ASSUME NEW s, NEW l, Ends(s, l) PROVE \E n : Ends(s, n) /\ UpToNul(s) = SubSeq(s, 1, n)
<1> DEFINE P(n) == /\ \A m \in 1..n : s[m] # "nul"
                   /\ n < Len(s) => s[n + 1] = "nul"
           c == CHOOSE n \in 0..Len(s) : P(n)
<1>1. l \in 0..Len(s) /\ P(l)
  BY DEF Ends
<1>2. UpToNul(s) = SubSeq(s, 1, c)
  BY Zenon DEF UpToNul
<1> HIDE DEF P
<1>3. c \in 0..Len(s) /\ P(c)
  BY <1>1
<1> HIDE DEF c
<1>4. Ends(s, c)
  BY <1>3 DEF Ends, P
<1> QED
  BY <1>2, <1>4

LEMMA UpToNulIs ==
  ASSUME NEW s \in Seq(Runes)
  PROVE  UpToNul(s) \in Seq(Runes) /\ UpToNul(UpToNul(s)) = UpToNul(s)
<1>1. ASSUME NEW t \in Seq(Runes)
      PROVE  \E n : Ends(t, n) /\ UpToNul(t) = SubSeq(t, 1, n)
  <2>1. Len(t) \in Nat
    OBVIOUS
  <2> DEFINE T == {n \in 0..Len(t) : n < Len(t) => t[n + 1] = "nul"}
  <2>2. T \subseteq Nat /\ T # {}
    <3>1. Len(t) \in T
      BY <2>1
    <3> QED
      BY <3>1
  <2> HIDE DEF T
  <2>3. PICK n \in T : \A m \in T : n <= m
    BY <2>2, LeastOf
  <2>4. ASSUME NEW m \in 1..n PROVE t[m] # "nul"
    <3>1. m - 1 \in Nat /\ m - 1 < n /\ m - 1 + 1 = m /\ n <= Len(t)
      BY <2>1, <2>3 DEF T
    <3>2. m - 1 \notin T
      BY <2>3, <2>2, <3>1
    <3> QED
      BY <2>1, <3>1, <3>2 DEF T
  <2>5. Ends(t, n)
    BY <2>3, <2>4 DEF Ends, T
  <2> QED
    BY <2>5, UpToNulAt
<1>2. PICK n : Ends(s, n) /\ UpToNul(s) = SubSeq(s, 1, n)
  BY <1>1
<1> DEFINE u == SubSeq(s, 1, n)
<1>3. n \in 0..Len(s) /\ Len(s) \in Nat /\ \A m \in 1..n : s[m] # "nul"
  BY <1>2 DEF Ends
<1>4. u \in Seq(Runes) /\ Len(u) = n /\ \A m \in 1..n : u[m] # "nul"
  BY <1>3
<1> HIDE DEF u
<1>5. PICK m : Ends(u, m) /\ UpToNul(u) = SubSeq(u, 1, m)
  BY <1>1, <1>4
<1>6. m = n
  <2>1. m \in 0..n /\ (m < n => u[m + 1] = "nul")
    BY <1>4, <1>5 DEF Ends
  <2>2. m < n => m + 1 \in 1..n
    BY <1>3, <2>1
  <2> QED
    BY <1>3, <1>4, <2>1, <2>2
<1>7. SubSeq(u, 1, n) = u
  BY <1>3, <1>4
<1> QED
  BY <1>2, <1>4, <1>5, <1>6, <1>7 DEF u

LEMMA StepsAre ==
  /\ \A i : "field" \notin DOMAIN Item(i) /\ CutStep(Item(i)) = Item(i)
  /\ \A k : Field(k).field = k /\ CutStep(Field(k)) = Field(UpToNul(k))
  /\ \A s \in StepSet : CutStep(s) \in StepSet
<1>1. ASSUME NEW i PROVE "field" \notin DOMAIN Item(i) /\ CutStep(Item(i)) = Item(i)
  <2>1. "field" \notin DOMAIN Item(i)
    BY DEF Item
  <2> QED
    BY <2>1 DEF CutStep
<1>2. ASSUME NEW k PROVE Field(k).field = k /\ CutStep(Field(k)) = Field(UpToNul(k))
  <2>1. "field" \in DOMAIN Field(k) /\ Field(k).field = k
    BY DEF Field
  <2> QED
    BY <2>1 DEF CutStep
<1>3. ASSUME NEW s \in StepSet PROVE CutStep(s) \in StepSet
  <2>1. CASE s \in [item : Nat]
    <3>1. "field" \notin DOMAIN s
      BY <2>1
    <3> QED
      BY <3>1 DEF CutStep
  <2>2. CASE s \in [field : Seq(Runes)]
    <3>1. "field" \in DOMAIN s /\ s.field \in Seq(Runes)
      BY <2>2
    <3>2. UpToNul(s.field) \in Seq(Runes)
      BY <3>1, UpToNulIs
    <3>3. Field(UpToNul(s.field)) \in StepSet
      BY <3>2 DEF StepSet, Field
    <3> QED
      BY <3>1, <3>3 DEF CutStep
  <2> QED
    BY <2>1, <2>2 DEF StepSet
<1> QED
  BY <1>1, <1>2, <1>3

LEMMA CutPlaceIs ==
  ASSUME NEW p \in Seq(StepSet)
  PROVE  /\ CutPlace(p) \in Seq(StepSet) /\ Len(CutPlace(p)) = Len(p)
         /\ \A n \in 1..Len(p) : CutPlace(p)[n] = CutStep(p[n])
         /\ \A n \in 0..Len(p) : CutPlace(SubSeq(p, 1, n)) = SubSeq(CutPlace(p), 1, n)
         /\ \A s \in StepSet : CutPlace(Append(p, s)) = Append(CutPlace(p), CutStep(s))
<1>1. Len(p) \in Nat /\ DOMAIN p = 1..Len(p) /\ \A n \in 1..Len(p) : p[n] \in StepSet
  OBVIOUS
<1>2. CutPlace(p) = [n \in 1..Len(p) |-> CutStep(p[n])]
  BY <1>1 DEF CutPlace
<1>3. \A n \in 1..Len(p) : CutPlace(p)[n] = CutStep(p[n]) /\ CutStep(p[n]) \in StepSet
  BY <1>1, <1>2, StepsAre
<1>4. CutPlace(p) \in Seq(StepSet) /\ Len(CutPlace(p)) = Len(p)
  BY <1>1, <1>2, <1>3
<1>5. ASSUME NEW n \in 0..Len(p)
      PROVE  CutPlace(SubSeq(p, 1, n)) = SubSeq(CutPlace(p), 1, n)
  <2> DEFINE u == SubSeq(p, 1, n)
  <2>1. DOMAIN u = 1..n /\ \A m \in 1..n : u[m] = p[m] /\ m \in 1..Len(p)
    BY <1>1
  <2> HIDE DEF u
  <2>2. CutPlace(u) = [m \in 1..n |-> CutStep(p[m])]
    BY <2>1 DEF CutPlace
  <2>3. SubSeq(CutPlace(p), 1, n) = [m \in 1..n |-> CutPlace(p)[m]]
    BY <1>1, <1>4
  <2>4. [m \in 1..n |-> CutPlace(p)[m]] = [m \in 1..n |-> CutStep(p[m])]
    BY <1>3, <2>1
  <2> QED
    BY <2>2, <2>3, <2>4 DEF u
<1>6. ASSUME NEW s \in StepSet PROVE CutPlace(Append(p, s)) = Append(CutPlace(p), CutStep(s))
  <2> DEFINE u == Append(p, s)
             l == Len(p)
             c == CutPlace(p)
             d == Append(c, CutStep(s))
  <2>1. /\ DOMAIN u = 1..(l + 1) /\ u[l + 1] = s /\ l \in Nat
        /\ \A m \in 1..l : u[m] = p[m]
    BY <1>1
  <2>2. c \in Seq(StepSet) /\ Len(c) = l /\ \A m \in 1..l : c[m] = CutStep(p[m])
    BY <1>3, <1>4
  <2>3. CutPlace(u) = [m \in 1..(l + 1) |-> CutStep(u[m])]
    BY <2>1 DEF CutPlace
  <2>4. CutStep(s) \in StepSet
    BY StepsAre
  <2> HIDE DEF u, l, c
  <2>5. d \in Seq(StepSet) /\ DOMAIN d = 1..(l + 1) /\ d[l + 1] = CutStep(s)
        /\ \A m \in 1..l : d[m] = c[m]
    BY <2>1, <2>2, <2>4
  <2> HIDE DEF d
  <2>6. d = [m \in 1..(l + 1) |-> d[m]]
    BY <2>5
  <2>7. ASSUME NEW m \in 1..(l + 1) PROVE CutStep(u[m]) = d[m]
    BY <2>1, <2>2, <2>5
  <2> QED
    BY <2>3, <2>6, <2>7 DEF u, c, d
<1> QED
  BY <1>3, <1>4, <1>5, <1>6

-----------------------------------------------------------------------------
(* The places that are left. *)

Lasting(v) == {p \in DOMAIN v : Overrides(v, p)}

CutNode(n) == IF n.js = "object" THEN JsObject({UpToNul(k) : k \in n.keys}) ELSE n

LEMMA KeysCutIs ==
  ASSUME NEW v
  PROVE  KeysCut(v) = [q \in {CutPlace(p) : p \in Lasting(v)} |->
                          CutNode(v[CHOOSE p \in Lasting(v) : CutPlace(p) = q])]
BY DEF KeysCut, Lasting, CutNode

LEMMA OverridingIs ==
  ASSUME NEW keys, NEW k \in keys
  PROVE  /\ Overriding(keys, k) \in keys
         /\ UpToNul(Overriding(keys, k)) = UpToNul(k)
         /\ \A l : UpToNul(l) = UpToNul(k) => Overriding(keys, l) = Overriding(keys, k)
BY DEF Overriding

LEMMA AboveIs ==
  ASSUME NEW v, IsValue(v), NEW p \in DOMAIN v, NEW n \in 1..Len(p)
  PROVE  LET above == SubSeq(p, 1, n - 1)
         IN /\ above \in DOMAIN v /\ p[n] \in Steps(v[above])
            /\ \/ v[above].js = "array" /\ \E i : p[n] = Item(i)
               \/ v[above].js = "object" /\ \E k \in v[above].keys : p[n] = Field(k)
<1> DEFINE above == SubSeq(p, 1, n - 1)
<1>1. above \in DOMAIN v /\ p[n] \in Steps(v[above])
  BY DEF IsValue
<1> HIDE DEF above
<1>2. IsNode(v[above])
  BY <1>1, PlaceIs
<1>3. CASE v[above].js = "array"
  <2>1. \E i : p[n] = Item(i)
    BY <1>1, <1>2, <1>3, NodeSort
  <2> QED
    BY <1>1, <1>3, <2>1 DEF above
<1>4. CASE v[above].js # "array"
  <2>1. \E k \in KeysAt(v[above]) : p[n] = Field(k)
    BY <1>1, <1>2, <1>4, NodeSort
  <2>2. v[above].js = "object" /\ \E k \in v[above].keys : p[n] = Field(k)
    BY <2>1 DEF KeysAt
  <2> QED
    BY <1>1, <2>2 DEF above
<1> QED
  BY <1>3, <1>4

\* No two places that are left become the same.
LEMMA CutOnce ==
  ASSUME NEW v, IsValue(v), NEW p \in Lasting(v), NEW r \in Lasting(v), CutPlace(p) = CutPlace(r)
  PROVE  p = r
<1> SUFFICES ASSUME p # r PROVE FALSE
  OBVIOUS
<1>1. p \in Seq(StepSet) /\ r \in Seq(StepSet) /\ p \in DOMAIN v /\ r \in DOMAIN v
  BY PlaceIs DEF Lasting
<1>2. Len(p) \in Nat /\ Len(r) = Len(p)
  BY <1>1, CutPlaceIs
<1> DEFINE T == {n \in 1..Len(p) : p[n] # r[n]}
<1>3. T \subseteq Nat /\ T # {}
  BY <1>1, <1>2
<1>4. PICK n \in T : \A m \in T : n <= m
  BY <1>3, LeastOf
<1>5. n \in 1..Len(p) /\ n \in 1..Len(r) /\ p[n] # r[n]
  BY <1>2, <1>4
<1>6. \A m \in 1..(n - 1) : p[m] = r[m]
  BY <1>2, <1>4, <1>5
<1> HIDE DEF T
<1> DEFINE a == SubSeq(p, 1, n - 1)
<1>7. SubSeq(r, 1, n - 1) = a
  BY <1>1, <1>2, <1>5, <1>6
<1>8. CutStep(p[n]) = CutStep(r[n])
  BY <1>1, <1>5, CutPlaceIs
<1>9. \/ v[a].js = "array" /\ \E i : p[n] = Item(i)
      \/ v[a].js = "object" /\ \E k \in v[a].keys : p[n] = Field(k)
  BY <1>1, <1>5, AboveIs
<1>14. \/ v[a].js = "array" /\ \E i : r[n] = Item(i)
       \/ v[a].js = "object" /\ \E k \in v[a].keys : r[n] = Field(k)
  <2>1. LET b == SubSeq(r, 1, n - 1)
        IN \/ v[b].js = "array" /\ \E i : r[n] = Item(i)
           \/ v[b].js = "object" /\ \E k \in v[b].keys : r[n] = Field(k)
    BY <1>1, <1>5, AboveIs
  <2> HIDE DEF a
  <2> QED
    BY <1>7, <2>1
<1>10. DOMAIN p = 1..Len(p) /\ DOMAIN r = 1..Len(r)
  BY <1>1
<1>11. v[a].js = "object" => /\ p[n].field = Overriding(v[a].keys, p[n].field)
                             /\ r[n].field = Overriding(v[a].keys, r[n].field)
  BY <1>5, <1>7, <1>10 DEF Lasting, Overrides
<1> HIDE DEF a
<1>12. CASE v[a].js = "array"
  <2>1. PICK i, j : p[n] = Item(i) /\ r[n] = Item(j)
    BY <1>9, <1>12, <1>14
  <2> QED
    BY <1>5, <1>8, <2>1, StepsAre
<1>13. CASE v[a].js = "object"
  <2>1. PICK k \in v[a].keys, l \in v[a].keys : p[n] = Field(k) /\ r[n] = Field(l)
    BY <1>9, <1>13, <1>14
  <2>2. UpToNul(k) = UpToNul(l)
    BY <1>8, <2>1, StepsAre
  <2>3. k = Overriding(v[a].keys, k) /\ l = Overriding(v[a].keys, l)
    BY <1>11, <1>13, <2>1, StepsAre
  <2>4. k = l
    BY <2>1, <2>2, <2>3, OverridingIs
  <2> QED
    BY <1>5, <2>1, <2>4
<1> QED
  BY <1>9, <1>12, <1>13

LEMMA CutAt ==
  ASSUME NEW v, IsValue(v)
  PROVE  /\ DOMAIN KeysCut(v) = {CutPlace(p) : p \in Lasting(v)}
         /\ \A p \in Lasting(v) : KeysCut(v)[CutPlace(p)] = CutNode(v[p])
<1> DEFINE K == Lasting(v)
<1>1. KeysCut(v) = [q \in {CutPlace(p) : p \in K} |-> CutNode(v[CHOOSE p \in K : CutPlace(p) = q])]
  BY KeysCutIs
<1>2. ASSUME NEW p \in K PROVE KeysCut(v)[CutPlace(p)] = CutNode(v[p])
  <2> DEFINE r == CHOOSE x \in K : CutPlace(x) = CutPlace(p)
  <2>1. r \in K /\ CutPlace(r) = CutPlace(p)
    OBVIOUS
  <2> HIDE DEF r, K
  <2>2. r = p
    BY <2>1, CutOnce DEF K
  <2>3. CutPlace(p) \in {CutPlace(x) : x \in K}
    OBVIOUS
  <2>4. KeysCut(v)[CutPlace(p)] = CutNode(v[r])
    BY <1>1, <2>3 DEF r
  <2> QED
    BY <2>2, <2>4
<1> HIDE DEF K
<1>3. DOMAIN KeysCut(v) = {CutPlace(p) : p \in K}
  BY <1>1
<1> QED
  BY <1>2, <1>3 DEF K

LEMMA CutNodeIs ==
  ASSUME NEW n, IsNode(n), n.js = "object" => n.keys \subseteq Seq(Runes)
  PROVE  /\ IsNode(CutNode(n)) /\ CutNode(n).js = n.js
         /\ n.js # "object" => CutNode(n) = n
         /\ n.js = "object" => CutNode(n).keys = {UpToNul(k) : k \in n.keys}
<1>1. CASE n.js = "object"
  <2> DEFINE K == {UpToNul(k) : k \in n.keys}
  <2>1. IsFiniteSet(n.keys)
    BY <1>1 DEF IsNode
  <2>2. IsFiniteSet(K)
    <3> DEFINE f == [k \in n.keys |-> UpToNul(k)]
    <3>1. f \in Surjection(n.keys, K)
      BY DEF Surjection
    <3> QED
      BY <2>1, <3>1, FS_Surjection
  <2>3. CutNode(n) = JsObject(K)
    BY <1>1 DEF CutNode
  <2> HIDE DEF K
  <2>4. JsObject(K).js = "object" /\ JsObject(K).keys = K
    BY DEF JsObject
  <2>5. IsNode(JsObject(K))
    BY <2>2, <2>4 DEF IsNode
  <2> QED
    BY <1>1, <2>3, <2>4, <2>5 DEF K
<1>2. CASE n.js # "object"
  BY <1>2 DEF CutNode
<1> QED
  BY <1>1, <1>2

\* Below and above a place that is left.
LEMMA KeptBelow ==
  ASSUME NEW v, IsValue(v), NEW p \in Lasting(v), NEW s \in Steps(CutNode(v[p]))
  PROVE  \E t \in Steps(v[p]) : Append(p, t) \in Lasting(v) /\ CutStep(t) = s
<1> DEFINE n == v[p]
<1>1. p \in DOMAIN v /\ p \in Seq(StepSet) /\ Len(p) \in Nat
  BY PlaceIs DEF Lasting
<1>2. IsNode(n) /\ (n.js = "object" => n.keys \subseteq Seq(Runes))
  BY <1>1, PlaceIs
<1>3. /\ IsNode(CutNode(n)) /\ CutNode(n).js = n.js
      /\ n.js # "object" => CutNode(n) = n
      /\ n.js = "object" => CutNode(n).keys = {UpToNul(k) : k \in n.keys}
  BY <1>2, CutNodeIs
<1>4. ASSUME NEW t \in Steps(n),
             n.js = "object" => t.field = Overriding(n.keys, t.field)
      PROVE  Append(p, t) \in Lasting(v)
  <2> DEFINE u == Append(p, t)
             l == Len(p)
  <2>1. u \in DOMAIN v
    BY <1>1, PlaceIs
  <2>2. /\ DOMAIN p = 1..l /\ DOMAIN u = 1..(l + 1) /\ l \in Nat /\ u[l + 1] = t
        /\ \A m \in 1..l : u[m] = p[m] /\ SubSeq(u, 1, m - 1) = SubSeq(p, 1, m - 1)
        /\ SubSeq(u, 1, l + 1 - 1) = p
    BY <1>1
  <2>3. Overrides(v, p)
    BY DEF Lasting
  <2> HIDE DEF u, l
  <2>4. ASSUME NEW m \in DOMAIN u, v[SubSeq(u, 1, m - 1)].js = "object"
        PROVE  u[m].field = Overriding(v[SubSeq(u, 1, m - 1)].keys, u[m].field)
    <3>1. CASE m \in 1..l
      BY <2>2, <2>3, <2>4, <3>1 DEF Overrides
    <3>2. CASE m = l + 1
      <4>1. SubSeq(u, 1, m - 1) = p /\ u[m] = t
        BY <2>2, <3>2
      <4>2. n.js = "object"
        BY <2>4, <4>1
      <4> QED
        BY <1>4, <4>1, <4>2
    <3> QED
      BY <2>2, <3>1, <3>2
  <2>5. Overrides(v, u)
    BY <2>4 DEF Overrides
  <2> QED
    BY <2>1, <2>5 DEF Lasting, u
<1> HIDE DEF n
<1>5. CASE n.js = "object"
  <2>1. PICK k \in n.keys : s = Field(UpToNul(k))
    <3>1. Steps(CutNode(n)) = {Field(x) : x \in CutNode(n).keys}
      BY <1>3, <1>5, NodeSort DEF KeysAt
    <3> QED
      BY <1>3, <1>5, <3>1 DEF n
  <2> DEFINE o == Overriding(n.keys, k)
  <2>2. o \in n.keys /\ UpToNul(o) = UpToNul(k) /\ Overriding(n.keys, o) = o
    <3>1. o \in n.keys /\ UpToNul(o) = UpToNul(k)
      BY OverridingIs
    <3> QED
      BY <3>1, OverridingIs
  <2> HIDE DEF o
  <2>3. Field(o) \in Steps(n)
    <3>1. Steps(n) = {Field(x) : x \in n.keys}
      BY <1>2, <1>5, NodeSort DEF KeysAt
    <3> QED
      BY <2>2, <3>1
  <2>4. Append(p, Field(o)) \in Lasting(v)
    BY <1>4, <2>2, <2>3, StepsAre
  <2>5. CutStep(Field(o)) = s
    BY <2>1, <2>2, StepsAre
  <2> QED
    BY <2>3, <2>4, <2>5 DEF n
<1>6. CASE n.js # "object"
  <2>1. s \in Steps(n)
    BY <1>3, <1>6 DEF n
  <2>2. n.js = "array" /\ \E i : s = Item(i)
    BY <1>2, <1>6, <2>1, NodeSort DEF KeysAt
  <2>3. CutStep(s) = s
    BY <2>2, StepsAre
  <2> QED
    BY <1>4, <1>6, <2>1, <2>3 DEF n
<1> QED
  BY <1>5, <1>6

LEMMA KeptAbove ==
  ASSUME NEW v, IsValue(v), NEW p \in Lasting(v), NEW n \in 1..Len(p)
  PROVE  /\ SubSeq(p, 1, n - 1) \in Lasting(v)
         /\ CutStep(p[n]) \in Steps(CutNode(v[SubSeq(p, 1, n - 1)]))
<1> DEFINE a == SubSeq(p, 1, n - 1)
<1>1. p \in DOMAIN v /\ p \in Seq(StepSet) /\ Len(p) \in Nat /\ Overrides(v, p)
  BY PlaceIs DEF Lasting
<1>2. /\ a \in DOMAIN v /\ p[n] \in Steps(v[a])
      /\ \/ v[a].js = "array" /\ \E i : p[n] = Item(i)
         \/ v[a].js = "object" /\ \E k \in v[a].keys : p[n] = Field(k)
  BY <1>1, AboveIs
<1>3. DOMAIN p = 1..Len(p) /\ DOMAIN a = 1..(n - 1)
      /\ \A m \in 1..(n - 1) : a[m] = p[m] /\ m \in 1..Len(p) /\ SubSeq(a, 1, m - 1) = SubSeq(p, 1, m - 1)
  BY <1>1
<1> HIDE DEF a
<1>4. a \in Lasting(v)
  <2>1. Overrides(v, a)
    BY <1>1, <1>3 DEF Overrides
  <2> QED
    BY <1>2, <2>1 DEF Lasting
<1>5. IsNode(v[a]) /\ (v[a].js = "object" => v[a].keys \subseteq Seq(Runes))
  BY <1>2, PlaceIs
<1> DEFINE x == v[a]
<1>6. /\ IsNode(CutNode(x)) /\ CutNode(x).js = x.js
      /\ x.js # "object" => CutNode(x) = x
      /\ x.js = "object" => CutNode(x).keys = {UpToNul(k) : k \in x.keys}
  BY <1>5, CutNodeIs
<1> HIDE DEF x
<1>7. CASE x.js = "array"
  <2>1. PICK i : p[n] = Item(i)
    BY <1>2, <1>7 DEF x
  <2> QED
    BY <1>2, <1>4, <1>6, <1>7, <2>1, StepsAre DEF x, a
<1>8. CASE x.js = "object"
  <2>1. PICK k \in x.keys : p[n] = Field(k)
    BY <1>2, <1>8 DEF x
  <2>2. Steps(CutNode(x)) = {Field(l) : l \in CutNode(x).keys}
    BY <1>6, <1>8, NodeSort DEF KeysAt
  <2>3. Field(UpToNul(k)) \in Steps(CutNode(x))
    BY <1>6, <1>8, <2>2
  <2> QED
    BY <1>4, <2>1, <2>3, StepsAre DEF x, a
<1> QED
  BY <1>2, <1>7, <1>8 DEF x

-----------------------------------------------------------------------------
(* What is left is a value again, and all its keys are C strings. *)

KeysWhole(v) == \A p \in DOMAIN v : \A k \in KeysAt(v[p]) : UpToNul(k) = k

LEMMA CutIsValue ==
  ASSUME NEW v, IsValue(v)
  PROVE  LET c == KeysCut(v)
         IN /\ IsValue(c) /\ KeysWhole(c)
            /\ \A q \in DOMAIN c : \E p \in DOMAIN v : Len(q) = Len(p)
<1> DEFINE c == KeysCut(v)
           K == Lasting(v)
<1>1. DOMAIN c = {CutPlace(p) : p \in K} /\ \A p \in K : c[CutPlace(p)] = CutNode(v[p])
  BY CutAt
<1>2. ASSUME NEW p \in K
      PROVE  /\ p \in DOMAIN v /\ p \in Seq(StepSet) /\ Len(p) \in Nat /\ IsNode(v[p])
             /\ v[p].js = "string" => v[p].str \in Seq(Runes)
             /\ v[p].js = "object" => v[p].keys \subseteq Seq(Runes)
             /\ CutPlace(p) \in Seq(StepSet) /\ Len(CutPlace(p)) = Len(p)
  BY PlaceIs, CutPlaceIs DEF Lasting
<1>3. <<>> \in K
  <2>1. <<>> \in DOMAIN v
    BY DEF IsValue
  <2>2. DOMAIN <<>> = {}
    OBVIOUS
  <2>3. Overrides(v, <<>>)
    BY <2>2 DEF Overrides
  <2> QED
    BY <2>1, <2>3 DEF Lasting
<1> HIDE DEF c, K
<1>4. <<>> \in DOMAIN c
  <2>1. CutPlace(<<>>) = <<>>
    <3>1. CutPlace(<<>>) \in Seq(StepSet) /\ Len(CutPlace(<<>>)) = 0
      BY <1>2, <1>3
    <3> QED
      BY <3>1
  <2> QED
    BY <1>1, <1>3, <2>1
<1>5. DOMAIN c \subseteq Seq(StepSet)
  BY <1>1, <1>2
<1>6. \E n \in {Len(q) : q \in DOMAIN c} : \A q \in DOMAIN c : Len(q) <= n
  <2> DEFINE L == {Len(q) : q \in DOMAIN c}
             U == {n \in Nat : \A q \in DOMAIN c : Len(q) <= n}
  <2>1. PICK b \in {Len(p) : p \in DOMAIN v} : \A p \in DOMAIN v : Len(p) <= b
    BY DEF IsValue
  <2>2. b \in U
    <3>1. b \in Nat
      BY <2>1, PlaceIs
    <3> QED
      BY <1>1, <1>2, <2>1, <3>1
  <2>3. PICK n \in U : \A m \in U : n <= m
    BY <2>2, LeastOf
  <2>4. ASSUME \A q \in DOMAIN c : Len(q) # n PROVE FALSE
    <3>1. n \in Nat /\ \A q \in DOMAIN c : Len(q) <= n
      BY <2>3
    <3>2. ASSUME NEW q \in DOMAIN c PROVE Len(q) \in Nat /\ Len(q) <= n - 1
      <4>1. Len(q) \in Nat /\ Len(q) <= n /\ Len(q) # n
        BY <1>5, <2>4, <3>1
      <4> QED
        BY <3>1, <4>1
    <3>3. n - 1 \in Nat
      BY <1>4, <3>1, <3>2
    <3>4. n - 1 \in U /\ ~(n <= n - 1)
      BY <3>1, <3>2, <3>3
    <3> QED
      BY <2>3, <3>4
  <2> QED
    BY <2>3, <2>4
<1>7. ASSUME NEW q \in DOMAIN c
      PROVE  /\ IsNode(c[q])
             /\ c[q].js = "string" => c[q].str \in Seq(Runes)
             /\ c[q].js = "object" => c[q].keys \subseteq Seq(Runes)
             /\ \A s \in Steps(c[q]) : Append(q, s) \in DOMAIN c
             /\ \A n \in 1..Len(q) : LET above == SubSeq(q, 1, n - 1)
                                     IN above \in DOMAIN c /\ q[n] \in Steps(c[above])
             /\ \A k \in KeysAt(c[q]) : UpToNul(k) = k
             /\ \E p \in DOMAIN v : Len(q) = Len(p)
  <2>1. PICK p \in K : q = CutPlace(p)
    BY <1>1
  <2> DEFINE n == v[p]
  <2>2. c[q] = CutNode(n)
    BY <1>1, <2>1
  <2>3. IsNode(n) /\ (n.js = "object" => n.keys \subseteq Seq(Runes))
    BY <1>2
  <2>4. /\ IsNode(CutNode(n)) /\ CutNode(n).js = n.js
        /\ n.js # "object" => CutNode(n) = n
        /\ n.js = "object" => CutNode(n).keys = {UpToNul(k) : k \in n.keys}
    BY <2>3, CutNodeIs
  <2>5. n.js = "string" => n.str \in Seq(Runes)
    BY <1>2
  <2>6. ASSUME NEW s \in Steps(CutNode(n)) PROVE Append(q, s) \in DOMAIN c
    <3>1. PICK t \in Steps(n) : Append(p, t) \in K /\ CutStep(t) = s
      BY KeptBelow DEF K
    <3>2. t \in StepSet
      <4>1. Append(p, t) \in Seq(StepSet) /\ p \in Seq(StepSet) /\ Len(p) \in Nat
        BY <1>2, <3>1
      <4>2. Len(p) + 1 \in 1..Len(Append(p, t)) /\ Append(p, t)[Len(p) + 1] = t
        BY <4>1
      <4> QED
        BY <4>1, <4>2
    <3>4. CutPlace(Append(p, t)) = Append(q, s)
      BY <1>2, <2>1, <3>1, <3>2, CutPlaceIs
    <3>3. CutPlace(Append(p, t)) \in DOMAIN c
      BY <1>1, <3>1
    <3> QED
      BY <3>3, <3>4
  <2>7. ASSUME NEW m \in 1..Len(q)
        PROVE  SubSeq(q, 1, m - 1) \in DOMAIN c /\ q[m] \in Steps(c[SubSeq(q, 1, m - 1)])
    <3> DEFINE a == SubSeq(p, 1, m - 1)
    <3>1. m \in 1..Len(p) /\ m - 1 \in 0..Len(p)
      BY <1>2, <2>1
    <3>2. a \in K /\ CutStep(p[m]) \in Steps(CutNode(v[a]))
      BY <3>1, KeptAbove DEF K
    <3>3. CutPlace(a) = SubSeq(q, 1, m - 1) /\ q[m] = CutStep(p[m])
      BY <1>2, <2>1, <3>1, CutPlaceIs
    <3> HIDE DEF a
    <3> QED
      BY <1>1, <3>2, <3>3
  <2> HIDE DEF n
  <2>8. CASE n.js = "object"
    <3>1. \A k \in n.keys : UpToNul(k) \in Seq(Runes) /\ UpToNul(UpToNul(k)) = UpToNul(k)
      BY <2>3, <2>8, UpToNulIs
    <3>2. CutNode(n).keys \subseteq Seq(Runes) /\ \A k \in CutNode(n).keys : UpToNul(k) = k
      BY <2>4, <2>8, <3>1
    <3> QED
      BY <1>2, <2>1, <2>2, <2>4, <2>6, <2>7, <2>8, <3>2 DEF KeysAt
  <2>9. CASE n.js # "object"
    BY <1>2, <2>1, <2>2, <2>3, <2>4, <2>5, <2>6, <2>7, <2>9 DEF KeysAt
  <2> QED
    BY <2>8, <2>9
<1>8. IsValue(c)
  BY <1>4, <1>5, <1>6, <1>7 DEF IsValue, StepSet
<1>9. KeysWhole(c)
  BY <1>7 DEF KeysWhole
<1> QED
  BY <1>7, <1>8, <1>9 DEF c

\* What JSON keeps of such a value goes to the script as it is.
LEMMA NothingCut ==
  ASSUME NEW v, IsValue(v), KeysWhole(v)
  PROVE  LET w == [p \in DOMAIN v |-> RemainingNode(v[p])] IN KeysCut(w) = w
<1> DEFINE w == [p \in DOMAIN v |-> RemainingNode(v[p])]
<1>1. DOMAIN w = DOMAIN v /\ \A p \in DOMAIN v : w[p] = RemainingNode(v[p])
  OBVIOUS
<1> HIDE DEF w
<1>2. ASSUME NEW p \in DOMAIN v
      PROVE  /\ w[p].js = "object" => w[p] = JsObject(KeysAt(v[p])) /\ w[p].keys = KeysAt(v[p])
             /\ v[p].js = "object" => w[p].js = "object"
             /\ v[p].js = "array" => w[p].js # "object"
  <2> DEFINE n == v[p]
  <2>1. IsNode(n)
    BY PlaceIs
  <2> HIDE DEF n
  <2>2. CASE n.js \in {"object", "function"}
    <3>1. RemainingNode(n) = JsObject(KeysAt(n))
      BY <2>1, <2>2, RemainingIs
    <3>2. JsObject(KeysAt(n)).js = "object" /\ JsObject(KeysAt(n)).keys = KeysAt(n)
      BY DEF JsObject
    <3> QED
      BY <1>1, <2>2, <3>1, <3>2 DEF n
  <2>3. CASE n.js \notin {"object", "function"}
    <3>1. RemainingNode(n).js # "object"
      <4>1. n.js \in Scalars \/ n.js = "array"
        BY <2>1, <2>3, NodeSort
      <4>2. \A x : Js(x).js = x /\ JsNumber(x).js = "number" /\ JsString(x).js = "string"
                   /\ JsArray(x).js = "array"
        BY DEF Js, JsNumber, JsString, JsArray
      <4> QED
        BY <2>1, <4>1, <4>2, RemainingIs DEF Scalars
    <3> QED
      BY <1>1, <2>3, <3>1 DEF n
  <2> QED
    BY <2>2, <2>3
<1>3. ASSUME NEW p \in DOMAIN v PROVE CutPlace(p) = p /\ p \in Lasting(w)
  <2>1. p \in Seq(StepSet) /\ DOMAIN p = 1..Len(p) /\ Len(p) \in Nat
    BY PlaceIs
  <2>2. ASSUME NEW n \in 1..Len(p)
        PROVE  LET above == w[SubSeq(p, 1, n - 1)]
               IN /\ CutStep(p[n]) = p[n]
                  /\ above.js = "object" => p[n].field = Overriding(above.keys, p[n].field)
    <3> DEFINE a == SubSeq(p, 1, n - 1)
    <3>1. /\ a \in DOMAIN v
          /\ \/ v[a].js = "array" /\ \E i : p[n] = Item(i)
             \/ v[a].js = "object" /\ \E k \in v[a].keys : p[n] = Field(k)
      BY AboveIs
    <3> HIDE DEF a
    <3>2. CASE v[a].js = "array" /\ \E i : p[n] = Item(i)
      BY <1>2, <3>1, <3>2, StepsAre DEF a
    <3>3. CASE v[a].js = "object" /\ \E k \in v[a].keys : p[n] = Field(k)
      <4> DEFINE S == KeysAt(v[a])
      <4>1. S = v[a].keys
        BY <3>3 DEF KeysAt
      <4>2. PICK k \in S : p[n] = Field(k)
        BY <3>3, <4>1
      <4>3. \A x \in S : UpToNul(x) = x
        BY <3>1 DEF KeysWhole
      <4>4. w[a].keys = S
        BY <1>2, <3>1, <3>3
      <4> HIDE DEF S
      <4>5. Overriding(S, k) = k
        <5>1. Overriding(S, k) \in S /\ UpToNul(Overriding(S, k)) = UpToNul(k)
          BY OverridingIs
        <5> QED
          BY <4>3, <5>1
      <4>6. CutStep(p[n]) = p[n] /\ p[n].field = k
        BY <4>2, <4>3, StepsAre
      <4> QED
        BY <4>4, <4>5, <4>6 DEF a
    <3> QED
      BY <3>1, <3>2, <3>3
  <2>3. CutPlace(p) = p
    <3>1. CutPlace(p) \in Seq(StepSet) /\ Len(CutPlace(p)) = Len(p)
          /\ \A n \in 1..Len(p) : CutPlace(p)[n] = p[n]
      BY <2>1, <2>2, CutPlaceIs
    <3> QED
      BY <2>1, <3>1
  <2>4. Overrides(w, p)
    BY <2>1, <2>2 DEF Overrides
  <2> QED
    BY <1>1, <2>3, <2>4 DEF Lasting
<1>4. Lasting(w) = DOMAIN v
  BY <1>1, <1>3 DEF Lasting
<1>5. {CutPlace(p) : p \in Lasting(w)} = DOMAIN v
  BY <1>3, <1>4
<1>6. ASSUME NEW p \in DOMAIN v PROVE CutNode(w[CHOOSE r \in Lasting(w) : CutPlace(r) = p]) = w[p]
  <2> DEFINE r == CHOOSE r \in Lasting(w) : CutPlace(r) = p
  <2>1. r \in Lasting(w) /\ CutPlace(r) = p
    BY <1>3
  <2> HIDE DEF r
  <2>2. r = p
    BY <1>3, <1>4, <2>1
  <2>3. CutNode(w[p]) = w[p]
    <3>1. CASE w[p].js = "object"
      <4> DEFINE S == KeysAt(v[p])
      <4>1. w[p] = JsObject(S) /\ w[p].keys = S
        BY <1>2, <3>1
      <4>2. \A x \in S : UpToNul(x) = x
        BY DEF KeysWhole
      <4> HIDE DEF S
      <4>3. {UpToNul(k) : k \in S} = S
        BY <4>2
      <4> QED
        BY <3>1, <4>1, <4>3 DEF CutNode
    <3>2. CASE w[p].js # "object"
      BY <3>2 DEF CutNode
    <3> QED
      BY <3>1, <3>2
  <2> QED
    BY <2>2, <2>3 DEF r
<1>7. KeysCut(w) = [q \in DOMAIN v |-> CutNode(w[CHOOSE p \in Lasting(w) : CutPlace(p) = q])]
  BY <1>5, KeysCutIs
<1>8. w = [q \in DOMAIN v |-> w[q]]
  BY <1>1 DEF w
<1>9. KeysCut(w) = [q \in DOMAIN v |-> w[q]]
  BY <1>6, <1>7
<1> QED
  BY <1>8, <1>9 DEF w

-----------------------------------------------------------------------------
(* What has been written is read back. *)

Like(t, u) == Len(t) = Len(u) /\ \A i \in 1..Len(u) : SameToken(t[i], u[i])

\* ToBson: the keys are cut, and every node is converted.
LEMMA ToBsonIs ==
  ASSUME NEW v PROVE ToBson(v) = PlaceBson(KeysCut(v))
BY DEF ToBson, PlaceBson

\* The text is v's, up to the spelling of its strings.
IsTextOf(v) == Like(text, Dump(ToBson(v)))

LEMMA DumpText ==
  ASSUME NEW v, IsValue(v) PROVE Dump(ToBson(v)) \in Texts
<1> DEFINE c == KeysCut(v)
<1>1. IsValue(c)
  BY CutIsValue
<1> HIDE DEF c
<1>2. <<>> \in DOMAIN c
  BY <1>1 DEF IsValue
<1>3. Dump(PlaceBson(c)) \in Texts
  BY <1>1, <1>2, TextsAre, TokensBelow
<1> QED
  BY <1>3, ToBsonIs DEF c

LEMMA TextIsClean ==
  ASSUME OfTokens, NEW t \in Texts, Like(text, t) PROVE Clean
<1> SUFFICES ASSUME NEW i \in 1..Size PROVE text[i] # Word("comment")
  BY DEF Clean, Garbage
<1>1. i \in 1..Len(t) /\ SameToken(text[i], t[i])
  BY DEF Like, Size
<1>2. t[i] \in Tame
  BY <1>1 DEF Texts
<1>3. t[i] # Word("comment")
  BY <1>2 DEF Tame
<1> QED
  BY <1>1, <1>3, SortsOfTokens DEF SameToken

\* A text of the tokens of a value, however its characters are escaped, is read
\* as what JSON and C strings keep of that value.
THEOREM WrittenIsRead ==
  ASSUME OfTokens, NEW v, IsValue(v), Shallow(v), IsTextOf(v)
  PROVE  {ToScript(b) : b \in Parse} = {Remains(v)}
<1> DEFINE x == <<"value", 1, 0>>
           D == Dump(ToBson(v))
           c == KeysCut(v)
<1>1. PICK R : Reads(R) /\ Parse = IF R[x].ok /\ Skip(R[x].next) > Len(text) THEN {R[x].value} ELSE {}
  BY ReaderIs
<1>17. IsValue(c) /\ KeysWhole(c) /\ \A q \in DOMAIN c : \E p \in DOMAIN v : Len(q) = Len(p)
  BY CutIsValue
<1>18. Shallow(c)
  BY <1>17 DEF Shallow
<1>19. D = Dump(PlaceBson(c))
  BY ToBsonIs
<1> HIDE DEF c
<1>2. PICK T : Written(c, T) /\ D = T[<<>>]
  BY <1>17, <1>19, TextsAre
<1>3. <<>> \in DOMAIN c /\ Len(<<>>) = 0
  BY <1>17 DEF IsValue
<1>4. D \in Texts
  BY DumpText
<1> HIDE DEF D
<1>5. Like(text, D)
  BY DEF IsTextOf, D
<1>6. Clean
  BY <1>4, <1>5, TextIsClean
<1>7. Size \in Nat /\ Len(text) = Size /\ Len(D) = Size
  BY <1>5, SizeIs DEF Like, Size
<1>8. Stands(D, 1)
  <2>1. \A i \in 1..Len(D) : 1 + i - 1 = i
    BY <1>7
  <2>2. 1 + Len(D) <= Size + 1
    BY <1>7
  <2> QED
    BY <1>5, <2>1, <2>2 DEF Stands, Like
<1>9. Back(R, c, D, <<>>)
  BY <1>1, <1>2, <1>3, <1>6, <1>17, <1>18, AllBack
<1>10. 1 \in 1..(Size + 1) /\ Size + 1 \in 1..(Size + 1) /\ 1 + Len(D) = Size + 1
  BY <1>7
<1>11. PICK w : R[x] = Got(w, Size + 1) /\ Holds(c, w, <<>>)
  BY <1>3, <1>8, <1>9, <1>10 DEF Back
<1>12. Skip(Size + 1) = Size + 1
  BY <1>6, <1>10, CleanSkip
<1>13. Parse = {w}
  <2>1. R[x].ok /\ R[x].next = Size + 1 /\ R[x].value = w
    BY <1>11, GotParts
  <2>2. Skip(R[x].next) > Len(text)
    BY <1>7, <1>12, <2>1
  <2> QED
    BY <1>1, <2>1, <2>2
<1>14. \A q \in Seq(StepSet) : <<>> \o q = q
  OBVIOUS
<1>15. Under(c, <<>>) = DOMAIN c
  BY <1>14, <1>17, PlaceIs DEF Under
<1>16. ToScript(w) = Remains(v)
  <2> DEFINE r == [q \in DOMAIN c |-> RemainingNode(c[q])]
  <2>1. DOMAIN w = DOMAIN c
    BY <1>11, <1>15 DEF Holds
  <2>2. ASSUME NEW q \in DOMAIN c PROVE ScriptNode(w[q]) = RemainingNode(c[q])
    <3>1. ScriptNode(w[q]) = RemainingNode(c[<<>> \o q])
      BY <1>11, <1>15 DEF Holds
    <3>2. <<>> \o q = q
      BY <1>14, <1>17, PlaceIs
    <3> QED
      BY <3>1, <3>2
  <2>3. [q \in DOMAIN w |-> ScriptNode(w[q])] = r
    BY <2>1, <2>2
  <2>4. KeysCut(r) = r
    BY <1>17, NothingCut
  <2>5. Remains(v) = r
    BY DEF Remains, c
  <2> HIDE DEF r
  <2>6. ToScript(w) = KeysCut(r)
    BY <2>3 DEF ToScript
  <2> QED
    BY <2>4, <2>5, <2>6
<1> QED
  BY <1>13, <1>16

-----------------------------------------------------------------------------
(* The states of the codec. *)

\* As long as nothing has spoiled it, the text is the value's; a spoilt one is
\* still made of tokens.
CodecInv ==
    /\ value \in ScriptValues /\ strategy \in {"STANDARD", "COMMENTS"}
    /\ faults \in Nat /\ text \in Seq(AllTokens)
    /\ text # <<>> /\ faults = 0 => IsTextOf(value)

LEMMA CodecStart == CodecInit => CodecInv
  BY DEF CodecInit, CodecInv

LEMMA LikeItself == ASSUME NEW t, Len(t) \in Nat PROVE Like(t, t)
  BY DEF Like, SameToken

LEMMA WriteStep == CodecInv /\ Write => CodecInv'
<1> SUFFICES ASSUME CodecInv, Write PROVE CodecInv'
  OBVIOUS
<1>1. IsValue(value)
  BY ValuesAssumption DEF CodecInv
<1>2. Dump(ToBson(value)) \in Texts
  BY <1>1, DumpText
<1> DEFINE D == Dump(ToBson(value))
<1>3. D \in Seq(AllTokens) /\ Len(D) \in Nat
  BY <1>2 DEF Texts, Tame
<1>4. text' = D /\ value' = value /\ faults' = faults /\ strategy' = strategy
  BY DEF Write
<1> HIDE DEF D
<1>5. Like(D, D)
  BY <1>3, LikeItself
<1>6. IsTextOf(value)'
  BY <1>4, <1>5 DEF IsTextOf, D
<1> QED
  BY <1>3, <1>4, <1>6 DEF CodecInv

LEMMA RespellStep == CodecInv /\ Respell => CodecInv'
<1> SUFFICES ASSUME CodecInv, Respell PROVE CodecInv'
  OBVIOUS
<1>1. PICK i \in DOMAIN text :
        /\ "str" \in DOMAIN text[i]
        /\ \E j \in DOMAIN text[i].str : text' = [text EXCEPT ![i] = Str([@.str EXCEPT ![j].escaped = TRUE])]
        /\ UNCHANGED <<value, strategy, faults>>
  BY DEF Respell
<1>2. PICK j \in DOMAIN text[i].str : text' = [text EXCEPT ![i] = Str([@.str EXCEPT ![j].escaped = TRUE])]
  BY <1>1
<1> DEFINE c == text[i].str
           e == [c EXCEPT ![j].escaped = TRUE]
<1>3. text \in Seq(AllTokens) /\ text[i] \in AllTokens
  BY DEF CodecInv
<1>4. c \in Seq(Chars) /\ text[i] = Str(c)
  BY <1>1, <1>3, StringToken
<1>5. e \in Seq(Chars) /\ Spelling(e) = Spelling(c)
  <2>1. /\ Len(c) \in Nat /\ DOMAIN c = 1..Len(c) /\ c \in [1..Len(c) -> Chars]
    BY <1>4
  <2> HIDE DEF c
  <2>2. c[j] \in Chars
    BY <2>1 DEF c
  <2>3. [c[j] EXCEPT !.escaped = TRUE] \in Chars /\ [c[j] EXCEPT !.escaped = TRUE].char = c[j].char
    BY <2>2 DEF Chars
  <2>4. /\ DOMAIN e = 1..Len(c) /\ e \in [1..Len(c) -> Chars]
        /\ \A k \in 1..Len(c) : e[k].char = c[k].char
    BY <2>1, <2>3
  <2>5. e \in Seq(Chars)
    <3> HIDE DEF e
    <3> QED
      BY <2>1, <2>4
  <2>6. Spelling(e) = Spelling(c)
    <3> HIDE DEF e
    <3> QED
      BY <2>1, <2>4 DEF Spelling
  <2> QED
    BY <2>5, <2>6
<1>6. text' = [text EXCEPT ![i] = Str(e)]
  BY <1>2
<1> HIDE DEF e
<1>7. Str(e) \in AllTokens
  BY <1>5 DEF AllTokens
<1>8. /\ text' \in Seq(AllTokens) /\ Len(text') = Len(text) /\ Len(text) \in Nat
      /\ \A k \in 1..Len(text) : text'[k] = IF k = i THEN Str(e) ELSE text[k]
  BY <1>3, <1>6, <1>7
<1>9. ASSUME NEW y, SameToken(text[i], y) PROVE SameToken(Str(e), y)
  <2>1. "str" \in DOMAIN Str(e) /\ Str(e).str = e
    BY SortsOfTokens
  <2>2. "str" \in DOMAIN text[i] /\ text[i].str = c
    BY <1>1
  <2> HIDE DEF c
  <2>3. "str" \in DOMAIN y /\ Spelling(y.str) = Spelling(c)
    BY <1>9, <2>2 DEF SameToken
  <2> QED
    BY <1>5, <2>1, <2>3 DEF SameToken
<1>10. ASSUME text' # <<>>, faults' = 0 PROVE IsTextOf(value)'
  <2> DEFINE D == Dump(ToBson(value))
  <2>1. text # <<>> /\ faults = 0 /\ value' = value
    BY <1>1, <1>10
  <2>2. Like(text, D)
    BY <2>1 DEF CodecInv, IsTextOf
  <2> HIDE DEF D
  <2>3. Len(text') = Len(D)
    BY <1>8, <2>2 DEF Like
  <2>4. \A k \in 1..Len(D) : SameToken(text'[k], D[k])
    BY <1>8, <1>9, <2>2 DEF Like
  <2>5. Like(text', D)
    BY <2>3, <2>4 DEF Like
  <2>6. IsTextOf(value)' <=> Like(text', Dump(ToBson(value')))
    BY DEF IsTextOf
  <2> QED
    BY <2>1, <2>5, <2>6 DEF D
<1> QED
  BY <1>1, <1>8, <1>10 DEF CodecInv

LEMMA SpoilStep == CodecInv /\ Spoil => CodecInv'
<1> SUFFICES ASSUME CodecInv, Spoil PROVE CodecInv'
  OBVIOUS
<1>1. text \in Seq(AllTokens) /\ Len(text) \in Nat /\ faults' = faults + 1 /\ faults \in Nat
      /\ value' = value /\ strategy' = strategy
  BY DEF CodecInv, Spoil
<1>2. Tokens \subseteq AllTokens
  <2>1. ASSUME NEW p \in Puncts PROVE Punct(p) \in AllTokens
    BY DEF AllTokens
  <2>2. Word("comment") \in AllTokens
    BY DEF AllTokens, Words
  <2>3. Num(2) \in AllTokens
    BY DEF AllTokens
  <2>4. Str(<<>>) \in AllTokens
    <3>1. <<>> \in Seq(Chars)
      OBVIOUS
    <3> QED
      BY <3>1 DEF AllTokens
  <2> QED
    BY <2>1, <2>2, <2>3, <2>4 DEF Tokens, Puncts
<1>3. text' \in Seq(AllTokens)
  <2>1. CASE \E i \in DOMAIN text : text' = RemoveAt(text, i)
    BY <1>1, <2>1 DEF RemoveAt
  <2>2. CASE \E i \in DOMAIN text, t \in Tokens : text' = ReplaceAt(text, i, t)
    BY <1>1, <1>2, <2>2 DEF ReplaceAt
  <2>3. CASE \E i \in 1..(Len(text) + 1), t \in Tokens : text' = InsertAt(text, i, t)
    <3>1. PICK i \in 1..(Len(text) + 1), t \in Tokens : text' = InsertAt(text, i, t)
      BY <2>3
    <3>2. /\ SubSeq(text, 1, i - 1) \in Seq(AllTokens) /\ <<t>> \in Seq(AllTokens)
          /\ SubSeq(text, i, Len(text)) \in Seq(AllTokens)
      BY <1>1, <1>2
    <3> QED
      BY <3>1, <3>2 DEF InsertAt
  <2> QED
    BY <2>1, <2>2, <2>3 DEF Spoil
<1>4. faults' \in Nat /\ faults' # 0
  BY <1>1
<1> QED
  BY <1>1, <1>3, <1>4 DEF CodecInv

\* Writing, another writer and changes on the way keep the invariant.
THEOREM CodecStep == CodecInv /\ [CodecNext]_codec => CodecInv'
<1> SUFFICES ASSUME CodecInv, [CodecNext]_codec PROVE CodecInv'
  OBVIOUS
<1>1. CASE Write
  BY <1>1, WriteStep
<1>2. CASE Respell
  BY <1>2, RespellStep
<1>3. CASE Spoil
  BY <1>3, SpoilStep
<1>4. CASE UNCHANGED codec
  BY <1>4 DEF codec, CodecInv, IsTextOf
<1> QED
  BY <1>1, <1>2, <1>3, <1>4 DEF CodecNext

LEMMA InvKeepsValue == CodecInv => TextKeepsValue
<1> SUFFICES ASSUME CodecInv, text # <<>> PROVE
      /\ Parse = Meaning
      /\ faults = 0 /\ Shallow(value) => {ToScript(b) : b \in Parse} = {Remains(value)}
  BY DEF TextKeepsValue
<1>1. OfTokens
  BY DEF OfTokens, CodecInv
<1>2. IsValue(value)
  BY ValuesAssumption DEF CodecInv
<1>3. faults = 0 => IsTextOf(value)
  BY DEF CodecInv
<1> QED
  BY <1>1, <1>2, <1>3, ReadAsMeant, WrittenIsRead

\* For every value, limit of nesting and number of changes, Bson::parse reads a
\* text as what it means, and the script gets back what it has written, of its
\* strings and keys what is before U+0000.
THEOREM TextIsKept == CodecInit /\ [][CodecNext]_codec => []TextKeepsValue
<1>1. CodecInit => CodecInv
  BY CodecStart
<1>2. CodecInv /\ [CodecNext]_codec => CodecInv'
  BY CodecStep
<1>3. CodecInv => TextKeepsValue
  BY InvKeepsValue
<1> QED
  BY <1>1, <1>2, <1>3, PTL
==============================================================================
