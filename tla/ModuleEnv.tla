------------------------------ MODULE ModuleEnv ------------------------------
(***************************************************************************)
(* The environment of a native module (native/sdk .. JQTemplateEnv): the   *)
(* object that stands for the module, the functions that native code keeps *)
(* in it by name, and the values that the module exports.  A JS value is   *)
(* given away with the call that takes it, or a reference of its own is    *)
(* made; the engine frees a value behind its last reference.               *)
(***************************************************************************)
EXTENDS Integers, Sequences, FiniteSets

CONSTANTS
    Values,     \* JS values that native code makes
    Names,      \* of functions, fields and exports
    Default,    \* the name of the default export
    Self,       \* the JS value of the environment itself
    MaxRefs     \* bound: references made by native code

All == Values \cup {Self}
NoObject == "none"

ASSUME ModuleEnvAssumption ==
    Self \notin Values /\ NoObject \notin All /\ Default \notin Names /\ MaxRefs \in Nat

VARIABLES
    counts,     \* references to a JS value
    hand,       \* those that native code has and must give away or free
    dups,       \* references made by native code
    functions,  \* _nameFuncMap
    fields,     \* the fields of the environment's object
    entries,    \* _collectModuleExportEntries
    exports,    \* what the engine has been given as the module's exports
    env         \* another object that has the environment in __module_env__, or none

envVars == <<counts, hand, dups, functions, fields, entries, exports, env>>

Empty == [n \in {} |-> Self]

\* CreateModule: the constructor's reference belongs to the module.
EnvInit ==
    /\ counts = [v \in All |-> IF v = Self THEN 1 ELSE 0]
    /\ hand = [v \in All |-> IF v = Self THEN 1 ELSE 0]
    /\ dups = 0
    /\ functions = Empty /\ fields = Empty /\ entries = Empty /\ exports = Empty
    /\ env = NoObject

Loading == hand[Self] = 1
Done == Default \in DOMAIN exports
Alive == counts[Self] > 0

\* An entry of a map, if there is one, as a sequence of values.
Entry(map, n) == IF n \in DOMAIN map THEN <<map[n]>> ELSE <<>>

Put(map, n, v) == [m \in DOMAIN map \cup {n} |-> IF m = n THEN v ELSE map[m]]

Without(map, n) == [m \in DOMAIN map \ {n} |-> map[m]]

\* How often a map or a sequence has a value.
Uses(map, v) == Cardinality({n \in DOMAIN map : map[n] = v})

\* JS_DupValue for the values of one of them, JS_FreeValue for those of another.
Counted(made, freed) == [v \in All |-> counts[v] + Uses(made, v) - Uses(freed, v)]

Given(v) == hand' = [hand EXCEPT ![v] = @ - 1]

\* Native code makes a value, or a reference to one that it has, or frees one.
Make(v) ==
    /\ dups < MaxRefs /\ (counts[v] > 0 => hand[v] > 0)
    /\ dups' = dups + 1
    /\ counts' = Counted(<<v>>, <<>>)
    /\ hand' = [hand EXCEPT ![v] = @ + 1]
    /\ UNCHANGED <<functions, fields, entries, exports, env>>

Free(v) ==
    /\ hand[v] > 0
    /\ Given(v)
    /\ counts' = Counted(<<>>, <<v>>)
    /\ UNCHANGED <<dups, functions, fields, entries, exports, env>>

-----------------------------------------------------------------------------
\* registerFunction takes the value; jq_set_value frees the one before.
RegisterFunction(n, v) ==
    /\ Alive /\ hand[v] > 0
    /\ Given(v)
    /\ functions' = Put(functions, n, v)
    /\ counts' = Counted(<<>>, Entry(functions, n))
    /\ UNCHANGED <<dups, fields, entries, exports, env>>

UnregisterFunction(n) ==
    /\ Alive /\ n \in DOMAIN functions
    /\ functions' = Without(functions, n)
    /\ counts' = Counted(<<>>, <<functions[n]>>)
    /\ UNCHANGED <<hand, dups, fields, entries, exports, env>>

\* JS_SetPropertyStr of a reference of its own.
SetModuleField(n, v) ==
    /\ Alive /\ hand[v] > 0
    /\ fields' = Put(fields, n, v)
    /\ counts' = Counted(<<v>>, Entry(fields, n))
    /\ UNCHANGED <<hand, dups, functions, entries, exports, env>>

\* The fault: the value set before under the same name is not freed.
ReplacedKept(n) == <<>>

Replaced(n) == Entry(entries, n)

\* setModuleExport takes the value and makes, if it is to be a field too, a
\* reference.
SetModuleExport(n, v, withField) ==
    /\ Loading /\ hand[v] > 0
    /\ Given(v)
    /\ entries' = Put(entries, n, v)
    /\ fields' = IF withField THEN Put(fields, n, v) ELSE fields
    /\ LET field == IF withField THEN Entry(fields, n) ELSE <<>>
           made == IF withField THEN <<v>> ELSE <<>>
       IN counts' = [u \in All |->
            counts[u] + Uses(made, u) - Uses(Replaced(n), u) - Uses(field, u)]
    /\ UNCHANGED <<dups, functions, exports, env>>

\* setModuleExportDone with a list of names: those are exported, the others are
\* freed, and the module itself, or an object of its own that then has the
\* environment as a property, is the default export.
SetModuleExportDone(list, module) ==
    /\ Loading
    /\ module = Self \/ hand[module] > 0
    /\ LET listed == DOMAIN entries \cap list
           unlisted == [n \in DOMAIN entries \ list |-> entries[n]]
       IN /\ exports' = Put([n \in listed |-> entries[n]], Default, module)
          /\ counts' = Counted(<<>>, unlisted)
    /\ entries' = Empty
    /\ hand' = [v \in All |-> IF v \in {module, Self} THEN hand[v] - 1 ELSE hand[v]]
    /\ env' = IF module = Self THEN NoObject ELSE module
    /\ UNCHANGED <<dups, functions, fields>>

\* What goes with the object of the environment when the owners of its last
\* references do: its fields and, by OnGCCollect, the functions.
Collected(exported, last) ==
    /\ functions' = Empty /\ fields' = Empty
    /\ counts' = [v \in All |->
         counts[v] - Uses(exported, v) - Uses(last, v) - Uses(fields, v) - Uses(functions, v)]

\* setModuleExportFailed: the module's reference goes.  The entries stay, with
\* the values that they own.
SetModuleExportFailed ==
    /\ Loading
    /\ Given(Self)
    /\ Collected(<<>>, <<Self>>)
    /\ UNCHANGED <<dups, entries, exports, env>>

\* The engine frees the module, and the objects that only it has.
FreeModule ==
    /\ Done /\ (env # NoObject => hand[env] = 0)
    /\ exports' = Empty /\ env' = NoObject
    /\ Collected(exports, IF env = NoObject THEN <<>> ELSE <<Self>>)
    /\ UNCHANGED <<hand, dups, entries>>

EnvNext ==
    \/ \E v \in Values : Make(v) \/ Free(v)
    \/ \E n \in Names : UnregisterFunction(n)
    \/ \E n \in Names, v \in Values :
         \/ RegisterFunction(n, v) \/ SetModuleField(n, v)
         \/ \E withField \in BOOLEAN : SetModuleExport(n, v, withField)
    \/ \E list \in SUBSET Names, module \in All : SetModuleExportDone(list, module)
    \/ SetModuleExportFailed \/ FreeModule

EnvSpec == EnvInit /\ [][EnvNext]_envVars

-----------------------------------------------------------------------------
\* Every reference has one owner: native code, a name of the functions, a field, an
\* entry or an export; so no value is freed twice and none outlives its owners, in
\* whatever order names are set again, exports are left out and the module goes.
ExportsBalanced ==
    \A v \in All :
        counts[v] =
            hand[v] + (IF v = Self /\ env # NoObject THEN 1 ELSE 0)
              + Uses(functions, v) + Uses(fields, v) + Uses(entries, v) + Uses(exports, v)
=============================================================================
