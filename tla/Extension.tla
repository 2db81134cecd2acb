------------------------------ MODULE Extension ------------------------------
(***************************************************************************)
(* The parts of the native module and of what is built on it that share no *)
(* state: the values that cross the border (Bson), one HTTP exchange       *)
(* (Exchange), the classes of a module (Templates) and its environment     *)
(* (ModuleEnv), the account store (Store), the log file (Log) and the      *)
(* SDK's bounded cache (LruCache).  A behaviour is one of one of them.     *)
(***************************************************************************)
EXTENDS Bson, Exchange, Templates, ModuleEnv, Store, Log, LruCache

VARIABLE part

Parts == {"codec", "exchange", "templates", "env", "store", "log", "cache"}

\* What a behaviour of another part leaves alone starts in one way.
ExtensionInit ==
    /\ part \in Parts
    /\ CodecInit
    /\ part # "codec" =>
         value = (CHOOSE v \in ScriptValues : TRUE) /\ strategy = "STANDARD"
    /\ ExInit
    /\ part # "exchange" =>
         url = (CHOOSE u \in Urls : TRUE) /\ shape = (CHOOSE s \in Shapes : TRUE)
    /\ StoreInit
    /\ part # "store" => wifi = (CHOOSE w \in Wifis : TRUE) /\ ~dataDir
    /\ LogInit
    /\ part # "log" => dir
    /\ CacheInit
    /\ part # "cache" => maxSize = NotNegative(CHOOSE n \in Limits : TRUE)
    /\ Init /\ EnvInit

\* Steps that set in a template what is set already change nothing and are left out.
ExtensionNext ==
    /\ UNCHANGED part
    /\ \/ /\ part = "codec" /\ CodecNext
          /\ UNCHANGED <<exchange, templates, envVars, store, log, cache>>
       \/ /\ part = "exchange" /\ ExNext
          /\ UNCHANGED <<codec, templates, envVars, store, log, cache>>
       \/ /\ part = "templates" /\ <<Next>>_templates
          /\ UNCHANGED <<codec, exchange, envVars, store, log, cache>>
       \/ /\ part = "env" /\ EnvNext
          /\ UNCHANGED <<codec, exchange, templates, store, log, cache>>
       \/ /\ part = "store" /\ StoreNext
          /\ UNCHANGED <<codec, exchange, templates, envVars, log, cache>>
       \/ /\ part = "log" /\ LogNext
          /\ UNCHANGED <<codec, exchange, templates, envVars, store, cache>>
       \/ /\ part = "cache" /\ CacheNext
          /\ UNCHANGED <<codec, exchange, templates, envVars, store, log>>
=============================================================================
