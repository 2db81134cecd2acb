----------------------------- MODULE IndexClaims -----------------------------
(***************************************************************************)
(* What a comment of the request layer says of the main page and the code  *)
(* does not do: a run that is expected to find a behaviour that violates   *)
(* it.                                                                     *)
(***************************************************************************)
EXTENDS MCIndex

\* net.js:100-102: the request layer always answers, "otherwise checking,
\* login and the device list would stay in progress for ever".  A login
\* started before a recheck is dropped by its generation check without
\* clearing `logging` (index.vue:961).
LoginEnds == logging ~> ~logging \/ life = "dead"
=============================================================================
