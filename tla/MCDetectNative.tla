--------------------------- MODULE MCDetectNative ---------------------------
(* TLC instance of DetectNative with the three probes of detect.js.        *)
EXTENDS DetectNative

CONSTANTS mi, vivo, huawei

MCProbes == {mi, vivo, huawei}
MCOrder == <<mi, vivo, huawei>>
=============================================================================
