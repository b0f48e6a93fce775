--------------------------- MODULE MCEstopWatch ---------------------------
(***************************************************************************)
(* Small instances of EstopWatch: a child, a unit and a plugin, two at a   *)
(* time, in the order of ESTOP_TARGETS with the plugins last.              *)
(***************************************************************************)
EXTENDS EstopWatch

CONSTANTS inference, recording, plugin, loop, watch

InferenceAndPlugin == <<inference, plugin>>
InferenceAndRecording == <<inference, recording>>
Nothing == {}
OnlyPlugin == {plugin}
OnlyRecording == {recording}
OneThread == {loop}
TwoThreads == {loop, watch}
=============================================================================
