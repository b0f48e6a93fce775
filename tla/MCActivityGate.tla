-------------------------- MODULE MCActivityGate --------------------------
(***************************************************************************)
(* Small instances of ActivityGate.  The activities of an instance are     *)
(* those that contend for one thing: the arm, the GPU or the datasets.     *)
(***************************************************************************)
EXTENDS ActivityGate, TLC

CONSTANTS r1, r2

OneRequest == {r1}
TwoRequests == {r1, r2}
Nothing == {}

\* all but the upload, which blocks nothing and is blocked by nothing; and what
\* make_process makes a unit of when the runner is systemd
Table == DOMAIN BLOCKED_BY \ {"upload"}
TableUnits == Table \ (Unseen \cup InProcess \cup {"inference"})
ArmActs == {"inference", "recording", "teleop", "plugin", "dataset_edit"}
LocalActs == {"inference", "recording", "teleop", "plugin", "training", "repair_index"}
PluginActs == {"inference", "plugin"}
OnlyRecording == {"recording"}
RecordingAndRepair == {"recording", "repair_index"}

RequestSymmetry == Permutations(TwoRequests)
=============================================================================
