------------------------- MODULE MCProcessManager -------------------------
(***************************************************************************)
(* Small instances of ProcessManager: three requests at a time (a start, a *)
(* stop and an E-stop) and the children they start.                        *)
(***************************************************************************)
EXTENDS ProcessManager

CONSTANTS r1, r2, r3

ThreeRequests == {r1, r2, r3}
TwoRequests == {r1, r2}
=============================================================================
