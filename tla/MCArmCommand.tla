--------------------------- MODULE MCArmCommand ---------------------------
(***************************************************************************)
(* Small instances of ArmCommand: one recording and one inference          *)
(* process, the jog and the relay, and the files they leave each other.    *)
(***************************************************************************)
EXTENDS ArmCommand, TLC

CONSTANTS p1, p2

TwoProxies == {p1, p2}
OneProxy == {p1}

\* The two processes are interchangeable; used where no liveness is checked.
ProxySymmetry == Permutations(TwoProxies)
=============================================================================
