-------------------------- MODULE MCRecordSession --------------------------
(***************************************************************************)
(* Small instances of RecordSession: three trials, two of them of a block, *)
(* in two sessions.                                                        *)
(***************************************************************************)
EXTENDS RecordSession

CONSTANTS t1, t2, t3

ThreeTrials == <<t1, t2, t3>>
TwoTrials == <<t1, t2>>
TwoBlocks == t1 :> 1 @@ t2 :> 1 @@ t3 :> 2
=============================================================================
