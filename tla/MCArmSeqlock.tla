--------------------------- MODULE MCArmSeqlock ---------------------------
(***************************************************************************)
(* Small instances of ArmSeqlock.  Two words are enough to tear a record.  *)
(***************************************************************************)
EXTENDS ArmSeqlock, TLC

CONSTANTS w1, w2

MCWords == {w1, w2}
BothCalls == {TRUE, FALSE}
OnlyReadNew == {TRUE}

\* The words are interchangeable; used where no liveness is checked.
WordSymmetry == Permutations(MCWords)
=============================================================================
