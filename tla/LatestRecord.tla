--------------------------- MODULE LatestRecord ---------------------------
(***************************************************************************)
(* What an arm segment promises its readers, without slots or retries:     *)
(* a writer publishes records numbered 1, 2, 3, ...; a read that returns   *)
(* a record returns one that was the latest at some moment between the     *)
(* start and the end of the read, never one older than a record this       *)
(* reader has already returned, and a read may give up.                    *)
(***************************************************************************)
EXTENDS Naturals

CONSTANT MaxSeq          \* bound on the number of published records

VARIABLES
    published,           \* number of the latest published record
    reading,             \* a read is in progress
    since,               \* the latest record when that read began
    returned             \* the last record the reader returned, 0 for none

vars == <<published, reading, since, returned>>

Init ==
    /\ published = 0
    /\ reading = FALSE
    /\ since = 0
    /\ returned = 0

Publish ==
    /\ published < MaxSeq
    /\ published' = published + 1
    /\ UNCHANGED <<reading, since, returned>>

Begin ==
    /\ ~reading
    /\ reading' = TRUE
    /\ since' = published
    /\ UNCHANGED <<published, returned>>

\* The record is one of those published since the read began, or the one
\* that was the latest then.
Return ==
    /\ reading
    /\ \E n \in since .. published :
          /\ n > 0
          /\ n >= returned
          /\ returned' = n
    /\ reading' = FALSE
    /\ UNCHANGED <<published, since>>

GiveUp ==
    /\ reading
    /\ reading' = FALSE
    /\ UNCHANGED <<published, since, returned>>

Next == Publish \/ Begin \/ Return \/ GiveUp

Spec == Init /\ [][Next]_vars
=============================================================================
