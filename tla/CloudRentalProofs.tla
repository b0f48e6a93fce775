------------------------- MODULE CloudRentalProofs -------------------------
(***************************************************************************)
(* The safety properties of CloudRental, for any number of rentals, visits *)
(* and crashes.  Three of them need that a request does not come while     *)
(* train_on awaits the provider (~Overlap); with one, they are refuted.    *)
(*                                                                         *)
(* The argument: a flow is alone and is rent._task (Alone), the runner it  *)
(* has put in place is there only until its finally (RunnerHasFlow), what  *)
(* the registry claims has a flow that will destroy it (ClaimHasFlow), a   *)
(* machine without a CloudJob of its own is one nobody has made yet, and a *)
(* retrieval is about the flow that is in it (RetrievalKnows).             *)
(***************************************************************************)
EXTENDS CloudRental, TLAPS

Pcs == {"go", "creating", "created", "ssh", "stack", "launching", "training", "overdue",
        "retrieve", "rescue", "pull", "finish", "new", "ask", "done", "dead"}
JobRec == [pc : Pcs, phase : Phases, inst : BOOLEAN]
CurRec == [of : Jobs \cup {None}, shell : BOOLEAN]
StopRec == [at : {"off", "wait", "direct", "thread", "over"}, of : Jobs \cup {None},
            shell : BOOLEAN]
HubRec == [by : SUBSET Jobs, last : Jobs \cup {None}, since : BOOLEAN]
RetRec == [state : {"idle", "waiting", "rescuing", "done", "missing", "failed"},
           of : Jobs \cup {None}]

Cards == cur \in CurRec /\ stop \in StopRec /\ hub \in HubRec /\ ret \in RetRec
Records == job \in [Jobs -> JobRec] /\ Cards

Sets ==
    /\ {task, runner} \subseteq Jobs \cup {None}
    /\ alive \subseteq Jobs \cup {Box} /\ claim \in Jobs \cup {Box, None}
    /\ runs \subseteq Jobs /\ session \subseteq Jobs /\ disk \subseteq Jobs
    /\ got \subseteq Jobs /\ tried \subseteq Jobs /\ orphans \subseteq Jobs
    /\ crashes \in 0 .. MaxCrashes

Switches == {up, local} \subseteq BOOLEAN

\* a session has a live machine
SessionHasMachine == \A j \in session : Machine(j) \in alive

\* what retrieve waits for on the Hub is there
HubHasSome == hub.since \/ ret.state = "waiting" => hub.last \in Jobs

\* a stop_now() under way is about a job
StopKnows == stop.at \in {"wait", "direct", "thread"} => stop.of \in Jobs

Links == HubHasSome /\ StopKnows

\* which flow is where, and what it knows of its machine
Course ==
    \A j \in Jobs :
        /\ job[j].pc \in {"ssh", "stack", "launching", "training", "overdue", "retrieve",
                          "rescue"} => job[j].inst
        /\ job[j].pc \in {"creating", "created", "ssh"} => j \in Rentals
        /\ job[j].pc = "go" /\ j \in Visits => job[j].inst
        /\ job[j].pc \in {"new", "ask", "go", "creating"} => j \notin alive
        /\ j \in alive => j \in Rentals
        /\ j \in Rentals => job[j].phase # "finished"

\* weights come from a training, and after it they have been sought
WeightsSought ==
    \A j \in Jobs :
        /\ job[j].pc \in {"new", "ask", "go", "creating", "created", "ssh", "stack",
                          "launching"} => j \notin session \cup disk
        /\ job[j].pc \in {"finish", "pull"} => j \in tried \/ j \notin session \cup disk

\* the machine in the registry is rented and has a flow that will destroy it
ClaimHasFlow == claim \notin Visits /\ (up /\ claim \in Jobs => Managed(claim))

TypeInv == Records /\ Sets /\ Switches /\ SessionHasMachine /\ Links /\ Course
Rented == Course /\ WeightsSought /\ ClaimHasFlow
RentInv == TypeInv /\ Rented

\* without Overlap: at most one flow or question, and the flow is rent._task
Alone ==
    \A j \in Jobs :
        /\ job[j].pc \in Flowing => task = j
        /\ job[j].pc = "ask" => \A k \in Jobs \ {j} : job[k].pc \notin Flowing \cup {"ask"}

\* the runner of a job is in place until the finally of its flow
RunnerHasFlow ==
    \A j \in Jobs :
        runner = j => job[j].pc \in Flowing /\ (j \in Rentals => job[j].pc # "pull")

\* the flow's CloudJob is rent._job once it has begun
FlowIsCurrent ==
    \A j \in Jobs : job[j].pc \in Flowing \ {"go"} => cur.of = j /\ ~cur.shell

AloneInv == Alone /\ RunnerHasFlow /\ FlowIsCurrent

\* what a retrieval is about: it waits for what was pushed since the start, the last to
\* push is among those who did, and a flow that brings weights by scp is the one it names
RetrievalKnows ==
    /\ ret.state = "waiting" => hub.since
    /\ hub.since => hub.last \in hub.by
    /\ \A j \in Jobs : job[j].pc = "rescue" => ret.of = j

-----------------------------------------------------------------------------
(* What the steps make of a job *)

Becomes(j, pc, phase, inst) ==
    /\ job' \in [Jobs -> JobRec]
    /\ job'[j].pc = pc /\ job'[j].phase = phase /\ job'[j].inst = inst
    /\ \A k \in Jobs \ {j} : job'[k] = job[k]

LEMMA Names ==
    /\ Box \notin Jobs /\ None \notin Jobs /\ None # Box
    /\ \A j \in Jobs : Machine(j) \in Jobs \cup {Box}
    /\ \A j \in Rentals : j \notin Visits /\ Machine(j) = j
    /\ \A j \in Visits : Machine(j) = Box
    /\ Jobs = Rentals \cup Visits
  BY NamesAssumption DEF Jobs, Machine

LEMMA JobFields ==
    ASSUME job \in [Jobs -> JobRec], NEW j \in Jobs
    PROVE  job[j].pc \in Pcs /\ job[j].phase \in Phases /\ job[j].inst \in BOOLEAN
  BY Zenon DEF JobRec

LEMMA SetPc ==
    ASSUME job \in [Jobs -> JobRec], NEW j \in Jobs,
           NEW pc \in Pcs,
           job' = [job EXCEPT ![j].pc = pc]
    PROVE  Becomes(j, pc, job[j].phase, job[j].inst)
<1>1. job' \in [Jobs -> JobRec]
  BY Zenon DEF JobRec
<1>2. \A k \in Jobs : job[k] \in JobRec
  OBVIOUS
<1>. QED
  BY <1>1, <1>2 DEF Becomes, JobRec

LEMMA SetPcPhase ==
    ASSUME job \in [Jobs -> JobRec], NEW j \in Jobs,
           NEW pc \in Pcs, NEW phase \in Phases,
           job' = [job EXCEPT ![j].pc = pc, ![j].phase = phase]
    PROVE  Becomes(j, pc, phase, job[j].inst)
<1>1. job' \in [Jobs -> JobRec]
  BY Zenon DEF JobRec
<1>2. \A k \in Jobs : job[k] \in JobRec
  OBVIOUS
<1>. QED
  BY <1>1, <1>2 DEF Becomes, JobRec

LEMMA SetPcInst ==
    ASSUME job \in [Jobs -> JobRec], NEW j \in Jobs,
           NEW pc \in Pcs, NEW inst \in BOOLEAN,
           job' = [job EXCEPT ![j].pc = pc, ![j].inst = inst]
    PROVE  Becomes(j, pc, job[j].phase, inst)
<1>1. job' \in [Jobs -> JobRec]
  BY Zenon DEF JobRec
<1>2. \A k \in Jobs : job[k] \in JobRec
  OBVIOUS
<1>. QED
  BY <1>1, <1>2 DEF Becomes, JobRec

LEMMA SetAll ==
    ASSUME job \in [Jobs -> JobRec], NEW j \in Jobs,
           NEW pc \in Pcs, NEW phase \in Phases, NEW inst \in BOOLEAN,
           job' = [job EXCEPT ![j].pc = pc, ![j].phase = phase, ![j].inst = inst]
    PROVE  Becomes(j, pc, phase, inst)
<1>1. job' \in [Jobs -> JobRec]
  BY Zenon DEF JobRec
<1>2. \A k \in Jobs : job[k] \in JobRec
  OBVIOUS
<1>. QED
  BY <1>1, <1>2 DEF Becomes, JobRec

LEMMA SetPhase ==
    ASSUME job \in [Jobs -> JobRec], NEW j \in Jobs,
           NEW phase \in Phases,
           job' = [job EXCEPT ![j].phase = phase]
    PROVE  Becomes(j, job[j].pc, phase, job[j].inst)
<1>1. job' \in [Jobs -> JobRec]
  BY Zenon DEF JobRec
<1>2. \A k \in Jobs : job[k] \in JobRec
  OBVIOUS
<1>. QED
  BY <1>1, <1>2 DEF Becomes, JobRec

LEMMA Effects ==
    ASSUME Records, NEW j \in Jobs
    PROVE  /\ start(j) => Becomes(j, "go", job[j].phase, job[j].inst)
           /\ train_on(j) => Becomes(j, "ask", job[j].phase, job[j].inst)
           /\ Answered(j) => \/ Becomes(j, "go", job[j].phase, TRUE)
                             \/ Becomes(j, "done", job[j].phase, job[j].inst)
           /\ Go(j) => Becomes(j, IF j \in Rentals THEN "creating" ELSE "stack",
                                  IF j \in Rentals THEN "creating" ELSE "ssh_wait", job[j].inst)
           /\ Made(j) => Becomes(j, "created", job[j].phase, job[j].inst)
           /\ Created(j) => Becomes(j, "ssh", "ssh_wait", TRUE)
           /\ SshOpens(j) => Becomes(j, "stack", job[j].phase, job[j].inst)
           /\ Fails(j) => Becomes(j, "finish", job[j].phase, job[j].inst)
           /\ Launch(j) => Becomes(j, "launching", "training", job[j].inst)
           /\ Train(j) => Becomes(j, "training", job[j].phase, job[j].inst)
           /\ BudgetRunsOut(j) => Becomes(j, "overdue", job[j].phase, job[j].inst)
           /\ TrainingOver(j) => Becomes(j, "retrieve", "retrieving", job[j].inst)
           /\ Looked(j) => \E pc \in {"rescue", AfterRetrieval(j)} :
                               Becomes(j, pc, job[j].phase, job[j].inst)
           /\ Rescued(j) => Becomes(j, AfterRetrieval(j), job[j].phase, job[j].inst)
           /\ Pulled(j) => Becomes(j, IF j \in Rentals THEN "done" ELSE "finish",
                                      job[j].phase, job[j].inst)
<1> USE DEF Records, Cards
<1>1. ASSUME start(j)
     PROVE  Becomes(j, "go", job[j].phase, job[j].inst)
  BY <1>1, SetPc DEF start, Pcs, Phases, Ended
<1>2. ASSUME train_on(j)
     PROVE  Becomes(j, "ask", job[j].phase, job[j].inst)
  BY <1>2, SetPc DEF train_on, Pcs, Phases, Ended
<1>3. ASSUME Answered(j)
     PROVE  \/ Becomes(j, "go", job[j].phase, TRUE)
            \/ Becomes(j, "done", job[j].phase, job[j].inst)
  BY <1>3, SetPc, SetPcInst DEF Answered, Pcs, Phases, Ended
<1>4. ASSUME Go(j)
     PROVE  Becomes(j, IF j \in Rentals THEN "creating" ELSE "stack",
                       IF j \in Rentals THEN "creating" ELSE "ssh_wait", job[j].inst)
  BY <1>4, SetPcPhase DEF Go, Move, Pcs, Phases, Ended
<1>5. ASSUME Made(j)
     PROVE  Becomes(j, "created", job[j].phase, job[j].inst)
  BY <1>5, SetPc DEF Made, Pcs, Phases, Ended
<1>6. ASSUME Created(j)
     PROVE  Becomes(j, "ssh", "ssh_wait", TRUE)
  BY <1>6, SetAll DEF Created, Pcs, Phases, Ended
<1>7. ASSUME SshOpens(j)
     PROVE  Becomes(j, "stack", job[j].phase, job[j].inst)
  BY <1>7, SetPc DEF SshOpens, Pcs, Phases, Ended
<1>8. ASSUME Fails(j)
     PROVE  Becomes(j, "finish", job[j].phase, job[j].inst)
  BY <1>8, SetPc DEF Fails, Pcs, Phases, Ended
<1>9. ASSUME Launch(j)
     PROVE  Becomes(j, "launching", "training", job[j].inst)
  BY <1>9, SetPcPhase DEF Launch, Move, Pcs, Phases, Ended
<1>10. ASSUME Train(j)
     PROVE  Becomes(j, "training", job[j].phase, job[j].inst)
  BY <1>10, SetPcPhase, JobFields DEF Train, Move, Pcs, Phases, Ended
<1>11. ASSUME BudgetRunsOut(j)
     PROVE  Becomes(j, "overdue", job[j].phase, job[j].inst)
  BY <1>11, SetPc DEF BudgetRunsOut, Pcs, Phases, Ended
<1>12. ASSUME TrainingOver(j)
     PROVE  Becomes(j, "retrieve", "retrieving", job[j].inst)
  BY <1>12, SetPcPhase DEF TrainingOver, Move, Pcs, Phases, Ended
<1>13. ASSUME Looked(j)
     PROVE  \E pc \in {"rescue", AfterRetrieval(j)} :
                Becomes(j, pc, job[j].phase, job[j].inst)
  BY <1>13, SetPc DEF Looked, AfterRetrieval, Pcs, Phases, Ended
<1>14. ASSUME Rescued(j)
     PROVE  Becomes(j, AfterRetrieval(j), job[j].phase, job[j].inst)
  BY <1>14, SetPc DEF Rescued, AfterRetrieval, Pcs, Phases, Ended
<1>15. ASSUME Pulled(j)
     PROVE  Becomes(j, IF j \in Rentals THEN "done" ELSE "finish",
                       job[j].phase, job[j].inst)
  BY <1>15, SetPc DEF Pulled, Pcs, Phases, Ended
<1>. QED
  BY <1>1, <1>2, <1>3, <1>4, <1>5, <1>6, <1>7, <1>8, <1>9, <1>10, <1>11, <1>12, <1>13, <1>14, <1>15

LEMMA AnsweredEffect ==
    ASSUME Records, NEW j \in Jobs, Answered(j)
    PROVE  \/ /\ Becomes(j, "go", job[j].phase, TRUE)
              /\ task' = j /\ cur' = [of |-> j, shell |-> FALSE]
           \/ /\ Becomes(j, "done", job[j].phase, job[j].inst)
              /\ UNCHANGED <<task, cur>>
  BY SetPc, SetPcInst DEF Answered, Pcs, Records, Cards

LEMMA LookedEffect ==
    ASSUME Records, NEW j \in Jobs, Looked(j)
    PROVE  \E pc \in {"rescue", IF j \in Rentals THEN "finish" ELSE "pull"} :
              /\ Becomes(j, pc, job[j].phase, job[j].inst)
              /\ pc = "rescue" \/ tried' = tried \cup {j}
  BY SetPc DEF Looked, AfterRetrieval, Pcs, Records, Cards

LEMMA FinishEffect ==
    ASSUME Records, NEW j \in Jobs, Finish(j)
    PROVE  \E phase \in Ended :
              /\ Finishes(j, phase) /\ Remember(j, phase, job[j].inst)
              /\ Becomes(j, IF j \in Rentals THEN "pull" ELSE "done", phase, job[j].inst)
<1>1. PICK phase \in Ended : /\ Finishes(j, phase) /\ Remember(j, phase, job[j].inst)
                             /\ Move(j, IF j \in Rentals THEN "pull" ELSE "done", phase)
  BY Zenon DEF Finish
<1>2. Becomes(j, IF j \in Rentals THEN "pull" ELSE "done", phase, job[j].inst)
  BY <1>1, SetPcPhase DEF Records, Cards, Move, Pcs, Phases, Ended
<1>. QED
  BY <1>1, <1>2

LEMMA StopEffect ==
    ASSUME Records, StopKnows, StopFinishes \/ StopDestroys
    PROVE  \/ job' = job
           \/ \E phase \in Phases :
                 /\ stop.of \in Rentals => phase # "finished"
                 /\ Becomes(stop.of, job[stop.of].pc, phase, job[stop.of].inst)
<1> USE DEF Records, Cards, StopKnows, Phases, Ended
<1> DEFINE j == stop.of
<1>1. CASE StopFinishes
  <2>1. j \in Jobs
    BY <1>1 DEF StopFinishes
  <2>2. \/ job' = job
        \/ \E phase \in Phases : /\ j \in Rentals => phase # "finished"
                                 /\ job' = [job EXCEPT ![j].phase = phase]
    BY <1>1 DEF StopFinishes
  <2>. QED
    BY <2>1, <2>2, SetPhase
<1>2. CASE StopDestroys
  <2>1. j \in Jobs
    BY <1>2 DEF StopDestroys
  <2>2. \E phase \in Phases : phase # "finished" /\ job' = [job EXCEPT ![j].phase = phase]
    BY <1>2 DEF StopDestroys, Destroy
  <2>. QED
    BY <2>1, <2>2, SetPhase
<1>. QED
  BY <1>1, <1>2

LEMMA CrashEffect ==
    ASSUME Records, Crash
    PROVE  /\ job' \in [Jobs -> JobRec]
           /\ \A j \in Jobs : /\ job'[j].pc = IF job[j].pc \in Flowing \cup {"ask"}
                                             THEN "dead" ELSE job[j].pc
                              /\ job'[j].phase = job[j].phase /\ job'[j].inst = job[j].inst
<1>1. ASSUME NEW j \in Jobs PROVE [job[j] EXCEPT !.pc = "dead"] \in JobRec
  BY Zenon DEF Records, Cards, JobRec, Pcs
<1>2. job' = [j \in Jobs |-> IF job[j].pc \in Flowing \cup {"ask"}
                             THEN [job[j] EXCEPT !.pc = "dead"] ELSE job[j]]
  BY DEF Crash
<1>3. job' \in [Jobs -> JobRec]
  BY <1>1, <1>2 DEF Records, Cards
<1>4. \A j \in Jobs : job[j] \in JobRec
  BY DEF Records, Cards
<1>. QED
  BY <1>2, <1>3, <1>4 DEF JobRec

LEMMA NextCases ==
    ASSUME [Next]_vars
    PROVE  \/ \E j \in Jobs :
                 \/ start(j) \/ train_on(j) \/ Answered(j) \/ Go(j) \/ Made(j) \/ Created(j)
                 \/ SshOpens(j) \/ Fails(j) \/ Launch(j) \/ Train(j) \/ BudgetRunsOut(j)
                 \/ TrainingOver(j) \/ Looked(j) \/ Rescued(j) \/ Pulled(j) \/ Finish(j)
                 \/ Saves(j) \/ SessionEnds(j)
           \/ StateRead \/ StopAsked \/ StopWaited \/ StopFinishes \/ StopDestroys
           \/ Scan \/ Crash \/ Boot \/ TrainHere
           \/ \E m \in alive : ByHand(m)
           \/ UNCHANGED vars
  BY Zenon DEF Next, Flow, Remote, Stopping

-----------------------------------------------------------------------------
(* Types *)

LEMMA JobStep == ASSUME Records, StopKnows, [Next]_vars PROVE job' \in [Jobs -> JobRec]
<1>1. ASSUME NEW j \in Jobs, start(j) PROVE job' \in [Jobs -> JobRec]
  BY <1>1, Effects, Zenon DEF Becomes
<1>2. ASSUME NEW j \in Jobs, train_on(j) PROVE job' \in [Jobs -> JobRec]
  BY <1>2, Effects, Zenon DEF Becomes
<1>3. ASSUME NEW j \in Jobs, Answered(j) PROVE job' \in [Jobs -> JobRec]
  BY <1>3, Effects, Zenon DEF Becomes
<1>4. ASSUME NEW j \in Jobs, Go(j) PROVE job' \in [Jobs -> JobRec]
  BY <1>4, Effects, Zenon DEF Becomes
<1>5. ASSUME NEW j \in Jobs, Made(j) PROVE job' \in [Jobs -> JobRec]
  BY <1>5, Effects, Zenon DEF Becomes
<1>6. ASSUME NEW j \in Jobs, Created(j) PROVE job' \in [Jobs -> JobRec]
  BY <1>6, Effects, Zenon DEF Becomes
<1>7. ASSUME NEW j \in Jobs, SshOpens(j) PROVE job' \in [Jobs -> JobRec]
  BY <1>7, Effects, Zenon DEF Becomes
<1>8. ASSUME NEW j \in Jobs, Fails(j) PROVE job' \in [Jobs -> JobRec]
  BY <1>8, Effects, Zenon DEF Becomes
<1>9. ASSUME NEW j \in Jobs, Launch(j) PROVE job' \in [Jobs -> JobRec]
  BY <1>9, Effects, Zenon DEF Becomes
<1>10. ASSUME NEW j \in Jobs, Train(j) PROVE job' \in [Jobs -> JobRec]
  BY <1>10, Effects, Zenon DEF Becomes
<1>11. ASSUME NEW j \in Jobs, BudgetRunsOut(j) PROVE job' \in [Jobs -> JobRec]
  BY <1>11, Effects, Zenon DEF Becomes
<1>12. ASSUME NEW j \in Jobs, TrainingOver(j) PROVE job' \in [Jobs -> JobRec]
  BY <1>12, Effects, Zenon DEF Becomes
<1>13. ASSUME NEW j \in Jobs, Looked(j) PROVE job' \in [Jobs -> JobRec]
  BY <1>13, Effects, Zenon DEF Becomes
<1>14. ASSUME NEW j \in Jobs, Rescued(j) PROVE job' \in [Jobs -> JobRec]
  BY <1>14, Effects, Zenon DEF Becomes
<1>15. ASSUME NEW j \in Jobs, Pulled(j) PROVE job' \in [Jobs -> JobRec]
  BY <1>15, Effects, Zenon DEF Becomes
<1>16. ASSUME NEW j \in Jobs, Finish(j) PROVE job' \in [Jobs -> JobRec]
  BY <1>16, FinishEffect, Zenon DEF Becomes, Records, Cards
<1>17. ASSUME NEW j \in Jobs, Saves(j) PROVE job' \in [Jobs -> JobRec]
  BY <1>17 DEF Saves, Records, Cards
<1>18. ASSUME NEW j \in Jobs, SessionEnds(j) PROVE job' \in [Jobs -> JobRec]
  BY <1>18 DEF SessionEnds, Records, Cards
<1>19. CASE StopAsked
  BY <1>19 DEF StopAsked, Stopped, Records, Cards
<1>20. CASE StopWaited
  BY <1>20 DEF StopWaited, Returned, Records, Cards
<1>21. CASE StopFinishes
  BY <1>21, StopEffect, Zenon DEF Becomes, Records, Cards
<1>22. CASE StopDestroys
  BY <1>22, StopEffect, Zenon DEF Becomes, Records, Cards
<1>23. CASE Crash
  BY <1>23, CrashEffect, Zenon DEF Becomes, Records, Cards
<1>24. ASSUME NEW m \in alive, ByHand(m) PROVE job' \in [Jobs -> JobRec]
  BY <1>24 DEF ByHand, Records, Cards
<1>25. CASE StateRead \/ Scan \/ TrainHere \/ Boot \/ UNCHANGED vars
  BY <1>25 DEF StateRead, Scan, TrainHere, Boot, vars, Records, Cards, Report
<1>. QED
    BY NextCases, <1>1, <1>2, <1>3, <1>4, <1>5, <1>6, <1>7, <1>8, <1>9, <1>10, <1>11, <1>12,
     <1>13, <1>14, <1>15, <1>16, <1>17, <1>18, <1>19, <1>20, <1>21, <1>22, <1>23, <1>24, <1>25

LEMMA RecordsStep == ASSUME Records, Sets, [Next]_vars PROVE Cards'
<1> USE DEF Records, Cards, Sets, NoOne, world, desk
<1>1. ASSUME NEW j \in Jobs, start(j) PROVE Cards'
  BY <1>1, Zenon DEF start, Asks, CurRec, StopRec, HubRec, RetRec
<1>2. ASSUME NEW j \in Jobs, train_on(j) PROVE Cards'
  BY <1>2, Zenon DEF train_on, Asks, CurRec, StopRec, HubRec, RetRec
<1>3. ASSUME NEW j \in Jobs, Answered(j) PROVE Cards'
  <2>1. [of |-> j, shell |-> FALSE] \in CurRec
    BY Zenon DEF CurRec
  <2>. QED
    BY <1>3, <2>1, Zenon DEF Answered
<1>4. ASSUME NEW j \in Jobs, Go(j) PROVE Cards'
  BY <1>4, Zenon DEF Go, Remember, Move, CurRec, StopRec, HubRec, RetRec
<1>5. ASSUME NEW j \in Jobs, Made(j) PROVE Cards'
  BY <1>5, Zenon DEF Made
<1>6. ASSUME NEW j \in Jobs, Created(j) PROVE Cards'
  BY <1>6, Zenon DEF Created, Remember, CurRec, StopRec, HubRec, RetRec
<1>7. ASSUME NEW j \in Jobs, SshOpens(j) PROVE Cards'
  BY <1>7, Zenon DEF SshOpens
<1>8. ASSUME NEW j \in Jobs, Fails(j) PROVE Cards'
  BY <1>8, Zenon DEF Fails
<1>9. ASSUME NEW j \in Jobs, Launch(j) PROVE Cards'
  BY <1>9, Zenon DEF Launch, Move, CurRec, StopRec, HubRec, RetRec
<1>10. ASSUME NEW j \in Jobs, Train(j) PROVE Cards'
  BY <1>10, Zenon DEF Train, Remember, Move, CurRec, StopRec, HubRec, RetRec
<1>11. ASSUME NEW j \in Jobs, BudgetRunsOut(j) PROVE Cards'
  BY <1>11, Zenon DEF BudgetRunsOut
<1>12. ASSUME NEW j \in Jobs, TrainingOver(j) PROVE Cards'
  BY <1>12, Zenon DEF TrainingOver, Remember, Stopped, Move, CurRec, StopRec, HubRec, RetRec
<1>13. ASSUME NEW j \in Jobs, Looked(j) PROVE Cards'
  <2>1. [state |-> "waiting", of |-> j] \in RetRec /\ [state |-> "rescuing", of |-> j] \in RetRec
    BY Zenon DEF RetRec
  <2>. QED
    BY <1>13, <2>1, Zenon DEF Looked
<1>14. ASSUME NEW j \in Jobs, Rescued(j) PROVE Cards'
  BY <1>14, Zenon DEF Rescued, AfterRetrieval, Oldest, CurRec, StopRec, HubRec, RetRec
<1>15. ASSUME NEW j \in Jobs, Pulled(j) PROVE Cards'
  <2>1. \A state \in {"done", "failed"} : [ret EXCEPT !.state = state] \in RetRec
    BY Zenon DEF RetRec
  <2>. QED
    BY <1>15, <2>1, Zenon DEF Pulled
<1>16. ASSUME NEW j \in Jobs, Finish(j) PROVE Cards'
  <2>1. [of |-> j, shell |-> FALSE] \in CurRec
    BY Zenon DEF CurRec
  <2>. QED
    BY <1>16, <2>1, Zenon DEF Finish, Remember
<1>17. ASSUME NEW j \in Jobs, Saves(j) PROVE Cards'
  BY <1>17, Zenon DEF Saves
<1>18. ASSUME NEW j \in Jobs, SessionEnds(j) PROVE Cards'
  <2>1. hub.by \in SUBSET Jobs
    BY Zenon DEF HubRec
  <2>2. hub.by \cup {j} \in SUBSET Jobs
    BY <2>1
  <2>3. [by |-> hub.by \cup {j}, last |-> j, since |-> TRUE] \in HubRec
    BY <2>2, Zenon DEF HubRec
  <2>. QED
    BY <1>18, <2>3, Zenon DEF SessionEnds
<1>19. CASE StopAsked
  BY <1>19, Zenon DEF StopAsked, Stopped, CurRec, StopRec, HubRec, RetRec
<1>20. CASE StopWaited
  BY <1>20, Zenon DEF StopWaited, Returned, CurRec, StopRec, HubRec, RetRec
<1>21. CASE StopFinishes
  BY <1>21, Zenon DEF StopFinishes, Returned, CurRec, StopRec, HubRec, RetRec
<1>22. CASE StopDestroys
  BY <1>22, Zenon DEF StopDestroys, Returned, Destroy, CurRec, StopRec, HubRec, RetRec
<1>23. CASE Crash
  BY <1>23, Zenon DEF Crash, CurRec, StopRec, HubRec, RetRec
<1>24. ASSUME NEW m \in alive, ByHand(m) PROVE Cards'
  BY <1>24, Zenon DEF ByHand
<1>25. CASE StateRead \/ Scan \/ TrainHere \/ Boot \/ UNCHANGED vars
  BY <1>25, Zenon DEF StateRead, Scan, TrainHere, Boot, vars, Report
<1>. QED
    BY NextCases, <1>1, <1>2, <1>3, <1>4, <1>5, <1>6, <1>7, <1>8, <1>9, <1>10, <1>11, <1>12,
     <1>13, <1>14, <1>15, <1>16, <1>17, <1>18, <1>19, <1>20, <1>21, <1>22, <1>23, <1>24, <1>25

LEMMA Fields ==
    ASSUME Records
    PROVE  /\ cur.of \in Jobs \cup {None} /\ stop.of \in Jobs \cup {None}
           /\ hub.last \in Jobs \cup {None} /\ ret.of \in Jobs \cup {None}
           /\ \A at \in {"direct", "thread"} :
                 [stop EXCEPT !.at = at].of = stop.of /\ [stop EXCEPT !.at = at].at = at
           /\ [hub EXCEPT !.since = FALSE].since = FALSE
           /\ \A state \in {"done", "missing", "failed"} :
                 [ret EXCEPT !.state = state].state = state
  BY DEF Records, Cards, CurRec, StopRec, HubRec, RetRec

LEMMA SwitchesStep == ASSUME Switches, [Next]_vars PROVE Switches'
<1> USE DEF Switches, world, desk
<1>1. ASSUME NEW j \in Jobs, start(j) PROVE Switches'
  BY <1>1, Zenon DEF start, Asks
<1>2. ASSUME NEW j \in Jobs, train_on(j) PROVE Switches'
  BY <1>2, Zenon DEF train_on, Asks
<1>3. ASSUME NEW j \in Jobs, Answered(j) PROVE Switches'
  BY <1>3, Zenon DEF Answered
<1>4. ASSUME NEW j \in Jobs, Go(j) PROVE Switches'
  BY <1>4, Zenon DEF Go, Remember, Move
<1>5. ASSUME NEW j \in Jobs, Made(j) PROVE Switches'
  BY <1>5, Zenon DEF Made
<1>6. ASSUME NEW j \in Jobs, Created(j) PROVE Switches'
  BY <1>6, Zenon DEF Created, Remember
<1>7. ASSUME NEW j \in Jobs, SshOpens(j) PROVE Switches'
  BY <1>7, Zenon DEF SshOpens
<1>8. ASSUME NEW j \in Jobs, Fails(j) PROVE Switches'
  BY <1>8, Zenon DEF Fails
<1>9. ASSUME NEW j \in Jobs, Launch(j) PROVE Switches'
  BY <1>9, Zenon DEF Launch, Move
<1>10. ASSUME NEW j \in Jobs, Train(j) PROVE Switches'
  BY <1>10, Zenon DEF Train, Remember, Move
<1>11. ASSUME NEW j \in Jobs, BudgetRunsOut(j) PROVE Switches'
  BY <1>11, Zenon DEF BudgetRunsOut
<1>12. ASSUME NEW j \in Jobs, TrainingOver(j) PROVE Switches'
  BY <1>12, Zenon DEF TrainingOver, Remember, Stopped, Move
<1>13. ASSUME NEW j \in Jobs, Looked(j) PROVE Switches'
  BY <1>13, Zenon DEF Looked, AfterRetrieval
<1>14. ASSUME NEW j \in Jobs, Rescued(j) PROVE Switches'
  BY <1>14, Zenon DEF Rescued, AfterRetrieval, Oldest
<1>15. ASSUME NEW j \in Jobs, Pulled(j) PROVE Switches'
  BY <1>15, Zenon DEF Pulled
<1>16. ASSUME NEW j \in Jobs, Finish(j) PROVE Switches'
  BY <1>16, Zenon DEF Finish, Remember, Finishes, Destroy, Move
<1>17. ASSUME NEW j \in Jobs, Saves(j) PROVE Switches'
  BY <1>17, Zenon DEF Saves
<1>18. ASSUME NEW j \in Jobs, SessionEnds(j) PROVE Switches'
  BY <1>18, Zenon DEF SessionEnds
<1>19. CASE StopAsked
  BY <1>19, Zenon DEF StopAsked, Stopped
<1>20. CASE StopWaited
  BY <1>20, Zenon DEF StopWaited, Returned
<1>21. CASE StopFinishes
  BY <1>21, Zenon DEF StopFinishes, Returned
<1>22. CASE StopDestroys
  BY <1>22, Zenon DEF StopDestroys, Returned, Destroy
<1>23. CASE Crash
  BY <1>23, Zenon DEF Crash
<1>24. ASSUME NEW m \in alive, ByHand(m) PROVE Switches'
  BY <1>24, Zenon DEF ByHand
<1>25. CASE StateRead \/ Scan \/ TrainHere \/ Boot \/ UNCHANGED vars
  BY <1>25, Zenon DEF StateRead, Scan, TrainHere, Boot, vars, Report
<1>. QED
    BY NextCases, <1>1, <1>2, <1>3, <1>4, <1>5, <1>6, <1>7, <1>8, <1>9, <1>10, <1>11, <1>12,
     <1>13, <1>14, <1>15, <1>16, <1>17, <1>18, <1>19, <1>20, <1>21, <1>22, <1>23, <1>24, <1>25

LEMMA SetsStep == ASSUME Records, Sets, Links, [Next]_vars PROVE Sets'
<1> USE Fields, Names DEF Sets, Links, HubHasSome, StopKnows, NoOne, world, desk
<1>1. ASSUME NEW j \in Jobs, start(j) PROVE Sets'
  BY <1>1 DEF start, Asks
<1>2. ASSUME NEW j \in Jobs, train_on(j) PROVE Sets'
  BY <1>2 DEF train_on, Asks
<1>3. ASSUME NEW j \in Jobs, Answered(j) PROVE Sets'
  BY <1>3 DEF Answered
<1>4. ASSUME NEW j \in Jobs, Go(j) PROVE Sets'
  BY <1>4 DEF Go, Remember, Move
<1>5. ASSUME NEW j \in Jobs, Made(j) PROVE Sets'
  BY <1>5 DEF Made
<1>6. ASSUME NEW j \in Jobs, Created(j) PROVE Sets'
  BY <1>6 DEF Created, Remember
<1>7. ASSUME NEW j \in Jobs, SshOpens(j) PROVE Sets'
  BY <1>7 DEF SshOpens
<1>8. ASSUME NEW j \in Jobs, Fails(j) PROVE Sets'
  BY <1>8 DEF Fails
<1>9. ASSUME NEW j \in Jobs, Launch(j) PROVE Sets'
  BY <1>9 DEF Launch, Move
<1>10. ASSUME NEW j \in Jobs, Train(j) PROVE Sets'
  BY <1>10 DEF Train, Remember, Move
<1>11. ASSUME NEW j \in Jobs, BudgetRunsOut(j) PROVE Sets'
  BY <1>11 DEF BudgetRunsOut
<1>12. ASSUME NEW j \in Jobs, TrainingOver(j) PROVE Sets'
  BY <1>12 DEF TrainingOver, Remember, Stopped, Move
<1>13. ASSUME NEW j \in Jobs, Looked(j) PROVE Sets'
  BY <1>13 DEF Looked, AfterRetrieval
<1>14. ASSUME NEW j \in Jobs, Rescued(j) PROVE Sets'
  BY <1>14 DEF Rescued, AfterRetrieval, Oldest
<1>15. ASSUME NEW j \in Jobs, Pulled(j) PROVE Sets'
  BY <1>15 DEF Pulled
<1>16. ASSUME NEW j \in Jobs, Finish(j) PROVE Sets'
  <2>1. PICK phase \in Ended : Finishes(j, phase) /\ Remember(j, phase, job[j].inst)
    BY <1>16, FinishEffect
  <2>2. alive' \subseteq alive /\ session' \subseteq session
    BY <2>1 DEF Finishes, Destroy
  <2>3. claim' \in Jobs \cup {Box, None}
    BY <2>1 DEF Remember
  <2>. QED
    BY <1>16, <2>2, <2>3 DEF Finish
<1>17. ASSUME NEW j \in Jobs, Saves(j) PROVE Sets'
  BY <1>17 DEF Saves
<1>18. ASSUME NEW j \in Jobs, SessionEnds(j) PROVE Sets'
  BY <1>18 DEF SessionEnds
<1>19. CASE StopAsked
  BY <1>19 DEF StopAsked, Stopped
<1>20. CASE StopWaited
  BY <1>20 DEF StopWaited, Returned
<1>21. CASE StopFinishes
  BY <1>21 DEF StopFinishes, Returned
<1>22. CASE StopDestroys
  BY <1>22 DEF StopDestroys, Returned, Destroy
<1>23. CASE Crash
  <2>1. crashes' \in 0 .. MaxCrashes
    BY <1>23, BoundAssumption DEF Crash
  <2>. QED
    BY <1>23, <2>1 DEF Crash
<1>24. ASSUME NEW m \in alive, ByHand(m) PROVE Sets'
  BY <1>24 DEF ByHand
<1>25. CASE StateRead \/ Scan \/ TrainHere \/ Boot \/ UNCHANGED vars
  BY <1>25 DEF StateRead, Scan, TrainHere, Boot, vars, Report
<1>. QED
    BY NextCases, <1>1, <1>2, <1>3, <1>4, <1>5, <1>6, <1>7, <1>8, <1>9, <1>10, <1>11, <1>12,
     <1>13, <1>14, <1>15, <1>16, <1>17, <1>18, <1>19, <1>20, <1>21, <1>22, <1>23, <1>24, <1>25

LEMMA LinksStep == ASSUME Records, Sets, Links, [Next]_vars PROVE Links'
<1> USE Fields DEF Links, HubHasSome, StopKnows, NoOne, world, desk
<1>1. ASSUME NEW j \in Jobs, start(j) PROVE Links'
  BY <1>1 DEF start, Asks
<1>2. ASSUME NEW j \in Jobs, train_on(j) PROVE Links'
  BY <1>2 DEF train_on, Asks
<1>3. ASSUME NEW j \in Jobs, Answered(j) PROVE Links'
  BY <1>3 DEF Answered
<1>4. ASSUME NEW j \in Jobs, Go(j) PROVE Links'
  BY <1>4 DEF Go, Remember, Move
<1>5. ASSUME NEW j \in Jobs, Made(j) PROVE Links'
  BY <1>5 DEF Made
<1>6. ASSUME NEW j \in Jobs, Created(j) PROVE Links'
  BY <1>6 DEF Created, Remember
<1>7. ASSUME NEW j \in Jobs, SshOpens(j) PROVE Links'
  BY <1>7 DEF SshOpens
<1>8. ASSUME NEW j \in Jobs, Fails(j) PROVE Links'
  BY <1>8 DEF Fails
<1>9. ASSUME NEW j \in Jobs, Launch(j) PROVE Links'
  BY <1>9 DEF Launch, Move
<1>10. ASSUME NEW j \in Jobs, Train(j) PROVE Links'
  BY <1>10 DEF Train, Remember, Move
<1>11. ASSUME NEW j \in Jobs, BudgetRunsOut(j) PROVE Links'
  BY <1>11 DEF BudgetRunsOut
<1>12. ASSUME NEW j \in Jobs, TrainingOver(j) PROVE Links'
  BY <1>12 DEF TrainingOver, Remember, Stopped, Move
<1>13. ASSUME NEW j \in Jobs, Looked(j) PROVE Links'
  BY <1>13 DEF Looked, AfterRetrieval
<1>14. ASSUME NEW j \in Jobs, Rescued(j) PROVE Links'
  BY <1>14 DEF Rescued, AfterRetrieval, Oldest
<1>15. ASSUME NEW j \in Jobs, Pulled(j) PROVE Links'
  BY <1>15 DEF Pulled
<1>16. ASSUME NEW j \in Jobs, Finish(j) PROVE Links'
  BY <1>16 DEF Finish, Remember, Finishes, Destroy, Move
<1>17. ASSUME NEW j \in Jobs, Saves(j) PROVE Links'
  BY <1>17 DEF Saves
<1>18. ASSUME NEW j \in Jobs, SessionEnds(j) PROVE Links'
  BY <1>18 DEF SessionEnds
<1>19. CASE StopAsked
  BY <1>19 DEF StopAsked, Stopped
<1>20. CASE StopWaited
  BY <1>20 DEF StopWaited, Returned
<1>21. CASE StopFinishes
  BY <1>21 DEF StopFinishes, Returned
<1>22. CASE StopDestroys
  BY <1>22 DEF StopDestroys, Returned, Destroy
<1>23. CASE Crash
  BY <1>23 DEF Crash
<1>24. ASSUME NEW m \in alive, ByHand(m) PROVE Links'
  BY <1>24 DEF ByHand
<1>25. CASE StateRead \/ Scan \/ TrainHere \/ Boot \/ UNCHANGED vars
  BY <1>25 DEF StateRead, Scan, TrainHere, Boot, vars, Report
<1>. QED
    BY NextCases, <1>1, <1>2, <1>3, <1>4, <1>5, <1>6, <1>7, <1>8, <1>9, <1>10, <1>11, <1>12,
     <1>13, <1>14, <1>15, <1>16, <1>17, <1>18, <1>19, <1>20, <1>21, <1>22, <1>23, <1>24, <1>25

LEMMA SessionStep == ASSUME Sets, SessionHasMachine, [Next]_vars PROVE SessionHasMachine'
<1> USE Names DEF Sets, SessionHasMachine, world, desk
<1>1. ASSUME NEW j \in Jobs, start(j) PROVE SessionHasMachine'
  BY <1>1 DEF start, Asks
<1>2. ASSUME NEW j \in Jobs, train_on(j) PROVE SessionHasMachine'
  BY <1>2 DEF train_on, Asks
<1>3. ASSUME NEW j \in Jobs, Answered(j) PROVE SessionHasMachine'
  BY <1>3 DEF Answered
<1>4. ASSUME NEW j \in Jobs, Go(j) PROVE SessionHasMachine'
  BY <1>4 DEF Go, Remember, Move
<1>5. ASSUME NEW j \in Jobs, Made(j) PROVE SessionHasMachine'
  BY <1>5 DEF Made
<1>6. ASSUME NEW j \in Jobs, Created(j) PROVE SessionHasMachine'
  BY <1>6 DEF Created, Remember
<1>7. ASSUME NEW j \in Jobs, SshOpens(j) PROVE SessionHasMachine'
  BY <1>7 DEF SshOpens
<1>8. ASSUME NEW j \in Jobs, Fails(j) PROVE SessionHasMachine'
  BY <1>8 DEF Fails
<1>9. ASSUME NEW j \in Jobs, Launch(j) PROVE SessionHasMachine'
  BY <1>9 DEF Launch, Move
<1>10. ASSUME NEW j \in Jobs, Train(j) PROVE SessionHasMachine'
  BY <1>10 DEF Train, Remember, Move
<1>11. ASSUME NEW j \in Jobs, BudgetRunsOut(j) PROVE SessionHasMachine'
  BY <1>11 DEF BudgetRunsOut
<1>12. ASSUME NEW j \in Jobs, TrainingOver(j) PROVE SessionHasMachine'
  BY <1>12 DEF TrainingOver, Remember, Stopped, Move
<1>13. ASSUME NEW j \in Jobs, Looked(j) PROVE SessionHasMachine'
  BY <1>13 DEF Looked, AfterRetrieval
<1>14. ASSUME NEW j \in Jobs, Rescued(j) PROVE SessionHasMachine'
  BY <1>14 DEF Rescued, AfterRetrieval, Oldest
<1>15. ASSUME NEW j \in Jobs, Pulled(j) PROVE SessionHasMachine'
  BY <1>15 DEF Pulled
<1>16. ASSUME NEW j \in Jobs, Finish(j) PROVE SessionHasMachine'
  <2>1. PICK phase \in Ended : Finishes(j, phase)
    BY <1>16 DEF Finish
  <2>. QED
    BY <2>1 DEF Finishes, Destroy
<1>17. ASSUME NEW j \in Jobs, Saves(j) PROVE SessionHasMachine'
  BY <1>17 DEF Saves
<1>18. ASSUME NEW j \in Jobs, SessionEnds(j) PROVE SessionHasMachine'
  BY <1>18 DEF SessionEnds
<1>19. CASE StopAsked
  BY <1>19 DEF StopAsked, Stopped
<1>20. CASE StopWaited
  BY <1>20 DEF StopWaited, Returned
<1>21. CASE StopFinishes
  BY <1>21 DEF StopFinishes, Returned
<1>22. CASE StopDestroys
  BY <1>22 DEF StopDestroys, Returned, Destroy
<1>23. CASE Crash
  BY <1>23 DEF Crash
<1>24. ASSUME NEW m \in alive, ByHand(m) PROVE SessionHasMachine'
  BY <1>24 DEF ByHand
<1>25. CASE StateRead \/ Scan \/ TrainHere \/ Boot \/ UNCHANGED vars
  BY <1>25 DEF StateRead, Scan, TrainHere, Boot, vars, Report
<1>. QED
    BY NextCases, <1>1, <1>2, <1>3, <1>4, <1>5, <1>6, <1>7, <1>8, <1>9, <1>10, <1>11, <1>12,
     <1>13, <1>14, <1>15, <1>16, <1>17, <1>18, <1>19, <1>20, <1>21, <1>22, <1>23, <1>24, <1>25

-----------------------------------------------------------------------------
(* The weights, the registry, and a flow alone *)

LEMMA RentedStep == ASSUME RentInv, [Next]_vars PROVE Rented'
<1> USE Names, JobFields DEF RentInv, Rented, WeightsSought, ClaimHasFlow, Managed, TypeInv,
           Records, Cards, Sets, Links, Course, Becomes, Flowing, Pcs, Phases, Ended, world,
           desk
<1>1. ASSUME NEW j \in Jobs, start(j) PROVE Rented'
  <2>1. Becomes(j, "go", job[j].phase, job[j].inst)
    BY <1>1, Effects, Zenon
  <2>2. /\ j \in Rentals /\ job[j].pc = "new"
        /\ task' = j /\ cur' = [of |-> j, shell |-> TRUE]
        /\ UNCHANGED <<up, claim, runner, alive, session, disk, tried>>
    BY <1>1, Zenon DEF start, Asks, world, desk
  <2>. QED
    BY <2>1, <2>2
<1>2. ASSUME NEW j \in Jobs, train_on(j) PROVE Rented'
  <2>1. Becomes(j, "ask", job[j].phase, job[j].inst)
    BY <1>2, Effects, Zenon
  <2>2. /\ j \in Visits /\ job[j].pc = "new"
        /\ UNCHANGED <<up, task, cur, claim, runner, alive, session, disk, tried>>
    BY <1>2, Zenon DEF train_on, Asks, world, desk
  <2>. QED
    BY <2>1, <2>2
<1>3. ASSUME NEW j \in Jobs, Answered(j) PROVE Rented'
  <2>1. job[j].pc = "ask" /\ UNCHANGED <<up, claim, runner, alive, session, disk, tried>>
    BY <1>3, Zenon DEF Answered, desk
  <2>2. \/ /\ Becomes(j, "go", job[j].phase, TRUE)
            /\ task' = j /\ cur' = [of |-> j, shell |-> FALSE]
         \/ /\ Becomes(j, "done", job[j].phase, job[j].inst)
            /\ UNCHANGED <<task, cur>>
    BY <1>3, AnsweredEffect
  <2>. QED
    BY <2>1, <2>2
<1>4. ASSUME NEW j \in Jobs, Go(j) PROVE Rented'
  <2>1. Becomes(j, IF j \in Rentals THEN "creating" ELSE "stack",
                   IF j \in Rentals THEN "creating" ELSE "ssh_wait", job[j].inst)
    BY <1>4, Effects, Zenon
  <2>2. /\ job[j].pc = "go"
        /\ Remember(j, IF j \in Rentals THEN "creating" ELSE "ssh_wait", job[j].inst)
        /\ UNCHANGED <<up, task, runner, alive, session, disk, tried>>
    BY <1>4, Zenon DEF Go, world, desk
  <2>. QED
    BY <2>1, <2>2 DEF Remember
<1>5. ASSUME NEW j \in Jobs, Made(j) PROVE Rented'
  <2>1. Becomes(j, "created", job[j].phase, job[j].inst)
    BY <1>5, Effects, Zenon
  <2>2. /\ job[j].pc = "creating" /\ alive' = alive \cup {j}
        /\ UNCHANGED <<up, task, cur, claim, runner, session, disk, tried>>
    BY <1>5, Zenon DEF Made, world, desk
  <2>. QED
    BY <2>1, <2>2
<1>6. ASSUME NEW j \in Jobs, Created(j) PROVE Rented'
  <2>1. Becomes(j, "ssh", "ssh_wait", TRUE)
    BY <1>6, Effects, Zenon
  <2>2. /\ job[j].pc = "created" /\ Remember(j, "ssh_wait", TRUE)
        /\ UNCHANGED <<up, task, runner, alive, session, disk, tried>>
    BY <1>6, Zenon DEF Created, world, desk
  <2>. QED
    BY <2>1, <2>2 DEF Remember
<1>7. ASSUME NEW j \in Jobs, SshOpens(j) PROVE Rented'
  <2>1. Becomes(j, "stack", job[j].phase, job[j].inst)
    BY <1>7, Effects, Zenon
  <2>2. /\ job[j].pc = "ssh" /\ j \in alive
        /\ UNCHANGED <<up, task, cur, claim, runner, alive, session, disk, tried>>
    BY <1>7, Zenon DEF SshOpens, world, desk
  <2>. QED
    BY <2>1, <2>2
<1>8. ASSUME NEW j \in Jobs, Fails(j) PROVE Rented'
  <2>1. Becomes(j, "finish", job[j].phase, job[j].inst)
    BY <1>8, Effects, Zenon
  <2>2. /\ job[j].pc \in {"creating", "created", "ssh", "stack", "launching"}
        /\ UNCHANGED <<up, task, cur, claim, runner, alive, session, disk, tried>>
    BY <1>8, Zenon DEF Fails, world, desk
  <2>. QED
    BY <2>1, <2>2
<1>9. ASSUME NEW j \in Jobs, Launch(j) PROVE Rented'
  <2>1. Becomes(j, "launching", "training", job[j].inst)
    BY <1>9, Effects, Zenon
  <2>2. /\ job[j].pc = "stack" /\ runner' = j /\ claim' = None
        /\ cur' = [of |-> j, shell |-> FALSE]
        /\ UNCHANGED <<up, task, alive, session, disk, tried>>
    BY <1>9, Zenon DEF Launch, world, desk
  <2>. QED
    BY <2>1, <2>2
<1>10. ASSUME NEW j \in Jobs, Train(j) PROVE Rented'
  <2>1. Becomes(j, "training", job[j].phase, job[j].inst)
    BY <1>10, Effects, Zenon
  <2>2. /\ job[j].pc = "launching" /\ Machine(j) \in alive
        /\ session' = session \cup {j} /\ Remember(j, job[j].phase, TRUE)
        /\ UNCHANGED <<up, task, runner, alive, disk, tried>>
    BY <1>10, Zenon DEF Train, world, desk
  <2>. QED
    BY <2>1, <2>2 DEF Remember
<1>11. ASSUME NEW j \in Jobs, BudgetRunsOut(j) PROVE Rented'
  <2>1. Becomes(j, "overdue", job[j].phase, job[j].inst)
    BY <1>11, Effects, Zenon
  <2>2. /\ j \in Rentals /\ job[j].pc = "training"
        /\ UNCHANGED <<up, task, cur, claim, runner, alive, session, disk, tried>>
    BY <1>11, Zenon DEF BudgetRunsOut, world, desk
  <2>. QED
    BY <2>1, <2>2
<1>12. ASSUME NEW j \in Jobs, TrainingOver(j) PROVE Rented'
  <2>1. Becomes(j, "retrieve", "retrieving", job[j].inst)
    BY <1>12, Effects, Zenon
  <2>2. /\ job[j].pc \in {"training", "overdue"} /\ session' \subseteq session
        /\ Remember(j, "retrieving", job[j].inst)
        /\ UNCHANGED <<up, task, runner, alive, disk, tried>>
    BY <1>12 DEF TrainingOver, Stopped, world, desk
  <2>. QED
    BY <2>1, <2>2 DEF Remember
<1>13. ASSUME NEW j \in Jobs, Looked(j) PROVE Rented'
  <2>1. PICK pc \in {"rescue", IF j \in Rentals THEN "finish" ELSE "pull"} :
             /\ Becomes(j, pc, job[j].phase, job[j].inst)
             /\ pc = "rescue" \/ tried' = tried \cup {j}
    BY <1>13, LookedEffect
  <2>2. /\ job[j].pc = "retrieve" /\ tried \subseteq tried'
        /\ UNCHANGED <<up, task, cur, claim, runner, alive, session, disk>>
    BY <1>13 DEF Looked, desk, world
  <2>. QED
    BY <2>1, <2>2
<1>14. ASSUME NEW j \in Jobs, Rescued(j) PROVE Rented'
  <2>1. Becomes(j, AfterRetrieval(j), job[j].phase, job[j].inst)
    BY <1>14, Effects, Zenon
  <2>2. /\ job[j].pc = "rescue" /\ tried' = tried \cup {j}
        /\ UNCHANGED <<up, task, cur, claim, runner, alive, session, disk>>
    BY <1>14, Zenon DEF Rescued, AfterRetrieval, world, desk
  <2>. QED
    BY <2>1, <2>2 DEF AfterRetrieval
<1>15. ASSUME NEW j \in Jobs, Pulled(j) PROVE Rented'
  <2>1. Becomes(j, IF j \in Rentals THEN "done" ELSE "finish",
                   job[j].phase, job[j].inst)
    BY <1>15, Effects, Zenon
  <2>2. /\ job[j].pc = "pull"
        /\ UNCHANGED <<up, task, cur, claim, runner, alive, session, disk, tried>>
    BY <1>15, Zenon DEF Pulled, world, desk
  <2>. QED
    BY <2>1, <2>2
<1>16. ASSUME NEW j \in Jobs, Finish(j) PROVE Rented'
  <2>1. job[j].pc = "finish" /\ runner' = None /\ UNCHANGED <<up, task, disk, tried>>
    BY <1>16, Zenon DEF Finish, desk
  <2>2. PICK phase \in Ended : /\ Finishes(j, phase) /\ Remember(j, phase, job[j].inst)
                               /\ Becomes(j, IF j \in Rentals THEN "pull" ELSE "done",
                                          phase, job[j].inst)
    BY <1>16, FinishEffect
  <2>3. /\ alive' \subseteq alive /\ session' \subseteq session
        /\ j \in Rentals => phase # "finished"
    BY <2>2 DEF Finishes, Destroy, Ended
  <2>. QED
    BY <2>1, <2>2, <2>3 DEF Remember
<1>17. ASSUME NEW j \in Jobs, Saves(j) PROVE Rented'
  BY <1>17 DEF Saves
<1>18. ASSUME NEW j \in Jobs, SessionEnds(j) PROVE Rented'
  BY <1>18 DEF SessionEnds
<1>19. CASE StopAsked
  BY <1>19 DEF StopAsked, Stopped
<1>20. CASE StopWaited
  BY <1>20 DEF StopWaited, Returned
<1>21. CASE StopFinishes
  <2>1. UNCHANGED <<up, task, cur, claim, runner, alive, session, disk, tried>>
    BY <1>21, Zenon DEF StopFinishes, world, desk
  <2>. QED
    BY <1>21, <2>1, StopEffect
<1>22. CASE StopDestroys
  BY <1>22, StopEffect DEF StopDestroys, Returned, Destroy
<1>23. CASE Crash
  BY <1>23, CrashEffect DEF Crash
<1>24. ASSUME NEW m \in alive, ByHand(m) PROVE Rented'
  BY <1>24 DEF ByHand
<1>25. CASE StateRead \/ Scan \/ TrainHere \/ Boot \/ UNCHANGED vars
  BY <1>25 DEF StateRead, Scan, TrainHere, Boot, vars, Report
<1>. QED
    BY NextCases, <1>1, <1>2, <1>3, <1>4, <1>5, <1>6, <1>7, <1>8, <1>9, <1>10, <1>11, <1>12,
     <1>13, <1>14, <1>15, <1>16, <1>17, <1>18, <1>19, <1>20, <1>21, <1>22, <1>23, <1>24, <1>25

LEMMA AloneStep == ASSUME ~Overlap, TypeInv, AloneInv, [Next]_vars PROVE AloneInv'
<1> USE Names, JobFields DEF AloneInv, Alone, RunnerHasFlow, FlowIsCurrent, Busy, TypeInv,
           Records, Cards, Sets, Links, Course, Becomes, Flowing, Pcs, Phases, Ended, world,
           desk
<1>1. ASSUME NEW j \in Jobs, start(j) PROVE AloneInv'
  <2>1. Becomes(j, "go", job[j].phase, job[j].inst)
    BY <1>1, Effects, Zenon
  <2>2. /\ j \in Rentals /\ job[j].pc = "new"
        /\ task' = j /\ cur' = [of |-> j, shell |-> TRUE]
        /\ UNCHANGED <<up, claim, runner, alive, session, disk, tried>>
    BY <1>1, Zenon DEF start, Asks, world, desk
  <2>3. ~Busy /\ \A k \in Jobs : job[k].pc # "ask"
    BY <1>1, Zenon DEF start, Asks
  <2>. QED
    BY <2>1, <2>2, <2>3
<1>2. ASSUME NEW j \in Jobs, train_on(j) PROVE AloneInv'
  <2>1. Becomes(j, "ask", job[j].phase, job[j].inst)
    BY <1>2, Effects, Zenon
  <2>2. /\ j \in Visits /\ job[j].pc = "new"
        /\ UNCHANGED <<up, task, cur, claim, runner, alive, session, disk, tried>>
    BY <1>2, Zenon DEF train_on, Asks, world, desk
  <2>3. ~Busy /\ \A k \in Jobs : job[k].pc # "ask"
    BY <1>2, Zenon DEF train_on, Asks
  <2>. QED
    BY <2>1, <2>2, <2>3
<1>3. ASSUME NEW j \in Jobs, Answered(j) PROVE AloneInv'
  <2>1. job[j].pc = "ask" /\ UNCHANGED <<up, claim, runner, alive, session, disk, tried>>
    BY <1>3, Zenon DEF Answered, desk
  <2>2. \/ /\ Becomes(j, "go", job[j].phase, TRUE)
            /\ task' = j /\ cur' = [of |-> j, shell |-> FALSE]
         \/ /\ Becomes(j, "done", job[j].phase, job[j].inst)
            /\ UNCHANGED <<task, cur>>
    BY <1>3, AnsweredEffect
  <2>. QED
    BY <2>1, <2>2
<1>4. ASSUME NEW j \in Jobs, Go(j) PROVE AloneInv'
  <2>1. Becomes(j, IF j \in Rentals THEN "creating" ELSE "stack",
                   IF j \in Rentals THEN "creating" ELSE "ssh_wait", job[j].inst)
    BY <1>4, Effects, Zenon
  <2>2. /\ job[j].pc = "go"
        /\ Remember(j, IF j \in Rentals THEN "creating" ELSE "ssh_wait", job[j].inst)
        /\ UNCHANGED <<up, task, runner, alive, session, disk, tried>>
    BY <1>4, Zenon DEF Go, world, desk
  <2>. QED
    BY <2>1, <2>2 DEF Remember
<1>5. ASSUME NEW j \in Jobs, Made(j) PROVE AloneInv'
  <2>1. Becomes(j, "created", job[j].phase, job[j].inst)
    BY <1>5, Effects, Zenon
  <2>2. /\ job[j].pc = "creating" /\ alive' = alive \cup {j}
        /\ UNCHANGED <<up, task, cur, claim, runner, session, disk, tried>>
    BY <1>5, Zenon DEF Made, world, desk
  <2>. QED
    BY <2>1, <2>2
<1>6. ASSUME NEW j \in Jobs, Created(j) PROVE AloneInv'
  <2>1. Becomes(j, "ssh", "ssh_wait", TRUE)
    BY <1>6, Effects, Zenon
  <2>2. /\ job[j].pc = "created" /\ Remember(j, "ssh_wait", TRUE)
        /\ UNCHANGED <<up, task, runner, alive, session, disk, tried>>
    BY <1>6, Zenon DEF Created, world, desk
  <2>. QED
    BY <2>1, <2>2 DEF Remember
<1>7. ASSUME NEW j \in Jobs, SshOpens(j) PROVE AloneInv'
  <2>1. Becomes(j, "stack", job[j].phase, job[j].inst)
    BY <1>7, Effects, Zenon
  <2>2. /\ job[j].pc = "ssh" /\ j \in alive
        /\ UNCHANGED <<up, task, cur, claim, runner, alive, session, disk, tried>>
    BY <1>7, Zenon DEF SshOpens, world, desk
  <2>. QED
    BY <2>1, <2>2
<1>8. ASSUME NEW j \in Jobs, Fails(j) PROVE AloneInv'
  <2>1. Becomes(j, "finish", job[j].phase, job[j].inst)
    BY <1>8, Effects, Zenon
  <2>2. /\ job[j].pc \in {"creating", "created", "ssh", "stack", "launching"}
        /\ UNCHANGED <<up, task, cur, claim, runner, alive, session, disk, tried>>
    BY <1>8, Zenon DEF Fails, world, desk
  <2>. QED
    BY <2>1, <2>2
<1>9. ASSUME NEW j \in Jobs, Launch(j) PROVE AloneInv'
  <2>1. Becomes(j, "launching", "training", job[j].inst)
    BY <1>9, Effects, Zenon
  <2>2. /\ job[j].pc = "stack" /\ runner' = j /\ claim' = None
        /\ cur' = [of |-> j, shell |-> FALSE]
        /\ UNCHANGED <<up, task, alive, session, disk, tried>>
    BY <1>9, Zenon DEF Launch, world, desk
  <2>. QED
    BY <2>1, <2>2
<1>10. ASSUME NEW j \in Jobs, Train(j) PROVE AloneInv'
  <2>1. Becomes(j, "training", job[j].phase, job[j].inst)
    BY <1>10, Effects, Zenon
  <2>2. /\ job[j].pc = "launching" /\ Machine(j) \in alive
        /\ session' = session \cup {j} /\ Remember(j, job[j].phase, TRUE)
        /\ UNCHANGED <<up, task, runner, alive, disk, tried>>
    BY <1>10, Zenon DEF Train, world, desk
  <2>. QED
    BY <2>1, <2>2 DEF Remember
<1>11. ASSUME NEW j \in Jobs, BudgetRunsOut(j) PROVE AloneInv'
  <2>1. Becomes(j, "overdue", job[j].phase, job[j].inst)
    BY <1>11, Effects, Zenon
  <2>2. /\ j \in Rentals /\ job[j].pc = "training"
        /\ UNCHANGED <<up, task, cur, claim, runner, alive, session, disk, tried>>
    BY <1>11, Zenon DEF BudgetRunsOut, world, desk
  <2>. QED
    BY <2>1, <2>2
<1>12. ASSUME NEW j \in Jobs, TrainingOver(j) PROVE AloneInv'
  <2>1. Becomes(j, "retrieve", "retrieving", job[j].inst)
    BY <1>12, Effects, Zenon
  <2>2. /\ job[j].pc \in {"training", "overdue"} /\ session' \subseteq session
        /\ Remember(j, "retrieving", job[j].inst)
        /\ UNCHANGED <<up, task, runner, alive, disk, tried>>
    BY <1>12 DEF TrainingOver, Stopped, world, desk
  <2>. QED
    BY <2>1, <2>2 DEF Remember
<1>13. ASSUME NEW j \in Jobs, Looked(j) PROVE AloneInv'
  <2>1. PICK pc \in {"rescue", IF j \in Rentals THEN "finish" ELSE "pull"} :
             /\ Becomes(j, pc, job[j].phase, job[j].inst)
             /\ pc = "rescue" \/ tried' = tried \cup {j}
    BY <1>13, LookedEffect
  <2>2. /\ job[j].pc = "retrieve" /\ tried \subseteq tried'
        /\ UNCHANGED <<up, task, cur, claim, runner, alive, session, disk>>
    BY <1>13 DEF Looked, desk, world
  <2>. QED
    BY <2>1, <2>2
<1>14. ASSUME NEW j \in Jobs, Rescued(j) PROVE AloneInv'
  <2>1. Becomes(j, AfterRetrieval(j), job[j].phase, job[j].inst)
    BY <1>14, Effects, Zenon
  <2>2. /\ job[j].pc = "rescue" /\ tried' = tried \cup {j}
        /\ UNCHANGED <<up, task, cur, claim, runner, alive, session, disk>>
    BY <1>14, Zenon DEF Rescued, AfterRetrieval, world, desk
  <2>. QED
    BY <2>1, <2>2 DEF AfterRetrieval
<1>15. ASSUME NEW j \in Jobs, Pulled(j) PROVE AloneInv'
  <2>1. Becomes(j, IF j \in Rentals THEN "done" ELSE "finish",
                   job[j].phase, job[j].inst)
    BY <1>15, Effects, Zenon
  <2>2. /\ job[j].pc = "pull"
        /\ UNCHANGED <<up, task, cur, claim, runner, alive, session, disk, tried>>
    BY <1>15, Zenon DEF Pulled, world, desk
  <2>. QED
    BY <2>1, <2>2
<1>16. ASSUME NEW j \in Jobs, Finish(j) PROVE AloneInv'
  <2>1. job[j].pc = "finish" /\ runner' = None /\ UNCHANGED <<up, task, disk, tried>>
    BY <1>16, Zenon DEF Finish, desk
  <2>2. PICK phase \in Ended : /\ Finishes(j, phase) /\ Remember(j, phase, job[j].inst)
                               /\ Becomes(j, IF j \in Rentals THEN "pull" ELSE "done",
                                          phase, job[j].inst)
    BY <1>16, FinishEffect
  <2>3. /\ alive' \subseteq alive /\ session' \subseteq session
        /\ j \in Rentals => phase # "finished"
    BY <2>2 DEF Finishes, Destroy, Ended
  <2>. QED
    BY <2>1, <2>2, <2>3 DEF Remember
<1>17. ASSUME NEW j \in Jobs, Saves(j) PROVE AloneInv'
  BY <1>17 DEF Saves
<1>18. ASSUME NEW j \in Jobs, SessionEnds(j) PROVE AloneInv'
  BY <1>18 DEF SessionEnds
<1>19. CASE StopAsked
  BY <1>19 DEF StopAsked, Stopped
<1>20. CASE StopWaited
  BY <1>20 DEF StopWaited, Returned
<1>21. CASE StopFinishes
  <2>1. UNCHANGED <<up, task, cur, claim, runner, alive, session, disk, tried>>
    BY <1>21, Zenon DEF StopFinishes, world, desk
  <2>. QED
    BY <1>21, <2>1, StopEffect
<1>22. CASE StopDestroys
  BY <1>22, StopEffect DEF StopDestroys, Returned, Destroy
<1>23. CASE Crash
  BY <1>23, CrashEffect DEF Crash
<1>24. ASSUME NEW m \in alive, ByHand(m) PROVE AloneInv'
  BY <1>24 DEF ByHand
<1>25. CASE StateRead \/ Scan \/ TrainHere \/ Boot \/ UNCHANGED vars
  BY <1>25 DEF StateRead, Scan, TrainHere, Boot, vars, Report
<1>. QED
    BY NextCases, <1>1, <1>2, <1>3, <1>4, <1>5, <1>6, <1>7, <1>8, <1>9, <1>10, <1>11, <1>12,
     <1>13, <1>14, <1>15, <1>16, <1>17, <1>18, <1>19, <1>20, <1>21, <1>22, <1>23, <1>24, <1>25

LEMMA RetState ==
    ASSUME ret \in RetRec, NEW state, ret' = [ret EXCEPT !.state = state]
    PROVE  ret'.state = state /\ ret'.of = ret.of
  BY DEF RetRec

LEMMA RetrievalStep ==
    ASSUME ~Overlap, TypeInv, AloneInv, RetrievalKnows, [Next]_vars
    PROVE  RetrievalKnows'
<1> USE Names, JobFields, Fields DEF RetrievalKnows, TypeInv, Records, Cards, Becomes
<1>1. ASSUME NEW j \in Jobs, start(j) PROVE RetrievalKnows'
  <2>1. Becomes(j, "go", job[j].phase, job[j].inst)
    BY <1>1, Effects, Zenon
  <2>2. ret'.state = "idle" /\ ~hub'.since /\ ~Busy
    BY <1>1 DEF start, Asks
  <2>3. \A k \in Jobs : job[k].pc # "rescue"
    BY <2>2 DEF AloneInv, Alone, Busy, Flowing
  <2>. QED
    BY <2>1, <2>2, <2>3
<1>2. ASSUME NEW j \in Jobs, train_on(j) PROVE RetrievalKnows'
  <2>1. Becomes(j, "ask", job[j].phase, job[j].inst)
    BY <1>2, Effects, Zenon
  <2>2. ret'.state = "idle" /\ ~hub'.since /\ ~Busy
    BY <1>2 DEF train_on, Asks
  <2>3. \A k \in Jobs : job[k].pc # "rescue"
    BY <2>2 DEF AloneInv, Alone, Busy, Flowing
  <2>. QED
    BY <2>1, <2>2, <2>3
<1>3. ASSUME NEW j \in Jobs, Answered(j) PROVE RetrievalKnows'
  <2>1. UNCHANGED <<hub, ret>>
    BY <1>3, Zenon DEF Answered
  <2>2. \/ Becomes(j, "go", job[j].phase, TRUE)
        \/ Becomes(j, "done", job[j].phase, job[j].inst)
    BY <1>3, Effects, Zenon
  <2>. QED
    BY <2>1, <2>2
<1>4. ASSUME NEW j \in Jobs, Go(j) PROVE RetrievalKnows'
  <2>1. UNCHANGED <<hub, ret>>
    BY <1>4, Zenon DEF Go, world
  <2>2. Becomes(j, IF j \in Rentals THEN "creating" ELSE "stack",
                   IF j \in Rentals THEN "creating" ELSE "ssh_wait", job[j].inst)
    BY <1>4, Effects, Zenon
  <2>. QED
    BY <2>1, <2>2
<1>5. ASSUME NEW j \in Jobs, Made(j) PROVE RetrievalKnows'
  <2>1. UNCHANGED <<hub, ret>>
    BY <1>5, Zenon DEF Made, world
  <2>2. Becomes(j, "created", job[j].phase, job[j].inst)
    BY <1>5, Effects, Zenon
  <2>. QED
    BY <2>1, <2>2
<1>6. ASSUME NEW j \in Jobs, Created(j) PROVE RetrievalKnows'
  <2>1. UNCHANGED <<hub, ret>>
    BY <1>6, Zenon DEF Created, world
  <2>2. Becomes(j, "ssh", "ssh_wait", TRUE)
    BY <1>6, Effects, Zenon
  <2>. QED
    BY <2>1, <2>2
<1>7. ASSUME NEW j \in Jobs, SshOpens(j) PROVE RetrievalKnows'
  <2>1. UNCHANGED <<hub, ret>>
    BY <1>7, Zenon DEF SshOpens, world
  <2>2. Becomes(j, "stack", job[j].phase, job[j].inst)
    BY <1>7, Effects, Zenon
  <2>. QED
    BY <2>1, <2>2
<1>8. ASSUME NEW j \in Jobs, Fails(j) PROVE RetrievalKnows'
  <2>1. UNCHANGED <<hub, ret>>
    BY <1>8, Zenon DEF Fails, world
  <2>2. Becomes(j, "finish", job[j].phase, job[j].inst)
    BY <1>8, Effects, Zenon
  <2>. QED
    BY <2>1, <2>2
<1>9. ASSUME NEW j \in Jobs, Launch(j) PROVE RetrievalKnows'
  <2>1. UNCHANGED <<hub, ret>>
    BY <1>9, Zenon DEF Launch, world
  <2>2. Becomes(j, "launching", "training", job[j].inst)
    BY <1>9, Effects, Zenon
  <2>. QED
    BY <2>1, <2>2
<1>10. ASSUME NEW j \in Jobs, Train(j) PROVE RetrievalKnows'
  <2>1. UNCHANGED <<hub, ret>>
    BY <1>10, Zenon DEF Train, world
  <2>2. Becomes(j, "training", job[j].phase, job[j].inst)
    BY <1>10, Effects, Zenon
  <2>. QED
    BY <2>1, <2>2
<1>11. ASSUME NEW j \in Jobs, BudgetRunsOut(j) PROVE RetrievalKnows'
  <2>1. UNCHANGED <<hub, ret>>
    BY <1>11, Zenon DEF BudgetRunsOut, world
  <2>2. Becomes(j, "overdue", job[j].phase, job[j].inst)
    BY <1>11, Effects, Zenon
  <2>. QED
    BY <2>1, <2>2
<1>12. ASSUME NEW j \in Jobs, TrainingOver(j) PROVE RetrievalKnows'
  <2>1. UNCHANGED <<hub, ret>>
    BY <1>12, Zenon DEF TrainingOver, world
  <2>2. Becomes(j, "retrieve", "retrieving", job[j].inst)
    BY <1>12, Effects, Zenon
  <2>. QED
    BY <2>1, <2>2
<1>13. ASSUME NEW j \in Jobs, Looked(j) PROVE RetrievalKnows'
  <2>1. /\ hub' = hub /\ ret'.of = j
        /\ ret'.state = "rescuing" \/ hub.since
    BY <1>13 DEF Looked, world
  <2>2. \A k \in Jobs \ {j} : job[k].pc # "rescue"
    BY <1>13 DEF Looked, AloneInv, Alone, Flowing
  <2>. QED
    BY <1>13, <2>1, <2>2, LookedEffect
<1>14. ASSUME NEW j \in Jobs, Rescued(j) PROVE RetrievalKnows'
  <2>1. /\ hub' = hub /\ ret'.of = ret.of
        /\ ret'.state = "waiting" => ret.state = "waiting"
    BY <1>14, RetState DEF Rescued, world
  <2>2. Becomes(j, AfterRetrieval(j), job[j].phase, job[j].inst)
    BY <1>14, Effects, Zenon
  <2>. QED
    BY <2>1, <2>2 DEF AfterRetrieval
<1>15. ASSUME NEW j \in Jobs, Pulled(j) PROVE RetrievalKnows'
  <2>1. /\ hub' = hub /\ ret'.of = ret.of
        /\ ret'.state = "waiting" => ret.state = "waiting"
    BY <1>15, RetState DEF Pulled, world
  <2>2. Becomes(j, IF j \in Rentals THEN "done" ELSE "finish", job[j].phase, job[j].inst)
    BY <1>15, Effects, Zenon
  <2>. QED
    BY <2>1, <2>2
<1>16. ASSUME NEW j \in Jobs, Finish(j) PROVE RetrievalKnows'
  <2>1. UNCHANGED <<hub, ret>>
    BY <1>16, Zenon DEF Finish
  <2>. QED
    BY <1>16, <2>1, FinishEffect
<1>17. ASSUME NEW j \in Jobs, Saves(j) PROVE RetrievalKnows'
  BY <1>17 DEF Saves
<1>18. ASSUME NEW j \in Jobs, SessionEnds(j) PROVE RetrievalKnows'
  BY <1>18 DEF SessionEnds
<1>19. CASE StopAsked
  BY <1>19 DEF StopAsked
<1>20. CASE StopWaited
  BY <1>20 DEF StopWaited, world
<1>21. CASE StopFinishes
  <2>1. UNCHANGED <<hub, ret>>
    BY <1>21, Zenon DEF StopFinishes, world
  <2>. QED
    BY <1>21, <2>1, StopEffect DEF Links
<1>22. CASE StopDestroys
  <2>1. UNCHANGED <<hub, ret>>
    BY <1>22, Zenon DEF StopDestroys
  <2>. QED
    BY <1>22, <2>1, StopEffect DEF Links
<1>23. CASE Crash
  BY <1>23, CrashEffect DEF Crash, Flowing
<1>24. ASSUME NEW m \in alive, ByHand(m) PROVE RetrievalKnows'
  BY <1>24 DEF ByHand
<1>25. CASE StateRead \/ Scan \/ TrainHere \/ Boot \/ UNCHANGED vars
  BY <1>25 DEF StateRead, Scan, TrainHere, Boot, vars, world, desk
<1>. QED
  BY NextCases, <1>1, <1>2, <1>3, <1>4, <1>5, <1>6, <1>7, <1>8, <1>9, <1>10, <1>11, <1>12,
     <1>13, <1>14, <1>15, <1>16, <1>17, <1>18, <1>19, <1>20, <1>21, <1>22, <1>23, <1>24, <1>25

-----------------------------------------------------------------------------
(* The theorems *)

LEMMA RentStarts == Init => RentInv /\ AloneInv
<1> SUFFICES ASSUME Init PROVE RentInv /\ AloneInv
  OBVIOUS
<1> USE DEF Init
<1>1. Records
  <2>1. Fresh \in JobRec
    BY Zenon DEF Fresh, JobRec, Pcs, Phases
  <2>2. job \in [Jobs -> JobRec]
    BY <2>1
  <2>3. cur \in CurRec /\ stop \in StopRec /\ hub \in HubRec /\ ret \in RetRec
    BY Zenon DEF CurRec, StopRec, HubRec, RetRec, NoOne
  <2>. QED
    BY <2>2, <2>3 DEF Records, Cards
<1>2. \A j \in Jobs : job[j].pc = "new" /\ job[j].phase = "searching"
  BY DEF Fresh
<1>3. Switches
  BY Zenon DEF Switches
<1>4. Sets
  BY BoundAssumption DEF Sets
<1>5. SessionHasMachine /\ HubHasSome /\ StopKnows
  BY DEF SessionHasMachine, HubHasSome, StopKnows
<1>6. Course
  BY <1>2, Names DEF Course
<1>7. WeightsSought /\ ClaimHasFlow
  BY <1>2, Names DEF WeightsSought, ClaimHasFlow
<1>8. AloneInv
  BY <1>2, Names DEF AloneInv, Alone, RunnerHasFlow, FlowIsCurrent, Flowing
<1>. QED
  BY <1>1, <1>3, <1>4, <1>5, <1>6, <1>7, <1>8 DEF RentInv, Rented, TypeInv, Links

LEMMA RentStep == ASSUME RentInv, [Next]_vars PROVE RentInv'
  BY JobStep, RecordsStep, SwitchesStep, SetsStep, LinksStep, SessionStep, RentedStep,
     Zenon DEF RentInv, Rented, TypeInv, Links, Records

LEMMA AllRent == Spec => []RentInv
  BY RentStarts, RentStep, PTL DEF Spec

LEMMA AllAlone == ASSUME ~Overlap PROVE Spec => [](RentInv /\ AloneInv)
<1>1. ASSUME RentInv, AloneInv, [Next]_vars PROVE AloneInv'
  BY <1>1, AloneStep DEF RentInv
<1>. QED
  BY RentStarts, RentStep, <1>1, PTL DEF Spec

\* Every variable keeps its type, a flow that waits for its machine has one in
\* its CloudJob, and a training session is on a machine that lives.
THEOREM TypeCorrect == Spec => []TypeOK
<1>1. ASSUME RentInv PROVE TypeOK
  <2> USE <1>1 DEF RentInv, Rented, TypeInv
  <2>1. JobRec = [pc : Flowing \cup {"new", "ask", "done", "dead"}, phase : Phases, inst : BOOLEAN]
    <3>1. Pcs = Flowing \cup {"new", "ask", "done", "dead"}
      BY DEF Pcs, Flowing
    <3>. QED
      BY <3>1, Zenon DEF JobRec
  <2>2. {task, runner, cur.of, stop.of, ret.of} \subseteq Jobs \cup {None}
    BY Fields DEF Sets
  <2>3. runs \cup session \cup disk \cup got \cup tried \cup orphans \subseteq Jobs
    BY DEF Sets
  <2>4. \A j \in Jobs : job[j].pc \in {"ssh", "stack", "launching", "training"} => job[j].inst
    BY DEF Course
  <2>. QED
    BY <2>1, <2>2, <2>3, <2>4, Zenon DEF Records, Cards, Sets, Switches, SessionHasMachine, TypeOK
<1>. QED
  BY AllRent, <1>1, PTL

\* After every rental that has ended, with or without a training, the runner is
\* the one of the settings again, as long as no request overtakes train_on.
THEOREM RunnerIsReturned == ASSUME ~Overlap PROVE Spec => []RunnerReturns
<1>1. RentInv /\ AloneInv => RunnerReturns
  BY Names DEF RentInv, Rented, TypeInv, Sets, AloneInv, Alone, RunnerHasFlow, RunnerReturns, Busy
<1>. QED
  BY AllAlone, <1>1, PTL

\* A scan tells of every rented machine that nobody will destroy (whatever
\* overtakes what): the record claims only what a flow will destroy.
THEOREM ScanTellsOfAll == Spec => []ScanTellsAll
<1>1. ASSUME RentInv, up, NEW m \in alive \cap Jobs, ~Managed(m), ~LastLost(m) PROVE m \notin Known
  <2>1. m # claim
    BY <1>1 DEF RentInv, Rented, ClaimHasFlow
  <2>2. cur.of \in Jobs \cup {None} /\ m \in Rentals
    BY <1>1, Fields DEF RentInv, Rented, TypeInv, Course
  <2>3. cur.of # None /\ ~cur.shell /\ job[cur.of].inst => Machine(cur.of) # m
    BY <1>1, <2>2, Names DEF LastLost
  <2>. QED
    BY <2>1, <2>3 DEF Known
<1>2. RentInv => ScanTellsAll
  BY <1>1 DEF ScanTellsAll, Report
<1>. QED
  BY AllRent, <1>2, PTL

\* And of nothing else: while a flow runs, the job in memory is its own.
THEOREM ScanReportsExactly == ASSUME ~Overlap PROVE Spec => []ScanIsExact
<1>1. RentInv /\ AloneInv => NoFalseAlarm
  BY Names DEF RentInv, Rented, TypeInv, Course, AloneInv, FlowIsCurrent, NoFalseAlarm, Report,
               Known, Managed, Flowing
<1>2. RentInv /\ AloneInv /\ ScanTellsAll => ScanIsExact
  BY <1>1 DEF ScanIsExact
<1>. QED
  BY AllAlone, ScanTellsOfAll, <1>2, PTL

\* The finally of a rental destroys a machine with weights on its disk only
\* after the retrieval has looked for them.
THEOREM WeightsAreSought == Spec => SoughtBeforeDestroyed
<1>1. RentInv => [\A j \in Jobs :
                      Finish(j) /\ j \in alive \ alive' /\ j \in disk => j \in tried]_vars
  BY DEF RentInv, Rented, WeightsSought, Finish
<1>. QED
  BY AllRent, <1>1, PTL DEF SoughtBeforeDestroyed

\* As long as no request overtakes train_on: a retrieval that says "done" has the weights
\* of its run at home, on the Hub or on a live machine, unless another run pushed last.
THEOREM DoneHasTheWeights == ASSUME ~Overlap PROVE Spec => DoneLosesNothing
<1> DEFINE Says == ret'.state = "done" /\ ret.state # "done"
           Safe == LET j == ret'.of IN
                   j \in disk => \/ j \in got' \cup hub.by
                                 \/ Machine(j) \in alive
                                 \/ hub.since /\ hub.last # j
<1>1. ASSUME RentInv, AloneInv, RetrievalKnows, [Next]_vars, Says PROVE Safe
  <2>1. ASSUME NEW j \in Jobs, Rescued(j) PROVE Safe
    <3>1. ret \in RetRec /\ job[j].pc = "rescue"
      BY <1>1, <2>1, Zenon DEF Rescued, RentInv, TypeInv, Records, Cards
    <3>2. ret'.of = j
      BY <1>1, <2>1, <3>1, RetState DEF Rescued, RetrievalKnows
    <3>3. Machine(j) \in alive
      BY <1>1, <2>1, <3>1, RetState DEF Rescued
    <3>. QED
      BY <3>2, <3>3
  <2>2. ASSUME NEW j \in Jobs, Pulled(j) PROVE Safe
    <3>1. ret.state = "waiting"
      BY <1>1, <2>2 DEF Pulled
    <3>. QED
      BY <3>1, <1>1 DEF RetrievalKnows
  <2>3. ASSUME NEW j \in Jobs, \/ start(j) \/ train_on(j) \/ Answered(j) \/ Go(j) \/ Made(j)
                               \/ Created(j) \/ SshOpens(j) \/ Fails(j) \/ Launch(j) \/ Train(j)
                               \/ BudgetRunsOut(j) \/ TrainingOver(j) \/ Looked(j) \/ Finish(j)
                               \/ Saves(j) \/ SessionEnds(j)
        PROVE  ret' = ret \/ ret'.state \in {"idle", "waiting", "rescuing"}
    <3>1. start(j) \/ train_on(j) => ret'.state = "idle"
      BY DEF start, train_on, Asks
    <3>2. Looked(j) => ret'.state \in {"waiting", "rescuing"}
      BY DEF Looked
    <3>. QED
      BY <2>3, <3>1, <3>2, Zenon DEF Answered, Go, Made, Created, SshOpens, Fails, Launch,
         Train, BudgetRunsOut, TrainingOver, Finish, Saves, SessionEnds
  <2>4. ASSUME \/ StateRead \/ StopAsked \/ StopWaited \/ StopFinishes \/ StopDestroys
               \/ Scan \/ Crash \/ Boot \/ TrainHere \/ UNCHANGED vars
               \/ \E m \in alive : ByHand(m)
        PROVE  ret' = ret \/ ret'.state = "idle"
    BY <2>4 DEF StateRead, StopAsked, StopWaited, StopFinishes, StopDestroys, Scan, Crash, Boot,
                TrainHere, vars, ByHand
  <2>. QED
    BY <1>1, <2>1, <2>2, <2>3, <2>4, NextCases
<1>2. Init => RetrievalKnows
  BY Names DEF Init, Fresh, RetrievalKnows
<1>3. ASSUME RentInv, AloneInv, RetrievalKnows, [Next]_vars PROVE AloneInv' /\ RetrievalKnows'
  BY <1>3, AloneStep, RetrievalStep DEF RentInv
<1>4. RentInv /\ AloneInv /\ RetrievalKnows /\ [Next]_vars => [Says => Safe]_vars
  BY <1>1
<1>. QED
  BY RentStarts, RentStep, <1>2, <1>3, <1>4, PTL DEF Spec, DoneLosesNothing

=============================================================================
