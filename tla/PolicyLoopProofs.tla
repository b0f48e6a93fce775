-------------------------- MODULE PolicyLoopProofs --------------------------
(***************************************************************************)
(* Types, BuffersAreCurrent and FeedFollowsQueue of PolicyLoop, for any    *)
(* set of policies, any length of a chunk and any number of messages.      *)
(*                                                                         *)
(* The main loop takes the observation back and then looks at the flag;    *)
(* the thread raises the flag and then looks for the observation.  So from *)
(* the moment the loop has found the flag down until the switch is done,   *)
(* the thread finds nothing to work on: that is NobodyComputes.            *)
(***************************************************************************)
EXTENDS PolicyLoop, TLAPS

Switching == pc \in {"flight", "clear", "model", "processing", "done"}
Swapping == pc \in {"clear", "model", "processing", "done"}
Working == ipc \in {"gen", "prepare", "predict", "post", "store", "leave"}

FlagTells == Working \/ ipc = "read" => inFlight
TakenBack == Switching => obs = NoObs /\ want \in Policies
NobodyComputes == Swapping => ~Working
MidSwap == pc = "processing" => model = want
EmptyBefore == pc = "model" => queue = NoQueue /\ feed = NoFeed /\ ens = {}
JobsAreOfNow == ~Working => job.used = {} /\ job.obs.rtc = None

PolicyInv ==
    /\ TypeOK /\ BuffersAreCurrent
    /\ FlagTells /\ TakenBack /\ NobodyComputes /\ MidSwap /\ EmptyBefore /\ JobsAreOfNow

-----------------------------------------------------------------------------
(* Records and counters *)

LEMMA Zero == 0 \in Steps
  BY LoopAssumption DEF Steps

LEMMA LaterInSteps == ASSUME NEW n \in Steps PROVE Later(n) \in Steps
  BY LoopAssumption DEF Steps, Later

LEMMA EmptyRecords ==
    NoObs \in Observation /\ NoJob \in Job /\ NoQueue \in Queue /\ NoFeed \in Feed
  BY Zero, LoopAssumption, Zenon
  DEF NoObs, Observation, NoJob, Job, NoQueue, Queue, NoFeed, Feed, Optional

\* What _ensembler.clear does to what was observed before it.
LEMMA ObsEpochOver ==
    ASSUME NEW o \in Observation PROVE [o EXCEPT !.epoch = FALSE] \in Observation
  BY Zenon DEF Observation

LEMMA JobEpochOver ==
    ASSUME NEW j \in Job PROVE [j EXCEPT !.obs.epoch = FALSE] \in Job
  BY Zenon DEF Observation, Job

\* One action less of a queue and of its raw chunk.
LEMMA QueueTaken ==
    ASSUME NEW q \in Queue, q.n > 0, q.n + q.at \in Steps
    PROVE  /\ Taken(q) \in Queue
           /\ Taken(q).n + Taken(q).at \in Steps
           /\ Taken(q).n > 0 => Taken(q).gen = q.gen
           /\ Taken(q).by \in {q.by, None}
<1>1. q.n - 1 \in Steps /\ q.at + 1 \in Steps
  BY LoopAssumption DEF Queue, Steps
<1>2. [q EXCEPT !.n = q.n - 1, !.at = q.at + 1] \in Queue
  BY <1>1, Zenon DEF Queue
<1>3. CASE q.n = 1
  BY <1>3, EmptyRecords, Zero DEF Taken, NoQueue
<1>4. CASE q.n # 1
  BY <1>2, <1>4 DEF Taken, Queue, Steps
<1>. QED
  BY <1>3, <1>4

LEMMA RawTaken ==
    ASSUME NEW f \in Feed, f.n + f.at \in Steps
    PROVE  /\ FeedTaken(f) \in Feed
           /\ FeedTaken(f).n + FeedTaken(f).at \in Steps
           /\ FeedTaken(f).by \in {f.by, None}
           /\ FeedTaken(f).last \in {f.by, f.last}
<1>1. CASE f.n = 0
  BY <1>1 DEF FeedTaken
<1>2. CASE f.n = 1
  BY <1>2, LoopAssumption DEF FeedTaken, Feed, NoFeed, Steps, Optional
<1>3. CASE f.n > 1
  <2>1. f.n - 1 \in Steps /\ f.at + 1 \in Steps
    BY <1>3, LoopAssumption DEF Feed, Steps
  <2>2. FeedTaken(f) = [f EXCEPT !.n = f.n - 1, !.at = f.at + 1, !.last = f.by]
    BY <1>3 DEF FeedTaken
  <2>3. [f EXCEPT !.n = f.n - 1, !.at = f.at + 1, !.last = f.by] \in Feed
    BY <2>1, Zenon DEF Feed
  <2>. QED
    BY <2>2, <2>3 DEF Feed, Steps
<1>. QED
  BY <1>1, <1>2, <1>3 DEF Feed, Steps

\* With an empty queue nothing changes, else both lose their first action.
LEMMA PopTakes ==
    ASSUME PolicyInv, PopQueue
    PROVE  \/ queue.n = 0 /\ queue' = queue /\ feed' = feed
           \/ queue.n > 0 /\ queue' = Taken(queue) /\ feed' = FeedTaken(feed)
<1>1. queue.n \in Nat
  BY LoopAssumption DEF PolicyInv, TypeOK, Records, Queue, Steps
<1>2. CASE queue.n = 0
  BY <1>2 DEF PopQueue
<1>3. CASE queue.n # 0
  <2>1. queue.n > 0
    BY <1>1, <1>3
  <2>. QED
    BY <1>3, <2>1, Zenon DEF PopQueue
<1>. QED
  BY <1>2, <1>3

-----------------------------------------------------------------------------
(* The invariant *)

LEMMA InvInit == Init => PolicyInv
<1> SUFFICES ASSUME Init PROVE PolicyInv
  OBVIOUS
<1>1. Flags
  BY Zenon DEF Init, Flags
<1>2. Records
  BY EmptyRecords, LoopAssumption, Zenon DEF Init, Records, Switch, Optional
<1>3. Places
  BY LoopAssumption DEF Init, Places, Steps, Optional
<1>4. BuffersAreCurrent
  BY DEF Init, BuffersAreCurrent, OnePolicy, NothingOutdated, NoObs, NoJob, NoQueue, NoFeed
<1>. QED
  BY <1>1, <1>2, <1>3, <1>4, Zero
  DEF Init, NoJob, NoObs, NoQueue, NoFeed, PolicyInv, TypeOK, FlagTells, TakenBack,
      NobodyComputes, MidSwap, EmptyBefore, JobsAreOfNow, Swapping, Switching, Working

\* Flags keep their type.
LEMMA FlagsStep == ASSUME PolicyInv, [Next]_vars PROVE Flags'
<1> USE DEF PolicyInv, TypeOK, Flags, vars, listener, parts, local, buffers, thread
<1>1. ASSUME LookForSwitch PROVE Flags'
  BY <1>1, Zenon DEF LookForSwitch
<1>2. ASSUME LookForInference PROVE Flags'
  BY <1>2, Zenon DEF LookForInference
<1>3. ASSUME ClearForSwitch PROVE Flags'
  BY <1>3, Zenon DEF ClearForSwitch, At
<1>4. ASSUME AssignModel PROVE Flags'
  BY <1>4, Zenon DEF AssignModel, At
<1>5. ASSUME AssignProcessing PROVE Flags'
  BY <1>5, Zenon DEF AssignProcessing, At
<1>6. ASSUME SwitchDone PROVE Flags'
  BY <1>6, Zenon DEF SwitchDone, At
<1>7. ASSUME NoReset PROVE Flags'
  BY <1>7, Zenon DEF NoReset, At
<1>8. ASSUME BeginReset PROVE Flags'
  BY <1>8, Zenon DEF BeginReset, At
<1>9. ASSUME Wipe PROVE Flags'
  BY <1>9, Zenon DEF Wipe, At
<1>10. ASSUME Homed PROVE Flags'
  BY <1>10, Zenon DEF Homed, At
<1>11. ASSUME StayPaused PROVE Flags'
  BY <1>11, Zenon DEF StayPaused, At, ForgetPredictions
<1>12. ASSUME NotPaused PROVE Flags'
  BY <1>12, Zenon DEF NotPaused, At
<1>13. ASSUME FollowMode PROVE Flags'
  BY <1>13, Zenon DEF FollowMode, At, ForgetPredictions
<1>14. ASSUME FirstTrigger PROVE Flags'
  BY <1>14, Zenon DEF FirstTrigger, At, Seen
<1>15. ASSUME PopHeld PROVE Flags'
  BY <1>15, Zenon DEF PopHeld, At
<1>16. ASSUME PopEnsemble PROVE Flags'
  BY <1>16, Zenon DEF PopEnsemble, At
<1>17. ASSUME PopQueue PROVE Flags'
  BY <1>17, Zenon DEF PopQueue, At, Taken, FeedTaken
<1>18. ASSUME Trigger PROVE Flags'
  BY <1>18, Zenon DEF Trigger, At, MayTrigger
<1>19. ASSUME NoTrigger PROVE Flags'
  BY <1>19, Zenon DEF NoTrigger, At
<1>20. ASSUME Take PROVE Flags'
  BY <1>20, Zenon DEF Take, At, Seen
<1>21. ASSUME EndStep PROVE Flags'
  BY <1>21, Zenon DEF EndStep, At, Later
<1>22. ASSUME Wake PROVE Flags'
  BY <1>22, Zenon DEF Wake, IAt, ThreadOnly
<1>23. ASSUME TakeEvent PROVE Flags'
  BY <1>23, Zenon DEF TakeEvent, IAt, ThreadOnly
<1>24. ASSUME RaiseFlag PROVE Flags'
  BY <1>24, Zenon DEF RaiseFlag, IAt, ThreadOnly
<1>25. ASSUME NothingToDo PROVE Flags'
  BY <1>25, Zenon DEF NothingToDo, IAt, ThreadOnly
<1>26. ASSUME ReadObservation PROVE Flags'
  BY <1>26, Zenon DEF ReadObservation, IAt, ThreadOnly
<1>27. ASSUME CaptureGeneration PROVE Flags'
  BY <1>27, Zenon DEF CaptureGeneration, IAt, ThreadOnly
<1>28. ASSUME Prepare PROVE Flags'
  BY <1>28, Zenon DEF Prepare, IAt, ThreadOnly
<1>29. ASSUME Predict PROVE Flags'
  BY <1>29, Zenon DEF Predict, IAt, ThreadOnly
<1>30. ASSUME Postprocess PROVE Flags'
  BY <1>30, Zenon DEF Postprocess, IAt, ThreadOnly
<1>31. ASSUME Fails PROVE Flags'
  BY <1>31, Zenon DEF Fails, ThreadOnly
<1>32. ASSUME Discard PROVE Flags'
  BY <1>32, Zenon DEF Discard, IAt, ThreadOnly
<1>33. ASSUME StoreInEnsemble PROVE Flags'
  BY <1>33, Zenon DEF StoreInEnsemble, IAt, ThreadOnly, Predictions
<1>34. ASSUME NEW merging \in BOOLEAN, StoreInQueue(merging) PROVE Flags'
  BY <1>34, Zenon DEF StoreInQueue, IAt, ThreadOnly, NewQueue, Raw, Elapsed
<1>35. ASSUME Leave PROVE Flags'
  BY <1>35, Zenon DEF Leave, IAt, ThreadOnly
<1>36. ASSUME Reset PROVE Flags'
  BY <1>36, Zenon DEF Reset, Message, ListenerOnly
<1>37. ASSUME NEW on \in BOOLEAN, Pause(on) PROVE Flags'
  BY <1>37, Zenon DEF Pause, Message, ListenerOnly
<1>38. ASSUME NEW on \in BOOLEAN, Ensemble(on) PROVE Flags'
  BY <1>38, Zenon DEF Ensemble, Message, ListenerOnly
<1>39. ASSUME NEW on \in BOOLEAN, Hold(on) PROVE Flags'
  BY <1>39, Zenon DEF Hold, Message, ListenerOnly
<1>40. ASSUME NEW p \in Policies, UsePolicy(p) PROVE Flags'
  BY <1>40, Zenon DEF UsePolicy, Message, ListenerOnly
<1>41. CASE UNCHANGED vars
  BY <1>41, Zenon
<1>. QED
  BY <1>1, <1>2, <1>3, <1>4, <1>5, <1>6, <1>7, <1>8, <1>9, <1>10, <1>11, <1>12, <1>13, <1>14,
     <1>15, <1>16, <1>17, <1>18, <1>19, <1>20, <1>21, <1>22, <1>23, <1>24, <1>25, <1>26, <1>27,
     <1>28, <1>29, <1>30, <1>31, <1>32, <1>33, <1>34, <1>35, <1>36, <1>37, <1>38, <1>39, <1>40,
     <1>41 DEF Next, MainLoop, InferenceThread

LEMMA RecordsStep == ASSUME PolicyInv, [Next]_vars PROVE Records'
<1> USE LoopAssumption
    DEF PolicyInv, TypeOK, Records, vars, listener, parts, local, buffers, thread, ThreadOnly,
        ListenerOnly
<1>1. ASSUME LookForSwitch PROVE Records'
  <2>1. obs' \in Observation
    <3>1. obs' \in {obs, NoObs}
      BY <1>1 DEF LookForSwitch
    <3>. QED
      BY <3>1, EmptyRecords
  <2>. QED
    BY <1>1, <2>1 DEF LookForSwitch
<1>2. ASSUME LookForInference PROVE Records'
  BY <1>2 DEF LookForInference
<1>3. ASSUME ClearForSwitch PROVE Records'
  <2>1. job' \in Job
    BY <1>3, Zero, Zenon DEF ClearForSwitch, At, Job, NoJob, NoObs, Observation, Optional
  <2>2. queue' \in Queue
    BY <1>3, EmptyRecords DEF ClearForSwitch, At
  <2>3. feed' \in Feed
    BY <1>3, EmptyRecords DEF ClearForSwitch, At
  <2>4. ens' \subseteq Prediction
    BY <1>3 DEF ClearForSwitch, At, Prediction, Steps
  <2>. QED
    BY <1>3, <2>1, <2>2, <2>3, <2>4 DEF ClearForSwitch
<1>4. ASSUME AssignModel PROVE Records'
  BY <1>4 DEF AssignModel, At
<1>5. ASSUME AssignProcessing PROVE Records'
  BY <1>5 DEF AssignProcessing, At
<1>6. ASSUME SwitchDone PROVE Records'
  <2>1. switch' \in Switch
    <3>1. want \in Policies
      BY <1>6 DEF PolicyInv, TakenBack, Switching, SwitchDone, At
    <3>2. CASE switch.pending = want
      BY <1>6, <3>1, <3>2, Zenon DEF SwitchDone, Switch, Optional
    <3>3. CASE switch.pending # want
      BY <1>6, <3>1, <3>3, Zenon DEF SwitchDone, Switch, Optional
    <3>. QED
      BY <3>2, <3>3
  <2>. QED
    BY <1>6, <2>1 DEF SwitchDone
<1>7. ASSUME NoReset PROVE Records'
  BY <1>7 DEF NoReset, At
<1>8. ASSUME BeginReset PROVE Records'
  <2>1. job' \in Job
    BY <1>8, Zero, Zenon DEF BeginReset, At, Job, NoJob, NoObs, Observation, Optional
  <2>2. obs' \in Observation
    BY <1>8, Zero, Zenon DEF BeginReset, At, Observation, NoObs, Optional
  <2>3. queue' \in Queue
    BY <1>8, Zero, Zenon DEF BeginReset, At, Queue, NoQueue, Optional
  <2>4. ens' \subseteq Prediction
    BY <1>8 DEF BeginReset, At, Prediction, Steps
  <2>. QED
    BY <1>8, <2>1, <2>2, <2>3, <2>4 DEF BeginReset
<1>9. ASSUME Wipe PROVE Records'
  <2>1. obs' \in Observation
    BY <1>9, Zero, Zenon DEF Wipe, At, Observation, NoObs, Optional
  <2>2. job' \in Job
    BY <1>9, Zero, Zenon DEF Wipe, At, Job, NoJob, NoObs, Observation, Optional
  <2>3. queue' \in Queue
    BY <1>9, EmptyRecords DEF Wipe, At
  <2>4. feed' \in Feed
    BY <1>9, EmptyRecords DEF Wipe, At
  <2>5. ens' \subseteq Prediction
    BY <1>9 DEF Wipe, At, Prediction, Steps
  <2>. QED
    BY <1>9, <2>1, <2>2, <2>3, <2>4, <2>5 DEF Wipe
<1>10. ASSUME Homed PROVE Records'
  BY <1>10 DEF Homed, At
<1>11. ASSUME StayPaused PROVE Records'
  <2>1. ens' \subseteq Prediction
    BY <1>11 DEF StayPaused, At, ForgetPredictions, Prediction, Steps
  <2>2. obs' \in Observation
    <3>1. obs' \in {obs, [obs EXCEPT !.epoch = FALSE]}
      BY <1>11 DEF StayPaused, At, ForgetPredictions
    <3>. QED
      BY <3>1, ObsEpochOver
  <2>3. job' \in Job
    <3>1. job' \in {job, [job EXCEPT !.obs.epoch = FALSE]}
      BY <1>11 DEF StayPaused, At, ForgetPredictions
    <3>. QED
      BY <3>1, JobEpochOver
  <2>. QED
    BY <1>11, <2>1, <2>2, <2>3 DEF StayPaused
<1>12. ASSUME NotPaused PROVE Records'
  BY <1>12 DEF NotPaused, At
<1>13. ASSUME FollowMode PROVE Records'
  <2>1. queue' \in Queue
    <3>1. queue' \in {queue, NoQueue}
      BY <1>13 DEF FollowMode, At, ForgetPredictions
    <3>. QED
      BY <3>1, EmptyRecords
  <2>2. feed' \in Feed
    <3>1. feed' \in {feed, NoFeed}
      BY <1>13 DEF FollowMode, At, ForgetPredictions
    <3>. QED
      BY <3>1, EmptyRecords
  <2>3. ens' \subseteq Prediction
    BY <1>13 DEF FollowMode, At, ForgetPredictions, Prediction, Steps
  <2>4. obs' \in Observation
    <3>1. obs' \in {obs, [obs EXCEPT !.epoch = FALSE]}
      BY <1>13 DEF FollowMode, At, ForgetPredictions
    <3>. QED
      BY <3>1, ObsEpochOver
  <2>5. job' \in Job
    <3>1. job' \in {job, [job EXCEPT !.obs.epoch = FALSE]}
      BY <1>13 DEF FollowMode, At, ForgetPredictions
    <3>. QED
      BY <3>1, JobEpochOver
  <2>. QED
    BY <1>13, <2>1, <2>2, <2>3, <2>4, <2>5 DEF FollowMode
<1>14. ASSUME FirstTrigger PROVE Records'
  BY <1>14 DEF FirstTrigger, At, Seen, NoObs, Optional, Observation, Steps
<1>15. ASSUME PopHeld PROVE Records'
  <2>1. queue' \in Queue
    BY <1>15, Zero, Zenon DEF PopHeld, At, Queue, NoQueue, Optional
  <2>. QED
    BY <1>15, <2>1 DEF PopHeld
<1>16. ASSUME PopEnsemble PROVE Records'
  BY <1>16 DEF PopEnsemble, At, Prediction, Steps
<1>17. ASSUME PopQueue PROVE Records'
  <2>1. \/ queue.n = 0 /\ queue' = queue /\ feed' = feed
        \/ queue.n > 0 /\ queue' = Taken(queue) /\ feed' = FeedTaken(feed)
    BY <1>17, PopTakes
  <2>2. queue' \in Queue
    BY <2>1, QueueTaken
  <2>3. feed' \in Feed
    BY <2>1, RawTaken
  <2>. QED
    BY <1>17, <2>2, <2>3 DEF PopQueue
<1>18. ASSUME Trigger PROVE Records'
  BY <1>18 DEF Trigger, At, MayTrigger
<1>19. ASSUME NoTrigger PROVE Records'
  BY <1>19 DEF NoTrigger, At
<1>20. ASSUME Take PROVE Records'
  BY <1>20 DEF Take, At, Seen, NoObs, Optional, Observation, Feed, Steps
<1>21. ASSUME EndStep PROVE Records'
  <2>1. obs' \in Observation
    BY <1>21, Zero, LaterInSteps, Zenon DEF EndStep, At, Observation, NoObs, Optional
  <2>2. job' \in Job
    BY <1>21, Zero, LaterInSteps, Zenon DEF EndStep, At, Job, NoJob, NoObs, Observation, Optional
  <2>3. queue' \in Queue
    BY <1>21, Zero, LaterInSteps, Zenon DEF EndStep, At, Queue, NoQueue, Optional
  <2>4. ens' \subseteq Prediction
    BY <1>21 DEF EndStep, At, Later, Prediction, Steps
  <2>. QED
    BY <1>21, <2>1, <2>2, <2>3, <2>4 DEF EndStep
<1>22. ASSUME Wake PROVE Records'
  BY <1>22 DEF Wake, IAt
<1>23. ASSUME TakeEvent PROVE Records'
  BY <1>23 DEF TakeEvent, IAt
<1>24. ASSUME RaiseFlag PROVE Records'
  BY <1>24 DEF RaiseFlag, IAt
<1>25. ASSUME NothingToDo PROVE Records'
  BY <1>25 DEF NothingToDo, IAt
<1>26. ASSUME ReadObservation PROVE Records'
  <2>1. job' \in Job
    BY <1>26, Zero, Zenon DEF ReadObservation, IAt, Job, NoJob, NoObs, Observation, Optional
  <2>. QED
    BY <1>26, <2>1 DEF ReadObservation
<1>27. ASSUME CaptureGeneration PROVE Records'
  <2>1. job' \in Job
    BY <1>27, Zero, Zenon DEF CaptureGeneration, IAt, Job, NoJob, NoObs, Observation, Optional
  <2>. QED
    BY <1>27, <2>1 DEF CaptureGeneration
<1>28. ASSUME Prepare PROVE Records'
  BY <1>28 DEF Prepare, IAt, Job, Places
<1>29. ASSUME Predict PROVE Records'
  BY <1>29 DEF Predict, IAt, Job, Places
<1>30. ASSUME Postprocess PROVE Records'
  BY <1>30 DEF Postprocess, IAt, Job, Places
<1>31. ASSUME Fails PROVE Records'
  BY <1>31 DEF Fails
<1>32. ASSUME Discard PROVE Records'
  BY <1>32 DEF Discard, IAt
<1>33. ASSUME StoreInEnsemble PROVE Records'
  BY <1>33 DEF StoreInEnsemble, IAt, Predictions, Places, Job, Observation, Prediction, Steps
<1>34. ASSUME NEW merging \in BOOLEAN, StoreInQueue(merging) PROVE Records'
  BY <1>34 DEF StoreInQueue, IAt, NewQueue, Raw, Elapsed, Places, Optional, Job, Observation,
     Queue, Feed, Steps
<1>35. ASSUME Leave PROVE Records'
  <2>1. job' \in Job
    BY <1>35, EmptyRecords DEF Leave, IAt
  <2>. QED
    BY <1>35, <2>1 DEF Leave
<1>36. ASSUME Reset PROVE Records'
  BY <1>36 DEF Reset, Message
<1>37. ASSUME NEW on \in BOOLEAN, Pause(on) PROVE Records'
  BY <1>37 DEF Pause, Message
<1>38. ASSUME NEW on \in BOOLEAN, Ensemble(on) PROVE Records'
  BY <1>38 DEF Ensemble, Message
<1>39. ASSUME NEW on \in BOOLEAN, Hold(on) PROVE Records'
  <2>1. switch' \in Switch
    BY <1>39, Zero, Zenon DEF Hold, Message, Switch, Optional
  <2>. QED
    BY <1>39, <2>1 DEF Hold
<1>40. ASSUME NEW p \in Policies, UsePolicy(p) PROVE Records'
  <2>1. switch' \in Switch
    BY <1>40, Zero, Zenon DEF UsePolicy, Message, Switch, Optional
  <2>. QED
    BY <1>40, <2>1 DEF UsePolicy
<1>41. CASE UNCHANGED vars
  BY <1>41 DEF vars, listener, parts, local, buffers, thread
<1>. QED
  BY <1>1, <1>2, <1>3, <1>4, <1>5, <1>6, <1>7, <1>8, <1>9, <1>10, <1>11, <1>12, <1>13, <1>14,
     <1>15, <1>16, <1>17, <1>18, <1>19, <1>20, <1>21, <1>22, <1>23, <1>24, <1>25, <1>26, <1>27,
     <1>28, <1>29, <1>30, <1>31, <1>32, <1>33, <1>34, <1>35, <1>36, <1>37, <1>38, <1>39, <1>40,
     <1>41 DEF Next, MainLoop, InferenceThread

LEMMA InvStep == ASSUME PolicyInv, [Next]_vars PROVE PolicyInv'
<1>0. Flags' /\ Records'
  BY FlagsStep, RecordsStep
<1> USE LoopAssumption
    DEF PolicyInv, TypeOK, Records, Places, FlagTells, TakenBack, NobodyComputes, MidSwap,
        EmptyBefore, JobsAreOfNow, BuffersAreCurrent, OnePolicy, NothingOutdated, Swapping,
        Switching, Working, vars, listener, parts, local, buffers, thread, NoObs, NoJob, NoQueue,
        NoFeed, Optional, Switch, Observation, Job, Queue, Feed, Prediction, Steps
<1>1. ASSUME LookForSwitch PROVE PolicyInv'
  <2>1. TypeOK'
    BY <1>0, <1>1 DEF LookForSwitch
  <2>2. BuffersAreCurrent'
    BY <1>0, <1>1 DEF LookForSwitch
  <2>. QED
    BY <1>0, <1>1, <2>1, <2>2 DEF LookForSwitch
<1>2. ASSUME LookForInference PROVE PolicyInv'
  BY <1>0, <1>2 DEF LookForInference
<1>3. ASSUME ClearForSwitch PROVE PolicyInv'
  <2>1. TypeOK'
    BY <1>0, <1>3 DEF ClearForSwitch, At
  <2>2. BuffersAreCurrent'
    BY <1>0, <1>3 DEF ClearForSwitch, At
  <2>. QED
    BY <1>0, <1>3, <2>1, <2>2 DEF ClearForSwitch, At
<1>4. ASSUME AssignModel PROVE PolicyInv'
  <2>1. TypeOK'
    BY <1>0, <1>4 DEF AssignModel, At
  <2>2. BuffersAreCurrent'
    BY <1>0, <1>4 DEF AssignModel, At
  <2>. QED
    BY <1>0, <1>4, <2>1, <2>2 DEF AssignModel, At
<1>5. ASSUME AssignProcessing PROVE PolicyInv'
  BY <1>0, <1>5 DEF AssignProcessing, At
<1>6. ASSUME SwitchDone PROVE PolicyInv'
  <2>1. TypeOK'
    BY <1>0, <1>6 DEF SwitchDone, At
  <2>2. BuffersAreCurrent'
    BY <1>0, <1>6 DEF SwitchDone, At
  <2>. QED
    BY <1>0, <1>6, <2>1, <2>2 DEF SwitchDone, At
<1>7. ASSUME NoReset PROVE PolicyInv'
  BY <1>0, <1>7 DEF NoReset, At
<1>8. ASSUME BeginReset PROVE PolicyInv'
  <2>1. TypeOK'
    BY <1>0, <1>8 DEF BeginReset, At
  <2>2. BuffersAreCurrent'
    BY <1>0, <1>8 DEF BeginReset, At
  <2>. QED
    BY <1>0, <1>8, <2>1, <2>2 DEF BeginReset, At
<1>9. ASSUME Wipe PROVE PolicyInv'
  <2>1. TypeOK'
    BY <1>0, <1>9 DEF Wipe, At
  <2>2. BuffersAreCurrent'
    <3>1. OnePolicy'
      BY <1>9 DEF Wipe, At
    <3>2. NothingOutdated'
      BY <1>9 DEF Wipe, At
    <3>. QED
      BY <3>1, <3>2
  <2>. QED
    BY <1>0, <1>9, <2>1, <2>2 DEF Wipe, At
<1>10. ASSUME Homed PROVE PolicyInv'
  <2>1. TypeOK'
    BY <1>0, <1>10 DEF Homed, At
  <2>2. BuffersAreCurrent'
    BY <1>0, <1>10 DEF Homed, At
  <2>. QED
    BY <1>0, <1>10, <2>1, <2>2 DEF Homed, At
<1>11. ASSUME StayPaused PROVE PolicyInv'
  <2>1. TypeOK'
    BY <1>0, <1>11 DEF StayPaused, At, ForgetPredictions
  <2>2. BuffersAreCurrent'
    BY <1>0, <1>11 DEF StayPaused, At, ForgetPredictions
  <2>. QED
    BY <1>0, <1>11, <2>1, <2>2 DEF StayPaused, At, ForgetPredictions
<1>12. ASSUME NotPaused PROVE PolicyInv'
  BY <1>0, <1>12 DEF NotPaused, At
<1>13. ASSUME FollowMode PROVE PolicyInv'
  <2>1. TypeOK'
    BY <1>0, <1>13 DEF FollowMode, At, ForgetPredictions
  <2>2. BuffersAreCurrent'
    BY <1>0, <1>13 DEF FollowMode, At, ForgetPredictions
  <2>3. JobsAreOfNow'
    BY <1>13 DEF FollowMode, At, ForgetPredictions
  <2>4. (FlagTells /\ TakenBack /\ NobodyComputes /\ MidSwap /\ EmptyBefore)'
    BY <1>13 DEF FollowMode, At, ForgetPredictions
  <2>. QED
    BY <2>1, <2>2, <2>3, <2>4
<1>14. ASSUME FirstTrigger PROVE PolicyInv'
  BY <1>0, <1>14 DEF FirstTrigger, At, Seen
<1>15. ASSUME PopHeld PROVE PolicyInv'
  <2>1. TypeOK'
    BY <1>0, <1>15 DEF PopHeld, At
  <2>2. BuffersAreCurrent'
    BY <1>0, <1>15 DEF PopHeld, At
  <2>. QED
    BY <1>0, <1>15, <2>1, <2>2 DEF PopHeld, At
<1>16. ASSUME PopEnsemble PROVE PolicyInv'
  BY <1>0, <1>16 DEF PopEnsemble, At
<1>17. ASSUME PopQueue PROVE PolicyInv'
  <2>1. TypeOK'
    BY <1>0, <1>17, PopTakes, QueueTaken, RawTaken DEF PopQueue, At
  <2>2. BuffersAreCurrent'
    BY <1>0, <1>17, PopTakes, QueueTaken, RawTaken DEF PopQueue, At
  <2>. QED
    BY <1>0, <1>17, <2>1, <2>2 DEF PopQueue, At
<1>18. ASSUME Trigger PROVE PolicyInv'
  BY <1>0, <1>18 DEF Trigger, At, MayTrigger
<1>19. ASSUME NoTrigger PROVE PolicyInv'
  BY <1>0, <1>19 DEF NoTrigger, At
<1>20. ASSUME Take PROVE PolicyInv'
  BY <1>0, <1>20 DEF Take, At, Seen
<1>21. ASSUME EndStep PROVE PolicyInv'
  <2>1. TypeOK'
    BY <1>0, <1>21 DEF EndStep, At, Later
  <2>2. BuffersAreCurrent'
    BY <1>0, <1>21 DEF EndStep, At, Later
  <2>. QED
    BY <1>0, <1>21, <2>1, <2>2 DEF EndStep, At, Later
<1>22. ASSUME Wake PROVE PolicyInv'
  BY <1>0, <1>22 DEF Wake, IAt, ThreadOnly
<1>23. ASSUME TakeEvent PROVE PolicyInv'
  <2>1. TypeOK'
    BY <1>0, <1>23 DEF TakeEvent, IAt, ThreadOnly
  <2>2. BuffersAreCurrent'
    BY <1>0, <1>23 DEF TakeEvent, IAt, ThreadOnly
  <2>. QED
    BY <1>0, <1>23, <2>1, <2>2 DEF TakeEvent, IAt, ThreadOnly
<1>24. ASSUME RaiseFlag PROVE PolicyInv'
  BY <1>0, <1>24 DEF RaiseFlag, IAt, ThreadOnly
<1>25. ASSUME NothingToDo PROVE PolicyInv'
  <2>1. TypeOK'
    BY <1>0, <1>25 DEF NothingToDo, IAt, ThreadOnly
  <2>2. BuffersAreCurrent'
    BY <1>0, <1>25 DEF NothingToDo, IAt, ThreadOnly
  <2>. QED
    BY <1>0, <1>25, <2>1, <2>2 DEF NothingToDo, IAt, ThreadOnly
<1>26. ASSUME ReadObservation PROVE PolicyInv'
  <2>1. TypeOK'
    BY <1>0, <1>26 DEF ReadObservation, IAt, ThreadOnly
  <2>2. BuffersAreCurrent'
    BY <1>0, <1>26 DEF ReadObservation, IAt, ThreadOnly
  <2>. QED
    BY <1>0, <1>26, <2>1, <2>2 DEF ReadObservation, IAt, ThreadOnly
<1>27. ASSUME CaptureGeneration PROVE PolicyInv'
  <2>1. TypeOK'
    BY <1>0, <1>27 DEF CaptureGeneration, IAt, ThreadOnly
  <2>2. BuffersAreCurrent'
    BY <1>0, <1>27 DEF CaptureGeneration, IAt, ThreadOnly
  <2>. QED
    BY <1>0, <1>27, <2>1, <2>2 DEF CaptureGeneration, IAt, ThreadOnly
<1>28. ASSUME Prepare PROVE PolicyInv'
  BY <1>0, <1>28 DEF Prepare, IAt, ThreadOnly
<1>29. ASSUME Predict PROVE PolicyInv'
  BY <1>0, <1>29 DEF Predict, IAt, ThreadOnly
<1>30. ASSUME Postprocess PROVE PolicyInv'
  BY <1>0, <1>30 DEF Postprocess, IAt, ThreadOnly
<1>31. ASSUME Fails PROVE PolicyInv'
  BY <1>0, <1>31 DEF Fails, ThreadOnly
<1>32. ASSUME Discard PROVE PolicyInv'
  BY <1>0, <1>32 DEF Discard, IAt, ThreadOnly
<1>33. ASSUME StoreInEnsemble PROVE PolicyInv'
  BY <1>0, <1>33 DEF StoreInEnsemble, IAt, ThreadOnly, Predictions
<1>34. ASSUME NEW merging \in BOOLEAN, StoreInQueue(merging) PROVE PolicyInv'
  BY <1>0, <1>34 DEF StoreInQueue, IAt, ThreadOnly, NewQueue, Raw, Elapsed
<1>35. ASSUME Leave PROVE PolicyInv'
  <2>1. TypeOK'
    BY <1>0, <1>35 DEF Leave, IAt, ThreadOnly
  <2>2. BuffersAreCurrent'
    BY <1>0, <1>35 DEF Leave, IAt, ThreadOnly
  <2>. QED
    BY <1>0, <1>35, <2>1, <2>2 DEF Leave, IAt, ThreadOnly
<1>36. ASSUME Reset PROVE PolicyInv'
  BY <1>0, <1>36 DEF Reset, Message, ListenerOnly
<1>37. ASSUME NEW on \in BOOLEAN, Pause(on) PROVE PolicyInv'
  BY <1>0, <1>37 DEF Pause, Message, ListenerOnly
<1>38. ASSUME NEW on \in BOOLEAN, Ensemble(on) PROVE PolicyInv'
  BY <1>0, <1>38 DEF Ensemble, Message, ListenerOnly
<1>39. ASSUME NEW on \in BOOLEAN, Hold(on) PROVE PolicyInv'
  <2>1. TypeOK'
    BY <1>0, <1>39 DEF Hold, Message, ListenerOnly
  <2>2. BuffersAreCurrent'
    BY <1>0, <1>39 DEF Hold, Message, ListenerOnly
  <2>. QED
    BY <1>0, <1>39, <2>1, <2>2 DEF Hold, Message, ListenerOnly
<1>40. ASSUME NEW p \in Policies, UsePolicy(p) PROVE PolicyInv'
  <2>1. TypeOK'
    BY <1>0, <1>40 DEF UsePolicy, Message, ListenerOnly
  <2>2. BuffersAreCurrent'
    BY <1>0, <1>40 DEF UsePolicy, Message, ListenerOnly
  <2>. QED
    BY <1>0, <1>40, <2>1, <2>2 DEF UsePolicy, Message, ListenerOnly
<1>41. CASE UNCHANGED vars
  BY <1>0, <1>41 DEF Flags
<1>. QED
  BY <1>1, <1>2, <1>3, <1>4, <1>5, <1>6, <1>7, <1>8, <1>9, <1>10, <1>11, <1>12, <1>13, <1>14,
     <1>15, <1>16, <1>17, <1>18, <1>19, <1>20, <1>21, <1>22, <1>23, <1>24, <1>25, <1>26, <1>27,
     <1>28, <1>29, <1>30, <1>31, <1>32, <1>33, <1>34, <1>35, <1>36, <1>37, <1>38, <1>39, <1>40,
     <1>41 DEF Next, MainLoop, InferenceThread

THEOREM InvHolds == Spec => []PolicyInv
<1>1. PolicyInv /\ [Next]_vars => PolicyInv'
  BY InvStep
<1>. QED
  BY InvInit, <1>1, PTL DEF Spec

-----------------------------------------------------------------------------
(* The raw chunk beside the queue *)

\* Between the step's pop and its end `step` and _queue_step agree; a queue that was
\* joined in the right place stays there, whichever of the two was counted up last.
Sending == pc \in {"trigger", "take", "end"}
LagTells == queueLag = IF Sending THEN 0 ELSE 1
InPlace == queue.n > 0 /\ queue.aligned => queue.at = queue.since + 1 - queueLag
SideBySide == feed.n = queue.n /\ feed.at = queue.at /\ feed.by = queue.by
FeedInv == LagTells /\ InPlace /\ SideBySide

LEMMA FeedInit == Init => FeedInv
  BY DEF Init, FeedInv, LagTells, InPlace, SideBySide, Sending, NoQueue, NoFeed

\* What neither touches the buffers nor enters or leaves the sending part of a step.
LEMMA FeedSame ==
    ASSUME FeedInv, UNCHANGED <<queue, feed, queueLag>>, Sending' = Sending
    PROVE  FeedInv'
  BY DEF FeedInv, LagTells, InPlace, SideBySide

LEMMA FeedPops == ASSUME PolicyInv, FeedInv, PopQueue PROVE FeedInv'
<1> USE DEF PolicyInv, TypeOK, Records, Queue, Feed
<1>1. Sending' /\ queueLag' = 0 /\ ~Sending
  BY DEF PopQueue, At, Sending
<1>2. queueLag = 1
  BY <1>1 DEF FeedInv, LagTells
<1>3. CASE queue.n = 0 /\ queue' = queue /\ feed' = feed
  BY <1>1, <1>3 DEF FeedInv, LagTells, InPlace, SideBySide
<1>4. CASE queue.n > 0 /\ queue' = Taken(queue) /\ feed' = FeedTaken(feed)
  <2>1. CASE queue.n = 1
    BY <1>1, <1>4, <2>1 DEF FeedInv, LagTells, InPlace, SideBySide, Taken, FeedTaken, NoQueue, NoFeed
  <2>2. CASE queue.n # 1
    BY <1>1, <1>2, <1>4, <2>2, LoopAssumption
    DEF FeedInv, LagTells, InPlace, SideBySide, Taken, FeedTaken, Steps
  <2>. QED
    BY <2>1, <2>2
<1>. QED
  BY <1>3, <1>4, PopTakes

LEMMA FeedStores ==
    ASSUME PolicyInv, FeedInv, NEW merging \in BOOLEAN, StoreInQueue(merging) PROVE FeedInv'
<1> USE LoopAssumption
<1> DEFINE aligns == IF merging THEN queue.n > 0 \/ latest # "none" ELSE job.obs.rtc # None
           from == IF ~aligns THEN 0 ELSE IF Elapsed < Chunk THEN Elapsed ELSE Chunk - 1
           aligned == aligns /\ Elapsed < Chunk /\ job.obs.fresh
<1>1. queue' = NewQueue(from, aligned) /\ feed' = Raw(Chunk - from)
  BY DEF StoreInQueue
<1>2. UNCHANGED <<queueLag, pc>> /\ Sending' = Sending
  BY DEF StoreInQueue, ThreadOnly, Sending
<1>3. job.obs.since \in Nat /\ queueLag \in {0, 1}
  BY DEF FeedInv, LagTells, PolicyInv, TypeOK, Records, Job, Observation, Steps
<1>4. Elapsed \in Nat
  BY <1>3 DEF Elapsed
<1>5. from \in 0 .. Chunk - 1
  BY <1>4
<1>6. aligned => from = Elapsed
  OBVIOUS
<1>7. SideBySide'
  <2> HIDE DEF from, aligned
  <2>. QED
    BY <1>1, <1>5 DEF SideBySide, NewQueue, Raw
<1>8. InPlace'
  <2> HIDE DEF from, aligned
  <2>1. aligned => from = job.obs.since + 1 - queueLag
    BY <1>3, <1>6 DEF Elapsed
  <2>. QED
    BY <1>1, <1>2, <2>1 DEF InPlace, NewQueue
<1>. QED
  BY <1>2, <1>7, <1>8 DEF FeedInv, LagTells

LEMMA FeedStep == ASSUME PolicyInv, FeedInv, [Next]_vars PROVE FeedInv'
<1> USE DEF FeedInv, LagTells, InPlace, SideBySide, Sending
<1>1. CASE ClearForSwitch
  BY <1>1 DEF ClearForSwitch, At, NoQueue, NoFeed
<1>2. CASE BeginReset
  BY <1>2 DEF BeginReset, At, PolicyInv, TypeOK, Records, Queue
<1>3. CASE Wipe
  BY <1>3 DEF Wipe, At, NoQueue, NoFeed
<1>4. CASE FollowMode
  BY <1>4 DEF FollowMode, At, NoQueue, NoFeed
<1>5. CASE PopHeld
  BY <1>5 DEF PopHeld, At, PolicyInv, TypeOK, Records, Queue
<1>6. CASE PopEnsemble
  BY <1>6 DEF PopEnsemble, At, PolicyInv, TypeOK
<1>7. CASE PopQueue
  BY <1>7, FeedPops
<1>8. CASE EndStep
  <2>1. CASE queue.n > 0
    <3>1. queue.n \in Nat /\ queue.at \in Nat /\ queue.since \in Nat /\ queue.n + queue.at <= Chunk
      BY LoopAssumption DEF PolicyInv, TypeOK, Records, Queue, Steps
    <3>2. queue' = [queue EXCEPT !.since = Later(queue.since)] /\ feed' = feed
      BY <1>8, <2>1 DEF EndStep
    <3>3. queueLag = 0 /\ queueLag' = 1 /\ ~Sending'
      BY <1>8, LoopAssumption DEF EndStep, At, Later
    <3>4. SideBySide' /\ LagTells'
      BY <3>2, <3>3 DEF PolicyInv, TypeOK, Records, Queue
    <3>5. InPlace'
      BY <2>1, <3>1, <3>2, <3>3, LoopAssumption DEF Later, PolicyInv, TypeOK, Records, Queue
    <3>. QED
      BY <3>4, <3>5
  <2>2. CASE ~(queue.n > 0)
    BY <1>8, <2>2, LoopAssumption DEF EndStep, At, Later
  <2>. QED
    BY <2>1, <2>2
<1>9. ASSUME NEW merging \in BOOLEAN, StoreInQueue(merging) PROVE FeedInv'
  BY <1>9, FeedStores
<1>10. CASE \/ LookForSwitch \/ LookForInference \/ AssignModel \/ AssignProcessing \/ SwitchDone
            \/ NoReset \/ Homed \/ StayPaused \/ NotPaused \/ FirstTrigger
  BY <1>10, FeedSame
  DEF LookForSwitch, LookForInference, AssignModel, AssignProcessing, SwitchDone, NoReset, Homed,
      StayPaused, NotPaused, FirstTrigger, At, buffers, parts, local, listener, thread
<1>11. CASE Trigger \/ NoTrigger \/ Take
  BY <1>11, FeedSame DEF Trigger, NoTrigger, Take, At, buffers
<1>12. CASE \/ Wake \/ TakeEvent \/ RaiseFlag \/ NothingToDo \/ ReadObservation \/ CaptureGeneration
            \/ Prepare \/ Predict \/ Postprocess \/ Fails \/ Discard \/ StoreInEnsemble \/ Leave
  BY <1>12, FeedSame
  DEF Wake, TakeEvent, RaiseFlag, NothingToDo, ReadObservation, CaptureGeneration, Prepare, Predict,
      Postprocess, Fails, Discard, StoreInEnsemble, Leave, ThreadOnly, buffers
<1>13. CASE \/ Reset \/ \E on \in BOOLEAN : Pause(on) \/ Ensemble(on) \/ Hold(on)
            \/ \E p \in Policies : UsePolicy(p)
  BY <1>13, FeedSame DEF Reset, Pause, Ensemble, Hold, UsePolicy, ListenerOnly, buffers
<1>14. CASE UNCHANGED vars
  BY <1>14, FeedSame DEF vars, buffers
<1>. QED
  BY <1>1, <1>2, <1>3, <1>4, <1>5, <1>6, <1>7, <1>8, <1>9, <1>10, <1>11, <1>12, <1>13, <1>14
  DEF Next, MainLoop, InferenceThread

-----------------------------------------------------------------------------
(* Theorems *)

\* Every reachable state is well typed, the two modes of sending never mix, and
\* the parts of a policy belong together except while they are being replaced.
THEOREM TypeCorrect == Spec => []TypeOK
<1>1. PolicyInv => TypeOK
  BY DEF PolicyInv
<1>. QED
  BY InvHolds, <1>1, PTL

\* What is sent, and what the next inference is given, was made by the policy in
\* place, by an inference of that policy alone, begun after the last reset.
THEOREM BuffersCurrent == Spec => []BuffersAreCurrent
<1>1. PolicyInv => BuffersAreCurrent
  BY DEF PolicyInv
<1>. QED
  BY InvHolds, <1>1, PTL

\* The raw chunk stays beside the queue action for action, and a queue joined at the
\* right place is sent at the step it was predicted for.
THEOREM FeedFollows == Spec => []FeedFollowsQueue
<1>1. PolicyInv /\ FeedInv => FeedFollowsQueue
  BY DEF PolicyInv, TypeOK, Records, Queue, Steps, FeedInv, LagTells, InPlace, SideBySide, Sending,
         FeedFollowsQueue
<1>2. PolicyInv /\ FeedInv /\ [Next]_vars => FeedInv'
  BY FeedStep
<1>. QED
  BY InvHolds, FeedInit, <1>1, <1>2, PTL DEF Spec

=============================================================================
