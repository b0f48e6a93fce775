----------------------------- MODULE PolicyLoop -----------------------------
(***************************************************************************)
(* The inference child (wrapper/lerobot_wrapper.py) once its policies are  *)
(* loaded: the main loop, the inference thread, and the listener that      *)
(* takes the operator's parameters from the bus (policy_slots.py).         *)
(*                                                                         *)
(* Only the buffers are under _action_lock.  The event, the flag           *)
(* _inference_in_flight, the observation and _reset_gen are not: a step    *)
(* here is the code between two accesses that another thread can tell      *)
(* apart.  Counters are relative: `since` is the number of steps since an  *)
(* observation, a generation or an epoch is whether it is still the        *)
(* present one.  What a chunk says is which policy made it.                *)
(***************************************************************************)
EXTENDS Integers

CONSTANTS
    Policies, First,     \* the loaded policies (_slots), the one it starts with
    None,                \* no policy, for the optional ones
    Chunk,               \* actions of one inference
    MaxMessages          \* bound: parameters the operator sends

ASSUME LoopAssumption ==
    /\ First \in Policies /\ None \notin Policies
    /\ Chunk \in Nat \ {0} /\ MaxMessages \in Nat

VARIABLES
    switch,                              \* PolicySwitch
    paused, resetting, ensembling,       \* what the listener leaves for the main loop
    messages,
    pc, want, zero, drained,             \* main: where, _want, step = 0, qsize_after = 0
    model, processing,                   \* policy; processors, delta and target input
    teActive, queueLag,                  \* _te_active, step - _queue_step
    obs, event,                          \* _obs_for_inference, _obs_event
    ipc, job, inFlight,                  \* the inference thread: where, what it works on
    queue, feed, latest,                 \* _action_queue, _rtc_feed, _latest_action_*
    ens, ensNext                         \* _ensembler: steps it covers, its _next, from step on

listener == <<switch, paused, resetting, ensembling, messages>>
parts == <<model, processing>>
local == <<want, zero, drained>>
buffers == <<queue, feed, latest, ens, ensNext>>
thread == <<ipc, job, inFlight>>
vars == <<listener, pc, local, parts, teActive, queueLag, obs, event, thread, buffers>>

Steps == 0 .. Chunk
Optional == Policies \cup {None}
Switch == [active : Policies, pending : Optional, holding : BOOLEAN]
NoObs == [taken |-> FALSE, since |-> 0, rtc |-> None, fresh |-> FALSE, epoch |-> FALSE]
Observation == [taken : BOOLEAN, since : Steps, rtc : Optional, fresh : BOOLEAN, epoch : BOOLEAN]
NoJob == [obs |-> NoObs, gen |-> FALSE, used |-> {}]
Job == [obs : Observation, gen : BOOLEAN, used : SUBSET Policies]
\* An empty queue: `at` is the place of its head in the chunk, `since` the age of its observation.
NoQueue == [n |-> 0, at |-> 0, by |-> None, since |-> 0, gen |-> FALSE, aligned |-> FALSE]
Queue == [n : Steps, at : Steps, by : Optional, since : Steps, gen : BOOLEAN, aligned : BOOLEAN]
NoFeed == [n |-> 0, at |-> 0, by |-> None, last |-> None]
Feed == [n : Steps, at : Steps, by : Optional, last : Optional]
\* A step ahead that some chunk predicts, and whether all of that was known since the last clear.
Prediction == [at : {-1} \cup Steps, by : Policies, current : BOOLEAN]
Later(n) == IF n < Chunk THEN n + 1 ELSE Chunk

Flags ==
    /\ paused \in BOOLEAN /\ resetting \in BOOLEAN /\ ensembling \in BOOLEAN /\ zero \in BOOLEAN
    /\ teActive \in BOOLEAN /\ drained \in BOOLEAN /\ event \in BOOLEAN /\ inFlight \in BOOLEAN

Records ==
    /\ switch \in Switch /\ obs \in Observation /\ job \in Job
    /\ queue \in Queue /\ feed \in Feed /\ ens \subseteq Prediction

Places ==
    /\ pc \in {"top", "flight", "clear", "model", "processing", "done", "reset", "wipe", "home",
               "pause", "mode", "first", "pop", "trigger", "take", "end"}
    /\ ipc \in {"wait", "awake", "taken", "read", "gen", "prepare", "predict", "post", "store", "leave"}
    /\ model \in Policies /\ processing \in Policies /\ want \in Optional
    /\ latest \in {"none", "unsent", "sent"}
    /\ queueLag \in Steps /\ ensNext \in {-1, 0, 1} /\ messages \in 0 .. MaxMessages

\* The modes do not mix, and the parts of a policy differ only while it is put in place.
TypeOK ==
    /\ Flags /\ Records /\ Places
    /\ queue.n + queue.at \in Steps /\ feed.n + feed.at \in Steps
    /\ queue.n > 0 => ~teActive
    /\ ens # {} => teActive
    /\ pc # "processing" => model = processing

Init ==
    /\ switch = [active |-> First, pending |-> None, holding |-> FALSE]
    /\ paused = FALSE /\ resetting = FALSE /\ ensembling \in BOOLEAN /\ messages = 0
    /\ pc = "top" /\ want = None /\ zero = TRUE /\ drained = TRUE
    /\ model = First /\ processing = First /\ teActive = FALSE /\ queueLag = 1
    /\ obs = NoObs /\ event = FALSE
    /\ ipc = "wait" /\ job = NoJob /\ inFlight = FALSE
    /\ queue = NoQueue /\ feed = NoFeed /\ latest = "none"
    /\ ens = {} /\ ensNext = 0

-----------------------------------------------------------------------------
(* The listener: param_listener, PolicySwitch.update_param *)

Message == messages < MaxMessages /\ messages' = messages + 1
ListenerOnly == UNCHANGED <<pc, local, parts, teActive, queueLag, obs, event, thread, buffers>>

Pause(on) ==
    /\ Message /\ paused # on
    /\ paused' = on
    /\ ListenerOnly /\ UNCHANGED <<switch, resetting, ensembling>>

Reset ==
    /\ Message
    /\ resetting' = TRUE
    /\ ListenerOnly /\ UNCHANGED <<switch, paused, ensembling>>

Ensemble(on) ==
    /\ Message /\ ensembling # on
    /\ ensembling' = on
    /\ ListenerOnly /\ UNCHANGED <<switch, paused, resetting>>

UsePolicy(p) ==
    /\ Message
    /\ switch' = [switch EXCEPT !.pending = p, !.holding = FALSE]
    /\ ListenerOnly /\ UNCHANGED <<paused, resetting, ensembling>>

Hold(on) ==
    /\ Message /\ switch.holding # on
    /\ switch' = [switch EXCEPT
         !.holding = on,
         !.pending = IF ~on /\ switch.pending = None THEN switch.active ELSE switch.pending]
    /\ ListenerOnly /\ UNCHANGED <<paused, resetting, ensembling>>

-----------------------------------------------------------------------------
(* The main loop *)

At(here, there) == pc = here /\ pc' = there

\* _ensembler.clear(step): a new epoch, in which no observation has been made yet.
ForgetPredictions ==
    /\ ens' = {} /\ ensNext' = 0
    /\ obs' = [obs EXCEPT !.epoch = FALSE]
    /\ job' = [job EXCEPT !.obs.epoch = FALSE]

\* Faulty variant of LookForSwitch: the observation is left for the inference thread.
LookForSwitchKeepsObs ==
    /\ pc = "top"
    /\ want' = switch.pending
    /\ pc' = IF want' = None THEN "reset" ELSE "flight"
    /\ UNCHANGED <<listener, zero, drained, parts, teActive, queueLag, obs, event, thread, buffers>>

\* The observation is taken back before the flag is looked at.
LookForSwitch ==
    /\ pc = "top"
    /\ want' = switch.pending
    /\ IF want' = None THEN pc' = "reset" /\ obs' = obs
                       ELSE pc' = "flight" /\ obs' = NoObs
    /\ UNCHANGED <<listener, zero, drained, parts, teActive, queueLag, event, thread, buffers>>

LookForInference ==
    /\ pc = "flight"
    /\ pc' = IF inFlight THEN "reset" ELSE "clear"
    /\ UNCHANGED <<listener, local, parts, teActive, queueLag, obs, event, thread, buffers>>

ClearForSwitch ==
    /\ At("clear", "model")
    /\ job' = [job EXCEPT !.gen = FALSE, !.obs.epoch = FALSE]
    /\ event' = FALSE
    /\ queue' = NoQueue /\ feed' = NoFeed /\ ens' = {} /\ ensNext' = 0
    /\ UNCHANGED <<listener, local, parts, teActive, queueLag, obs, ipc, inFlight, latest>>

AssignModel ==
    /\ At("model", "processing")
    /\ model' = want
    /\ UNCHANGED <<listener, local, processing, teActive, queueLag, obs, event, thread, buffers>>

AssignProcessing ==
    /\ At("processing", "done")
    /\ processing' = want
    /\ UNCHANGED <<listener, local, model, teActive, queueLag, obs, event, thread, buffers>>

\* policy.reset() and _switch.done: a name that has come since stays pending.
SwitchDone ==
    /\ At("done", "reset")
    /\ switch' = [switch EXCEPT !.active = want,
                                !.pending = IF switch.pending = want THEN None ELSE switch.pending]
    /\ UNCHANGED <<paused, resetting, ensembling, messages, local, parts, teActive, queueLag, obs,
                   event, thread, buffers>>

NoReset ==
    /\ ~resetting /\ At("reset", "pause")
    /\ UNCHANGED <<listener, local, parts, teActive, queueLag, obs, event, thread, buffers>>

\* The generation changes before the buffers are emptied under the lock.
BeginReset ==
    /\ resetting /\ At("reset", "wipe")
    /\ resetting' = FALSE
    /\ job' = [job EXCEPT !.gen = FALSE, !.obs.fresh = FALSE]
    /\ obs' = [obs EXCEPT !.fresh = FALSE]
    /\ queue' = [queue EXCEPT !.gen = FALSE]
    /\ ens' = {[e EXCEPT !.current = FALSE] : e \in ens}
    /\ event' = FALSE
    /\ UNCHANGED <<switch, paused, ensembling, messages, local, parts, teActive, queueLag, ipc,
                   inFlight, feed, latest, ensNext>>

\* The emptying of the reset.  Of an observation from before it, the step says
\* nothing any more: it counts as one of step 0.
Wipe ==
    /\ At("wipe", "home")
    /\ queue' = NoQueue /\ feed' = NoFeed /\ latest' = "none" /\ ens' = {} /\ ensNext' = 0
    /\ queueLag' = 1
    /\ obs' = [obs EXCEPT !.since = 0, !.epoch = FALSE]
    /\ job' = [job EXCEPT !.obs.since = 0, !.obs.epoch = FALSE]
    /\ UNCHANGED <<listener, local, parts, teActive, event, ipc, inFlight>>

\* ParkingController.run(), which takes seconds; then the loop goes on by itself.
Homed ==
    /\ At("home", "top")
    /\ paused' = FALSE /\ zero' = TRUE
    /\ UNCHANGED <<switch, resetting, ensembling, messages, want, drained, parts, teActive, queueLag,
                   obs, event, thread, buffers>>

StayPaused ==
    /\ paused /\ At("pause", "top")
    /\ IF teActive /\ ens # {} THEN ForgetPredictions ELSE UNCHANGED <<ens, ensNext, obs, job>>
    /\ UNCHANGED <<listener, local, parts, teActive, queueLag, event, ipc, inFlight, queue, feed, latest>>

NotPaused ==
    /\ ~paused /\ At("pause", "mode")
    /\ UNCHANGED <<listener, local, parts, teActive, queueLag, obs, event, thread, buffers>>

\* Faulty variant of FollowMode: the mode changes and the queue stays.
FollowModeKeepsQueue ==
    /\ At("mode", "first")
    /\ teActive' = ensembling
    /\ UNCHANGED <<listener, local, parts, queueLag, obs, event, thread, buffers>>

FollowMode ==
    /\ At("mode", "first")
    /\ IF ensembling = teActive
       THEN UNCHANGED <<teActive, queue, feed, ens, ensNext, obs, job>>
       ELSE /\ teActive' = ensembling
            /\ queue' = NoQueue /\ feed' = NoFeed
            /\ ForgetPredictions
    /\ UNCHANGED <<listener, local, parts, queueLag, event, ipc, inFlight, latest>>

Seen(rtc) == [taken |-> TRUE, since |-> 0, rtc |-> rtc, fresh |-> TRUE, epoch |-> TRUE]

\* robot.get_observation(); at step 0 the first inference, whatever is pending or held.
FirstTrigger ==
    /\ At("first", "pop")
    /\ obs' = IF zero THEN Seen(None) ELSE obs
    /\ event' = (event \/ zero)
    /\ UNCHANGED <<listener, local, parts, teActive, queueLag, thread, buffers>>

\* Holding: the last action again, nothing is taken.
PopHeld ==
    /\ At("pop", "trigger") /\ switch.holding
    /\ queueLag' = 0
    /\ queue' = [queue EXCEPT !.aligned = FALSE]
    /\ drained' = (queue.n = 0)
    /\ UNCHANGED <<listener, want, zero, parts, teActive, obs, event, thread, feed, latest, ens, ensNext>>

PopEnsemble ==
    /\ At("pop", "trigger") /\ ~switch.holding /\ teActive
    /\ queueLag' = 0 /\ ensNext' = 1
    /\ ens' = {e \in ens : e.at > 0}
    /\ latest' = IF \E e \in ens : e.at = 0 THEN "sent" ELSE latest
    /\ UNCHANGED <<listener, want, zero, drained, parts, teActive, obs, event, thread, queue, feed>>

Taken(q) == IF q.n = 1 THEN NoQueue ELSE [q EXCEPT !.n = q.n - 1, !.at = q.at + 1]

\* RtcFeed.pop: what is sent becomes the first of what is left over.
FeedTaken(f) == IF f.n = 0 THEN f
                ELSE IF f.n = 1 THEN [NoFeed EXCEPT !.last = f.by]
                ELSE [f EXCEPT !.n = f.n - 1, !.at = f.at + 1, !.last = f.by]

PopQueue ==
    /\ At("pop", "trigger") /\ ~switch.holding /\ ~teActive
    /\ queueLag' = 0
    /\ IF queue.n = 0
       THEN UNCHANGED <<queue, feed, latest>>
       ELSE queue' = Taken(queue) /\ feed' = FeedTaken(feed) /\ latest' = "sent"
    /\ drained' = (queue'.n = 0)
    /\ UNCHANGED <<listener, want, zero, parts, teActive, obs, event, thread, ens, ensNext>>

\* Faulty variant of Blocks: a pending switch lets inferences begin.
BlocksWhileHeld == switch.holding

\* PolicySwitch.blocks
Blocks == switch.holding \/ switch.pending # None

MayTrigger == ~event /\ ~inFlight /\ ~Blocks

\* The threshold is a parameter: with something left in the queue either may be right.
Trigger ==
    /\ At("trigger", "take")
    /\ MayTrigger
    /\ UNCHANGED <<listener, local, parts, teActive, queueLag, obs, event, thread, buffers>>

NoTrigger ==
    /\ At("trigger", "end")
    /\ MayTrigger => ~teActive /\ ~drained
    /\ UNCHANGED <<listener, local, parts, teActive, queueLag, obs, event, thread, buffers>>

\* RTC, where it is on and the policy has it, hands on what is left of the last chunk.
Take ==
    /\ At("take", "end")
    /\ \E rtc \in {None} \cup IF teActive THEN {} ELSE {feed.last} : obs' = Seen(rtc)
    /\ event' = TRUE
    /\ UNCHANGED <<listener, local, parts, teActive, queueLag, thread, buffers>>

EndStep ==
    /\ At("end", "top")
    /\ zero' = FALSE /\ drained' = TRUE
    /\ queueLag' = Later(queueLag)
    /\ obs' = IF obs.taken THEN [obs EXCEPT !.since = Later(obs.since)] ELSE obs
    /\ job' = IF job.obs.taken THEN [job EXCEPT !.obs.since = Later(job.obs.since)] ELSE job
    /\ queue' = IF queue.n > 0 THEN [queue EXCEPT !.since = Later(queue.since)] ELSE queue
    /\ ens' = {[e EXCEPT !.at = IF e.at < 1 THEN -1 ELSE e.at - 1] : e \in ens}
    /\ ensNext' = IF ensNext < 1 THEN -1 ELSE 0
    /\ UNCHANGED <<listener, want, parts, teActive, event, ipc, inFlight, feed, latest>>

MainLoop ==
    \/ LookForSwitch \/ LookForInference \/ ClearForSwitch \/ AssignModel \/ AssignProcessing
    \/ SwitchDone \/ NoReset \/ BeginReset \/ Wipe \/ Homed \/ StayPaused \/ NotPaused \/ FollowMode
    \/ FirstTrigger \/ PopHeld \/ PopEnsemble \/ PopQueue \/ Trigger \/ NoTrigger \/ Take \/ EndStep

-----------------------------------------------------------------------------
(* The inference thread: _inference_thread_fn *)

IAt(here, there) == ipc = here /\ ipc' = there
ThreadOnly == UNCHANGED <<listener, pc, local, parts, teActive, queueLag, obs>>

\* _obs_event.wait; a time-out only waits again
Wake ==
    /\ IAt("wait", "awake") /\ event
    /\ ThreadOnly /\ UNCHANGED <<event, job, inFlight, buffers>>

TakeEvent ==
    /\ IAt("awake", "taken")
    /\ event' = FALSE
    /\ ThreadOnly /\ UNCHANGED <<job, inFlight, buffers>>

RaiseFlag ==
    /\ IAt("taken", "read")
    /\ inFlight' = TRUE
    /\ ThreadOnly /\ UNCHANGED <<event, job, buffers>>

\* Faulty variant of NothingToDo: the flag stays up.
NothingToDoInFlight ==
    /\ IAt("read", "wait") /\ ~obs.taken
    /\ ThreadOnly /\ UNCHANGED <<event, job, inFlight, buffers>>

NothingToDo ==
    /\ IAt("read", "wait") /\ ~obs.taken
    /\ inFlight' = FALSE
    /\ ThreadOnly /\ UNCHANGED <<event, job, buffers>>

ReadObservation ==
    /\ IAt("read", "gen") /\ obs.taken
    /\ job' = [NoJob EXCEPT !.obs = obs]
    /\ ThreadOnly /\ UNCHANGED <<event, inFlight, buffers>>

CaptureGeneration ==
    /\ IAt("gen", "prepare")
    /\ job' = [job EXCEPT !.gen = TRUE]
    /\ ThreadOnly /\ UNCHANGED <<event, inFlight, buffers>>

\* _prepare_observation with the processors, predict_action_chunk, postprocessor and _delta
Prepare ==
    /\ IAt("prepare", "predict")
    /\ job' = [job EXCEPT !.used = {processing}]
    /\ ThreadOnly /\ UNCHANGED <<event, inFlight, buffers>>

Predict ==
    /\ IAt("predict", "post")
    /\ job' = [job EXCEPT !.used = @ \cup {model}]
    /\ ThreadOnly /\ UNCHANGED <<event, inFlight, buffers>>

Postprocess ==
    /\ IAt("post", "store")
    /\ job' = [job EXCEPT !.used = @ \cup {processing}]
    /\ ThreadOnly /\ UNCHANGED <<event, inFlight, buffers>>

\* Any of the three may raise: the error is logged.
Fails ==
    /\ ipc \in {"prepare", "predict", "post"} /\ ipc' = "leave"
    /\ ThreadOnly /\ UNCHANGED <<event, job, inFlight, buffers>>

Discard ==
    /\ IAt("store", "leave") /\ ~job.gen
    /\ ThreadOnly /\ UNCHANGED <<event, job, inFlight, buffers>>

\* Actions of the observed step and after that have been sent meanwhile: _queue_step + 1 - obs_step.
Elapsed == IF job.obs.since + 1 > queueLag THEN job.obs.since + 1 - queueLag ELSE 0

\* TemporalEnsembler.add: a chunk observed before the last clear is left out.
Predictions ==
    {[at |-> k - job.obs.since, by |-> model, current |-> job.gen /\ job.obs.epoch] :
        k \in {j \in 0 .. Chunk - 1 : job.obs.epoch /\ j - job.obs.since >= ensNext}}

StoreInEnsemble ==
    /\ IAt("store", "leave") /\ job.gen /\ teActive
    /\ ens' = ens \cup Predictions
    /\ ThreadOnly /\ UNCHANGED <<event, job, inFlight, queue, feed, latest, ensNext>>

\* The chunk from its place `from` on, and how the feed follows it.
NewQueue(from, aligned) ==
    [n |-> Chunk - from, at |-> from, by |-> model, since |-> job.obs.since, gen |-> job.gen,
     aligned |-> aligned]

\* Faulty variant of Raw: the first actions of the raw chunk instead of the last ones.
RawHead(n) == [n |-> n, at |-> 0, by |-> model, last |-> feed.last]

\* RtcFeed.replace: the last n of the raw chunk.
Raw(n) == [n |-> n, at |-> Chunk - n, by |-> model, last |-> feed.last]

\* ChunkMerger.merge, RTC, or neither.  Merging drops what has passed unless
\* there is nothing to join to; RTC drops it always; else the chunk is taken whole.
StoreInQueue(merging) ==
    /\ IAt("store", "leave") /\ job.gen /\ ~teActive
    /\ LET aligns == IF merging THEN queue.n > 0 \/ latest # "none" ELSE job.obs.rtc # None
           from   == IF ~aligns THEN 0 ELSE IF Elapsed < Chunk THEN Elapsed ELSE Chunk - 1
       IN /\ queue' = NewQueue(from, aligns /\ Elapsed < Chunk /\ job.obs.fresh)
          /\ feed' = Raw(Chunk - from)
    /\ latest' = "unsent"
    /\ ThreadOnly /\ UNCHANGED <<event, job, inFlight, ens, ensNext>>

Leave ==
    /\ IAt("leave", "wait")
    /\ inFlight' = FALSE /\ job' = NoJob
    /\ ThreadOnly /\ UNCHANGED <<event, buffers>>

InferenceThread ==
    \/ Wake \/ TakeEvent \/ RaiseFlag \/ NothingToDo \/ ReadObservation \/ CaptureGeneration
    \/ Prepare \/ Predict \/ Postprocess \/ Fails \/ Discard \/ StoreInEnsemble
    \/ \E merging \in BOOLEAN : StoreInQueue(merging)
    \/ Leave

Next ==
    \/ MainLoop \/ InferenceThread
    \/ Reset
    \/ \E on \in BOOLEAN : Pause(on) \/ Ensemble(on) \/ Hold(on)
    \/ \E p \in Policies : UsePolicy(p)

Spec == Init /\ [][Next]_vars

\* Both threads run: the robot answers, homing and an inference come to an end.
FairSpec == Spec /\ WF_vars(MainLoop) /\ WF_vars(InferenceThread)

-----------------------------------------------------------------------------
(* Properties *)

\* An inference uses one policy for all it does, and what is kept for sending
\* or for the next inference was made by the policy that is in place: swapped
\* while the thread is about to start, B would read what A's statistics have
\* normalised (lerobot_wrapper.py:975-981, feature/multi-policy.md section 2-3).
OnePolicy ==
    /\ job.used \subseteq {model}
    /\ {queue.by, feed.by, feed.last, obs.rtc, job.obs.rtc} \subseteq {model, None}
    /\ \A e \in ens : e.by = model

\* Once a reset has emptied the buffers, nothing is in them that an inference
\* begun before it has computed, and no prediction made from an observation
\* older than the last emptying of the ensemble (lerobot_wrapper.py:907-912, 923).
NothingOutdated ==
    pc # "wipe" => (queue.n > 0 => queue.gen) /\ \A e \in ens : e.current

\* OnePolicy and NothingOutdated: what is sent is of this policy and of this run of it.
BuffersAreCurrent == OnePolicy /\ NothingOutdated

\* The raw chunk stays beside the queue action for action (rtc_feed.py:14-17), and a
\* queue that was joined at the right place is sent at the step it was predicted for.
FeedFollowsQueue ==
    /\ feed.n = queue.n /\ feed.at = queue.at /\ feed.by = queue.by
    /\ pc = "pop" /\ queue.n > 0 /\ queue.aligned => queue.at = queue.since

\* A policy that is asked for comes into use, or another one is asked for
\* (policy_slots.py:6-9): inferences that follow one another do not keep it out.
SwitchIsServed == \A p \in Policies :
    switch.pending = p ~> (switch.active = p \/ switch.pending # p)

\* Unless paused, held or about to switch, a next inference always comes: no
\* order of the event, the flag and the observation leaves the loop waiting
\* for a thread that waits for it (lerobot_wrapper.py:827-842, 1138-1151).
InferenceGoesOn == []<>(paused \/ switch.holding \/ switch.pending # None \/ ipc = "prepare")

-----------------------------------------------------------------------------
(* What comments promise and the code does not keep: see the README. *)

\* Holding sends the last action again (policy_slots.py:7-9): one that has been sent.
HoldKeepsLast == [][pc = "pop" /\ pc' # pc /\ switch.holding => latest # "unsent"]_vars

\* A reset makes the results of what came before it void (lerobot_wrapper.py:134-137).
ResetVoids == [][ipc = "store" /\ queue' # queue => job.obs.fresh]_vars
=============================================================================
