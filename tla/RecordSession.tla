--------------------------- MODULE RecordSession ---------------------------
(***************************************************************************)
(* A recording that follows a scenario plan: the recorder's main thread    *)
(* (LeRobot's record() with the hooks of wrapper/start_record.py), its     *)
(* control thread, the cursor over the plan (scenario_cursor.py), the data *)
(* set with the sidecar log, and the gateway's side of a session           *)
(* (routers/recording.py, control_bridge.py, scenario/sidecar.py).  The    *)
(* recorder is a systemd unit: it outlives a restart of the gateway.       *)
(***************************************************************************)
EXTENDS Naturals, Sequences, FiniteSets, SequencesExt

CONSTANTS
    Plan,                \* the trials in the order of the plan
    Block,               \* trial -> block
    None,
    Loses,               \* a kill cuts off files that were not finished
    MaxSessions, MaxPresses, MaxRestarts    \* bounds: starts, keys, gateway restarts

ASSUME PlanAssumption == Plan \in Seq(Range(Plan)) /\ IsInjective(Plan) /\ None \notin Range(Plan)
ASSUME SessionBounds == Loses \in BOOLEAN /\ {MaxSessions, MaxPresses, MaxRestarts} \subseteq Nat

VARIABLES
    main,                \* where record() is
    ev,                  \* the events dict that both threads use
    cursor,              \* the cursor's queue, current trial, failed mark and done trials
    buf,                 \* the episode buffer: its trial, and whether it has frames
    n, limit,            \* recorded_episodes, num_episodes
    wait,                \* PIPER_RECORD_WAIT_FIRST, until the first episode
    ctl,                 \* the command in the control thread's hands, and its next step
    keys,                \* the control queue of the bus, oldest first
    data,                \* the data set: the trial of each episode, and if it can be read
    log,                 \* the lines of the sidecar log
    unlogged,            \* history: episodes whose line was not written
    bridge,              \* control_bridge._active
    mapping,             \* _last_recording holds the mapping of this session
    stopping,            \* a request to /stop is waiting
    session, presses, restarts

recordvars == <<main, ev, cursor, buf, n, limit, wait, ctl, keys, data, log, unlogged, bridge,
          mapping, stopping, session, presses, restarts>>
gateway == <<bridge, mapping, stopping, session, presses, restarts>>
store == <<data, log, unlogged>>

Trials == Range(Plan)
Commands == {"right", "left", "escape", "fail", "unfail", "defer"}
Running == main \notin {"off", "done", "dead"}
Events == [exit : BOOLEAN, rerec : BOOLEAN, stop : BOOLEAN]
NoBuffer == [of |-> None, frames |-> FALSE]
Idle == [cmd |-> None, seen |-> None, at |-> "idle"]
NoEvents == [exit |-> FALSE, rerec |-> FALSE, stop |-> FALSE]

\* done_trials(): the lines are the truth of what need not be recorded again
Done == {l.trial : l \in {k \in log : ~k.failed}}

RecordTypeOK ==
    /\ main \in {"off", "top", "prep", "enter", "loop", "after", "reset", "decide", "save",
                 "bind", "push", "done", "dead"}
    /\ ev \in Events
    /\ cursor \in [queue : Seq(Trials), cur : Trials \cup {None}, failed : BOOLEAN, done : SUBSET Trials]
    /\ buf \in [of : Trials \cup {None}, frames : BOOLEAN]
    /\ n \in 0 .. limit /\ limit \in 0 .. 2 * Cardinality(Trials)
    /\ keys \in Seq([cmd : Commands, of : 0 .. session, seen : Trials \cup {None}])
    /\ ctl \in [cmd : Commands \cup {None}, seen : Trials \cup {None}, at : {"idle", "exit", "scen"}]
    /\ data \in Seq([of : Trials \cup {None}, kept : BOOLEAN])
    /\ log \subseteq [trial : Trials, ep : DOMAIN data, failed : BOOLEAN] /\ unlogged \subseteq DOMAIN data
    \* an episode that is being bound was saved, and what is saved had frames
    /\ main = "bind" => data # <<>> /\ buf = NoBuffer
    /\ buf.frames => main \in {"loop", "after", "reset", "decide", "save", "dead"}
    /\ bridge \in BOOLEAN /\ mapping \in BOOLEAN /\ stopping \in BOOLEAN /\ wait \in BOOLEAN
    /\ session \in 0 .. MaxSessions /\ presses \in 0 .. MaxPresses /\ restarts \in 0 .. MaxRestarts

RecordInit ==
    /\ main = "off" /\ ev = NoEvents /\ buf = NoBuffer /\ ctl = Idle
    /\ cursor = [queue |-> <<>>, cur |-> None, failed |-> FALSE, done |-> {}]
    /\ n = 0 /\ limit = 0 /\ wait = FALSE
    /\ keys = <<>> /\ data = <<>> /\ log = {} /\ unlogged = {}
    /\ bridge = FALSE /\ mapping = FALSE /\ stopping = FALSE
    /\ session = 0 /\ presses = 0 /\ restarts = 0

-----------------------------------------------------------------------------
(* The cursor: each operator is one of its methods, which hold its lock *)

\* _to_block_end(): behind the last of the same block, `else` when there is none
BlockEnd(q, t, else) ==
    LET same == {i \in DOMAIN q : Block[q[i]] = Block[t]}
        last == {i \in same : \A j \in same : j <= i}
    IN  IF last = {} THEN else ELSE InsertAt(q, (CHOOSE i \in last : TRUE) + 1, t)

\* begin(): a trial that was neither saved nor dropped comes first again.
Began(c) ==
    LET q == IF c.cur = None THEN c.queue ELSE <<c.cur>> \o c.queue
    IN  [c EXCEPT !.failed = FALSE,
                  !.cur = IF q = <<>> THEN None ELSE Head(q),
                  !.queue = IF q = <<>> THEN q ELSE Tail(q)]

\* Faulty variant of Dropped: the dropped trial is forgotten.
DroppedForGood(c) == [c EXCEPT !.cur = None, !.failed = FALSE]

Dropped(c) ==
    [c EXCEPT !.cur = None, !.failed = FALSE,
              !.queue = IF c.cur = None THEN @ ELSE <<c.cur>> \o @]

\* saved(): a failed trial goes to the end of its block, to be tried again.
Saved(c) ==
    IF c.cur = None THEN [c EXCEPT !.failed = FALSE]
    ELSE IF c.failed
    THEN [c EXCEPT !.cur = None, !.failed = FALSE,
                   !.queue = BlockEnd(@, c.cur, <<c.cur>> \o @)]
    ELSE [c EXCEPT !.cur = None, !.done = @ \cup {c.cur}]

Marked(c, flag) == IF c.cur = None THEN c ELSE [c EXCEPT !.failed = flag]

\* defer(): the next trial to the end of its block; alone in it, to the end of all.
Deferred(c) ==
    IF Len(c.queue) < 2 THEN c
    ELSE [c EXCEPT !.queue = BlockEnd(Tail(@), Head(@), Append(Tail(@), Head(@)))]

Finished(c) == c.cur = None /\ c.queue = <<>>

-----------------------------------------------------------------------------
(* The main thread.  record(): while episodes are missing and nobody stops,  *)
(* record_loop with the data set, record_loop without it (reset), then       *)
(* clear_episode_buffer or save_episode.                                     *)

Step(from, to) == main = from /\ main' = to

Top ==
    /\ Step("top", IF n = limit \/ ev.stop THEN "push" ELSE IF wait THEN "prep" ELSE "enter")
    /\ UNCHANGED <<ev, cursor, buf, n, limit, wait, ctl, keys, store, gateway>>

\* _prepare(): waits for the key, a day if need be; a stop means no episode at all.
PrepEnds ==
    /\ Step("prep", IF ev.stop THEN "after" ELSE "enter")
    /\ ev.exit
    /\ ev' = [ev EXCEPT !.exit = FALSE, !.rerec = FALSE]
    /\ wait' = FALSE
    /\ UNCHANGED <<cursor, buf, n, limit, ctl, keys, store, gateway>>

\* The limit that the screen may give the wait.
PrepTimesOut ==
    /\ Step("prep", IF ev.stop THEN "after" ELSE "enter")
    /\ ev' = [ev EXCEPT !.exit = FALSE, !.rerec = FALSE]
    /\ wait' = FALSE
    /\ UNCHANGED <<cursor, buf, n, limit, ctl, keys, store, gateway>>

Enter ==
    /\ Step("enter", "loop")
    /\ cursor' = Began(cursor)
    /\ buf' = [of |-> cursor'.cur, frames |-> FALSE]
    /\ UNCHANGED <<ev, n, limit, wait, ctl, keys, store, gateway>>

AddFrame ==
    /\ main = "loop" /\ ~ev.exit /\ ~buf.frames
    /\ buf' = [buf EXCEPT !.frames = TRUE]
    /\ UNCHANGED <<main, ev, cursor, n, limit, wait, ctl, keys, store, gateway>>

\* exit_early is read before a frame and taken back; the time may be up as well.
LoopEnds ==
    /\ Step("loop", "after")
    /\ \/ ev.exit /\ ev' = [ev EXCEPT !.exit = FALSE]
       \/ buf.frames /\ ev' = ev
    /\ UNCHANGED <<cursor, buf, n, limit, wait, ctl, keys, store, gateway>>

After ==
    /\ Step("after", IF ~ev.stop /\ (n + 1 < limit \/ ev.rerec) THEN "reset" ELSE "decide")
    /\ UNCHANGED <<ev, cursor, buf, n, limit, wait, ctl, keys, store, gateway>>

ResetEnds ==
    /\ Step("reset", "decide")
    /\ ev' \in {ev, [ev EXCEPT !.exit = FALSE]}
    /\ UNCHANGED <<cursor, buf, n, limit, wait, ctl, keys, store, gateway>>

\* clear_episode_buffer through the hook of the scenario
Discards ==
    /\ Step("decide", "top")
    /\ ev.rerec
    /\ ev' = [ev EXCEPT !.rerec = FALSE, !.exit = FALSE]
    /\ buf' = NoBuffer
    /\ cursor' = Dropped(cursor)
    /\ UNCHANGED <<n, limit, wait, ctl, keys, store, gateway>>

Keeps ==
    /\ Step("decide", "save")
    /\ ~ev.rerec
    /\ UNCHANGED <<ev, cursor, buf, n, limit, wait, ctl, keys, store, gateway>>

\* The guard of the empty buffer: LeRobot counts the episode, nothing is saved.
SavesNothing ==
    /\ Step("save", "top")
    /\ ~buf.frames
    /\ n' = n + 1
    /\ buf' = NoBuffer
    /\ UNCHANGED <<ev, cursor, limit, wait, ctl, keys, store, gateway>>

\* Faulty variant of Save: its own clearing of the buffer is taken for a re-recording.
SaveDrops ==
    /\ Step("save", "bind")
    /\ buf.frames
    /\ data' = Append(data, [of |-> buf.of, kept |-> TRUE])
    /\ buf' = NoBuffer
    /\ cursor' = Dropped(cursor)
    /\ UNCHANGED <<ev, n, limit, wait, ctl, keys, log, unlogged, gateway>>

\* Faulty variant of Save: the frames stay in the buffer.
SaveKeepsFrames ==
    /\ Step("save", "bind")
    /\ buf.frames
    /\ data' = Append(data, [of |-> buf.of, kept |-> TRUE])
    /\ UNCHANGED <<ev, cursor, buf, n, limit, wait, ctl, keys, log, unlogged, gateway>>

Save ==
    /\ Step("save", "bind")
    /\ buf.frames
    /\ data' = Append(data, [of |-> buf.of, kept |-> TRUE])
    /\ buf' = NoBuffer
    /\ UNCHANGED <<ev, cursor, n, limit, wait, ctl, keys, log, unlogged, gateway>>

\* _Scenario.saved(): the line, and the end of the plan.  A line that cannot be
\* written is only reported.
Bind ==
    /\ Step("bind", "top")
    /\ cursor' = Saved(cursor)
    /\ n' = n + 1
    /\ ev' = [ev EXCEPT !.stop = @ \/ Finished(cursor')]
    /\ \/ /\ cursor.cur # None
          /\ log' = log \cup {[trial |-> cursor.cur, ep |-> Len(data), failed |-> cursor.failed]}
          /\ unlogged' = unlogged
       \/ /\ log' = log
          /\ unlogged' = IF cursor.cur = None THEN unlogged ELSE unlogged \cup {Len(data)}
    /\ UNCHANGED <<buf, limit, wait, ctl, keys, data, gateway>>

\* push_to_hub and the finalizing of the data set; then os._exit(0).
Push ==
    /\ Step("push", "done")
    /\ ctl' = Idle
    /\ UNCHANGED <<ev, cursor, buf, n, limit, wait, keys, store, gateway>>

\* The files of a killed recorder are cut off: the episodes that were not yet written
\* out, the youngest ones, cannot be read again.
Cut ==
    \E k \in (IF Loses THEN 0 ELSE Len(data)) .. Len(data) :
        data' = [i \in DOMAIN data |-> IF i > k THEN [data[i] EXCEPT !.kept = FALSE] ELSE data[i]]

RecorderDies ==
    /\ main' = "dead" /\ ctl' = Idle
    /\ IF main = "push" THEN data' = data ELSE Cut
    /\ unlogged' = IF main = "bind" THEN unlogged \cup {Len(data)} ELSE unlogged

\* An E-stop, estopd, or an error in LeRobot
Killed ==
    /\ Running
    /\ RecorderDies
    /\ UNCHANGED <<ev, cursor, buf, n, limit, wait, keys, log, gateway>>

-----------------------------------------------------------------------------
(* The control thread *)

\* rerecord_episode and stop_recording are set before exit_early.
Take ==
    /\ Running /\ ctl = Idle /\ keys # <<>>
    /\ keys' = Tail(keys)
    /\ LET k == Head(keys) IN
          /\ ctl' = [cmd |-> k.cmd, seen |-> k.seen,
                     at |-> IF k.cmd \in {"left", "escape", "right"} THEN "exit" ELSE "scen"]
          /\ ev' = [ev EXCEPT !.rerec = @ \/ k.cmd = "left", !.stop = @ \/ k.cmd = "escape"]
    /\ UNCHANGED <<main, cursor, buf, n, limit, wait, store, gateway>>

\* Faulty variant of SetExit: only the keys of an episode end the loop.
SetExitButStop ==
    /\ ctl.at = "exit"
    /\ ev' = [ev EXCEPT !.exit = @ \/ ctl.cmd # "escape"]
    /\ ctl' = Idle
    /\ UNCHANGED <<main, cursor, buf, n, limit, wait, keys, store, gateway>>

SetExit ==
    /\ ctl.at = "exit"
    /\ ev' = [ev EXCEPT !.exit = TRUE]
    /\ ctl' = Idle
    /\ UNCHANGED <<main, cursor, buf, n, limit, wait, keys, store, gateway>>

\* _Scenario.command()
Command ==
    /\ ctl.at = "scen"
    /\ cursor' = CASE ctl.cmd = "fail" -> Marked(cursor, TRUE)
                   [] ctl.cmd = "unfail" -> Marked(cursor, FALSE)
                   [] ctl.cmd = "defer" -> Deferred(cursor)
    /\ ctl' = Idle
    /\ UNCHANGED <<main, ev, buf, n, limit, wait, keys, store, gateway>>

-----------------------------------------------------------------------------
(* The gateway *)

\* The trials that are not done, in the order of the plan
Remaining(q) ==
    /\ IsInjective(q) /\ Range(q) = Trials \ Done
    /\ \A i, j \in DOMAIN q : i < j =>
          \E a, b \in DOMAIN Plan : a < b /\ q[i] = Plan[a] /\ q[j] = Plan[b]

\* The cursor of a new session
PlannedAnew ==
    \E q \in [1 .. Cardinality(Trials \ Done) -> Trials \ Done] :
        /\ Remaining(q)
        /\ cursor' = [queue |-> q, cur |-> None, failed |-> FALSE, done |-> Done]

\* Faulty variant of start: the queue of the last session is kept.
startUncleared ==
    /\ ~Running /\ session < MaxSessions
    /\ Done # Trials
    /\ session' = session + 1 /\ bridge' = TRUE /\ mapping' = TRUE
    /\ main' = "top" /\ ev' = NoEvents /\ buf' = NoBuffer /\ n' = 0 /\ wait' \in BOOLEAN
    /\ PlannedAnew
    /\ limit' = 2 * Cardinality(Trials \ Done)
    /\ UNCHANGED <<ctl, keys, store, stopping, presses, restarts>>

\* start_recording(): the queue is emptied, the plan without what is done goes to the
\* bus, and the unit starts with room for every trial to fail once.
start ==
    /\ ~Running /\ session < MaxSessions
    /\ Done # Trials
    /\ keys' = <<>>
    /\ session' = session + 1 /\ bridge' = TRUE /\ mapping' = TRUE
    /\ main' = "top" /\ ev' = NoEvents /\ buf' = NoBuffer /\ n' = 0 /\ wait' \in BOOLEAN
    /\ PlannedAnew
    /\ limit' = 2 * Cardinality(Trials \ Done)
    /\ UNCHANGED <<ctl, store, stopping, presses, restarts>>

\* control_bridge.send()
Send(cmd) ==
    keys' = IF bridge THEN Append(keys, [cmd |-> cmd, of |-> session,
                                                 seen |-> IF cmd = "fail" THEN cursor.cur ELSE None]) ELSE keys

\* /skip, /rerecord, /scenario/fail, /scenario/defer
Press(cmd) ==
    /\ Running /\ presses < MaxPresses
    /\ Send(cmd)
    /\ presses' = presses + 1
    /\ UNCHANGED <<main, ev, cursor, buf, n, limit, wait, ctl, store, bridge, mapping, stopping,
                   session, restarts>>

stop ==
    /\ session > 0 /\ ~stopping /\ presses < MaxPresses
    /\ Send("escape")
    /\ stopping' = TRUE /\ presses' = presses + 1
    /\ UNCHANGED <<main, ev, cursor, buf, n, limit, wait, ctl, store, bridge, mapping, session,
                   restarts>>

\* control_bridge.stop()
BridgeStops == bridge' = FALSE /\ keys' = <<>> /\ stopping' = FALSE

StopReturns ==
    /\ stopping /\ (~Running \/ main = "push")
    /\ BridgeStops
    /\ UNCHANGED <<main, ev, cursor, buf, n, limit, wait, ctl, store, mapping, session, presses,
                   restarts>>

\* GRACEFUL_STOP_S are over: record_manager.stop().
GraceRunsOut ==
    /\ stopping /\ Running /\ main # "push"
    /\ RecorderDies /\ BridgeStops
    /\ UNCHANGED <<ev, cursor, buf, n, limit, wait, log, mapping, session, presses, restarts>>

\* The unit is found again; the bridge and the mapping start empty.
GatewayRestarts ==
    /\ restarts < MaxRestarts /\ Running
    /\ restarts' = restarts + 1
    /\ bridge' = FALSE /\ mapping' = FALSE /\ stopping' = FALSE
    /\ UNCHANGED <<main, ev, cursor, buf, n, limit, wait, ctl, keys, store, session, presses>>

MainStep ==
    \/ Top \/ PrepEnds \/ Enter \/ AddFrame \/ LoopEnds \/ After \/ ResetEnds \/ Discards
    \/ Keeps \/ SavesNothing \/ Save \/ Bind \/ Push
ControlStep == Take \/ SetExit \/ Command

RecordNext ==
    \/ MainStep \/ ControlStep \/ PrepTimesOut \/ Killed
    \/ start \/ stop \/ StopReturns \/ GraceRunsOut \/ GatewayRestarts
    \/ \E cmd \in Commands \ {"escape"} : Press(cmd)

RecordSpec == RecordInit /\ [][RecordNext]_recordvars

\* Both threads of the recorder go on: its loops are bounded by episode_time_s and
\* reset_time_s, the bus is polled.  Only the wait before the first episode is not.
RecordFairSpec == RecordSpec /\ WF_recordvars(MainStep) /\ WF_recordvars(ControlStep)

-----------------------------------------------------------------------------
(* Properties *)

\* Cursor: whatever the two threads do, each trial of the plan is waiting, being recorded
\* or done, and only one of these, once.
Conserved ==
    session > 0 =>
        LET waiting == Range(cursor.queue)
            now == {cursor.cur} \ {None}
        IN  /\ IsInjective(cursor.queue)
            /\ waiting \cup now \cup cursor.done = Trials
            /\ waiting \cap now = {} /\ (waiting \cup now) \cap cursor.done = {}

\* Sidecar: a line names the trial that the episode was recorded for, a trial succeeds
\* once, and a saved episode of the plan has its line unless writing it failed or the
\* recorder died in between: over re-recordings, empty episodes, kills and resumptions.
LogIsTrue ==
    /\ \A l \in log : l.ep \in DOMAIN data /\ data[l.ep].of = l.trial
    /\ \A k, l \in log : k.trial = l.trial /\ ~k.failed /\ ~l.failed => k = l
    /\ \A e \in DOMAIN data : \/ data[e].of = None \/ e \in unlogged
                              \/ \E l \in log : l.ep = e
                              \/ main = "bind" /\ e = Len(data)

\* control_bridge: no key of an earlier session reaches a recorder.
KeysOfThisSession == Running => \A i \in DOMAIN keys : keys[i].of = session

\* Recorder: a stop that comes while record() waits or records ends its loop, whatever other
\* keys and whatever time-outs take exit_early back: it is set, or about to be.
StopIsHeard ==
    ev.stop /\ main \in {"prep", "enter", "loop"} => ev.exit \/ ctl.at = "exit"

\* Recorder: once stop_recording is set the recorder ends, from the wait before the first
\* episode too.
EscapeEnds == ev.stop /\ Running ~> ~Running

-----------------------------------------------------------------------------
(* What the sources say and the code does not do *)

\* start_record: "this line is the truth" of what has been recorded.
DoneIsKept == \A l \in log : data[l.ep].kept
\* routers/recording: after a restart of the gateway there is no recording.
RestartFindsNone == Running => mapping
\* GRACEFUL_STOP_S: /stop lets the recorder finish its episode.
StopReachesRecorder ==
    [][stopping' /\ ~stopping /\ Running => Len(keys') = Len(keys) + 1]_recordvars
\* /scenario/fail: the mark is for the episode on the screen.
FailMarksWhatWasSeen ==
    [][Command /\ ctl.cmd = "fail" /\ cursor'.failed => cursor.cur = ctl.seen]_recordvars
=============================================================================
