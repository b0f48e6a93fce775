# PIPER Studio: a TLA+ development

PIPER Studio lets a person teach, record and run robot arms from a browser. The
core of it is small: a gateway that owns subprocesses, daemons that own hardware,
a few bytes in `/dev/shm` between them, a few keys in Redis, and a watchdog that
must stop the arms when all else fails. The pieces take few locks and share no
transactions. This directory models that core, checks it with TLC and proves part
of it with TLAPS.

Paths are those of the repository. Line numbers in comments and in `PROJECT.json`
refer to the commit the models were written from.

## 1. The system

```
 browser ── nginx ── gateway (backend/app, one asyncio loop + a few threads)
                       │  children: LeRobot inference / recording (wrapper/)
                       │  systemd units: the same, when the runner is systemd; training
                       │  sessions: jog, relay, target input (in its own threads)
                       ├── Redis (bus/): activity PIDs, armed, heartbeat; requests to daemons
                       └── /dev/shm (shm/): state, action and frame segments
 host daemons:  robotd  one ArmBridge per CAN interface: state out, commands in
                estopd  kills the registered PIDs when the heartbeat is old
                camerad, rsd, simd, so101d, unitd, detector_traind
```

| component | state it keeps | operations | hard behaviour | what makes it correct |
|---|---|---|---|---|
| **Arm segment** `shm/piper_shm/arm.py` | header (`write_seq`, `n_slots`, `deadman_ms`), ring of records | publish, `read`, `read_new`, re-open | unlocked copy next to the writer; writer dies and another opens the file | no torn record; a read returns what was latest at some moment of it; it comes back empty only when lapped |
| **Command path** `robot/piper_robot/publish.py`, `services/teleop.py`, `jog.py`, `relay.py`, `vendor/lerobot_robot_pipershm` | the file's name and inode, the session's modes and lock, the loop's reader | attach, start, lease check, take-over, publish, hold, detach, stop, engage, disengage | several programs share a name that outlives or precedes its inode; consumers crash; deadman | one consumer at a time; a lock as long as a session; silence makes the arm hold; the owner is heard |
| **ProcessManager** `services/process_manager.py` | `_state`, `_process`, reader tasks | start, stop, kill, ensure_log_reader | everything awaits; exit, end of pipes and signals in any order | nothing behind IDLE, stop ends, exit is noticed |
| **E-stop** `services/estop_bridge.py`, `daemons/estopd.py`, `bus/piper_bus` | Redis: PID per activity, `armed`, heartbeat | sync after each change, beat, arm, trigger, manual stop | two programs write the same keys one at a time; restarts; hangs | whoever moves an arm is on the bus and watched; silence stops them; nothing armed over idle arms |
| **Activity gate** `services/exclusivity.py`, `systemd_process.py` | conflict table; cached states of owners | require_idle, start, stop, estop_all | check and start are apart; caches; owners of different kinds | contending activities never run together; what runs is seen; E-stop leaves nothing |
| **Recording** `wrapper/start_record.py`, `scenario_cursor.py`, `routers/recording.py`, `control_bridge.py`, `scenario/sidecar.py` | LeRobot's events, the cursor (queue, current trial, done), episode buffer, data set, sidecar log, control queue | start/save/retake an episode, keys, fail, defer, stop, resume | two threads in the recorder; keys during a save; kills; a gateway that restarts beside it | no trial lost or recorded twice; the log is true; keys of this session only; a stop ends it |
| **Inference** `wrapper/lerobot_wrapper.py`, `policy_slots.py`, `temporal_ensemble.py`, `rtc_feed.py` | slots, pending switch, observation and event, action queue, RTC feed, ensemble | step, infer, switch, hold, pause, reset, change of mode | three threads, one small lock; results that arrive after an emptying | what is sent is of this policy and this run; queue and raw chunk in step; switches served |
| Scenario planning `services/scenario` | plan, progress | plan, balance, sort | - | counts add up |
| Safety, load, CAN `robot/piper_robot` | limits, dwell timers | filter, trip, release | order of clamps, dwell | nothing out of limits goes out |
| **Arm link** `bus/piper_bus/client.py`, `daemons/robotd.py`, `piper_robot/hub.py`, `services/robot_manager.py`, `device_watch.py` | request list, reply keys, sign of life; handle and bridge; `ArmInfo.connected` | connect, disconnect, scan, reset, take down, poll, watch; serve, beat; restart | callers that leave their requests behind; three threads that write one flag; unplugging; restarts | an answer belongs to its request; the last word wins; no ghost |
| Control and parameter queues, notices `control_bridge.py`, `param_bridge.py` | queues | push, drain, subscribe | pub/sub without replay | in RecordSession and PolicyLoop, but for the notices |
| **Cameras** `rs/piper_rs/hub.py`, `daemons/rsd.py`, `services/camera_manager.py`, `device_watch.py` | references and segments of a stream, pipeline, read thread, lost mark | connect, disconnect, probe, scan, idle stop, loss, reset | a serve loop, read threads and the gateway's watch on the same fields; a driver that hangs | one reader of an open pipeline, none of a closed one; a camera that is gone is given up; every request is answered |
| USB cameras and the frame ring `camerad`, `shm/segment.py` | frame ring | publish, read | as the arm segment, with big records | as the arm segment |
| **Cloud rental** `services/cloud`, `services/training/runners/ssh.py` | the flow's task and job, registry record, runner of TrainManager, machine, tmux session, Hub | rent, train, retrieve, rescue, destroy, stop now, sweep | failure and crash between any two steps; flows, budget, stop and sweeper on one machine | no machine left running unseen, weights sought before it goes, runner given back |
| Local training `services/training` | job, unit | start, stop, re-attach | restart | - |
| Plugins `services/plugins.py`, `plugin/` | running processes, grants | start, stop, call | scopes, restart | an action needs its grant |
| Phase labelling `phase/` | machine per gripper | feed a sample | - | labels partition the episode |
| Simulated and SO-101 arms | as robotd | as robotd | as robotd | as robotd |
| Device watch, configuration, datasets, hub, agents, logs, browser, deployment | files, pages | - | - | - |

`PROJECT.json` lists all components with their sources and, under `hazards`, each
place where this code is hard to test, with the properties aimed at it or the
reason that none covers it.

Interaction between the modelled parts: `require_idle` (gate) lets an endpoint start
a child through **ProcessManager** or a unit through `SystemdProcess`; either reports
a state change, on which **E-stop**'s bridge writes the bus. The child, or a session
of the gateway, opens the **command path** and publishes in an **arm segment**, from
which robotd's loop feeds the CAN bus. A **recording** gets its keys from the gateway over
a queue in Redis; an **inference** gets switches and parameters over another; both read frames from the segments that **cameras** are published in.
A **rental** replaces the runner through which the gate sees a training.

## 2. Modules

| module | models | EXTENDS / INSTANCE |
|---|---|---|
| `LatestRecord` | abstract: what a segment promises its readers | |
| `ArmSeqlock` | `arm.py`: writer, reader, re-open, word by word | `Promise == INSTANCE LatestRecord` |
| `ArmSeqlockProofs` | theorems on it | `ArmSeqlock`, `TLAPS` |
| `ArmCommand`, `ArmCommandProofs` | who drives one arm (and the proofs about `RobotLink`) | |
| `ProcessManager`, `ProcessManagerProofs` | the owner of a child (and the proofs about `RecordSession`) | |
| `EstopWatch`, `EstopWatchProofs` | bridge, Redis keys, estopd | |
| `ActivityGate`, `ActivityGateProofs` | the table, the gate, the owners' states, estop_all | |
| `PolicyLoop`, `PolicyLoopProofs` | the threads of the inference child | |
| `RecordSession` | recorder, cursor, sidecar, control queue | |
| `RealSenseDevice`, `RealSenseDeviceProofs` | a camera of rsd and the gateway's view of it | |
| `CloudRental`, `CloudRentalProofs` | rented machines, from procuring to the sweeper | |
| `RobotLink` | one arm between gateway and robotd: requests in Redis, what is held, what is shown | |
| `MC...` | the instances for TLC | the module of that name |

Definitions marked "Faulty variant of X" are what a plausible mistake would turn X
into. No behaviour uses them; putting one in the place of X makes the property it is
listed with in `PROJECT.json` (`mutants`) fail, which shows that the property looks
at that line.

### ArmSeqlock

A record is a function from words to the publication each word comes from
(`[life, seq]`). `WriteWord` and `ReadWord` copy one word, in any order, so every
way in which a `memcpy` can be overtaken is there. `LoadSeq`, `Accept`, `Retry` and
`GiveUp` are the body of `_read_slot`; `BeginRead(TRUE)` is `read_new`, which asks
only above `_last_seq`. `Reopen` is a second `_Writer.__init__` on the file: the
header goes back to zero and the slots keep their bytes. Stores become visible in
program order: x86-64, which arm.py:184 relies on too. `since` and `rlife` are
history variables.

### ArmCommand

`path` is the name in `/dev/shm`, `seg` the inodes, `ino` what each consumer has
mapped, so that a name and a mapping can part. `CreateFile` and `WriteHeader` are
separate: between them the file is empty. Clocks appear as the age of the last
record: `fresh`, `late` (past `deadman_ms`), `expired` (past `STALE_LEASE_S`);
`Elapse` ages a record except while the loop is about to send it, as it polls every
millisecond. `StartProxy`/`Disconnect`/`Kill` are the LeRobot child's bus,
`StartWeb ... Close`, `Engage`, `Disengage`, `StopReleased` the sessions of the
gateway, `Attach ... StillFresh` one turn of `_command_loop` each.

Assumed: a gate and its start are one step (true of the jog, which has no await in
between; for the others see `ActivityGate`, `GateTogether.cfg`);
`deadman_ms` is not zero (it never is in the callers; zero switches `is_stale` off);
the gateway runs as root and can unlink what it takes over. `DaemonMayUnlink` says
whether robotd can, which depends on the sticky bit of `/dev/shm` and its user.
`Cross` is a relay between two arm models, the only one that can disengage.

### ProcessManager

One action is the code between two awaits; `req[r].at` names the await a request
stands at. The child runs, gets signals, dies with a code; asyncio learns of the
exit (`Reap`) and of the end of the pipes (`PipesEnd`) independently. `woken` holds
the waiters that a reaped child has put into the ready queue: they run before
anything that arrives later, as asyncio (Python 3.13, `backend/Dockerfile.base:22`)
resolves all `wait()` futures in one callback. `ReaderDies` is a line beyond the
stream's limit. `Grandchildren` lets a child of the child hold the pipes open.

### EstopWatch

`sync_activities` is read PID, write key, next activity, then armed, then beat: one
step per access, since Redis orders single commands and nothing more. The
heartbeat's age is `none`, `fresh` or `old`. `mgr` is what an owner in the gateway
believes, `proc` what runs. `Poll`, `Judge`, `Snapshot`, `KillOne`, `Disarm` are
estopd. Switches select the environment: `Hangs`, `Restarts`, `Headless` (starts
without a browser), `Prompt` (a trip of estopd is over before anything else starts),
and more than one thread in `Threads`.

### ActivityGate

`BLOCKED_BY` is the table of exclusivity.py. A request passes `Check`, and starts
later by the kind of owner: `StartChild` (looks at its own state again), `StartUnit`
(does not), `StartSession`, `Work` (no owner at all: index repair, and the rows of the
table that are blocked and block nothing). The relay asks with `allow_self`, so a session
that runs does not stop a second arm from joining it (the jog does ask, and is refused by
the session in the model). Units end without
notice and `AskUnit` is the provider's question to systemd. `estop_all` is a loop over
`ESTOP_TARGETS` with an await in every kill: `EstopAll` goes to the first target that is
busy and holds a process (`Waits`), and `EstopReaps` is the end of that wait and the way
to the next (`GoesOn`); `turn` says where the loop is. While it waits, requests start and
stop what they like, children end, and each later target answers for what it is by then.
A session is closed without an await. `pressed` and `overtaken` are history: what lived
at the press and still does, but for a process that was just being spawned, which no
owner can kill yet; and the requests it met past their check. Bound: one `estop_all` at a
time. Many plugins count as one. The encoder probe and the changes of a virtual scene only
ask `blocked_reason`: where the model does not start them, the code falls back or refuses.

### PolicyLoop

Only the buffers are under `_action_lock`. A step is the code between two accesses
that another thread can tell apart, so the event, `_inference_in_flight`, the
observation and `_reset_gen` are each read and written alone. `pc` walks through one
turn of the main loop: `LookForSwitch`, `LookForInference`, `ClearForSwitch`,
`AssignModel`, `AssignProcessing`, `SwitchDone`, then `BeginReset`, `Wipe`, `Homed`, the
pause, `FollowMode`, the pop, and `Trigger` and `Take`, which wake the thread. `ipc` walks through `_inference_thread_fn`.
The listener's `UsePolicy`, `Hold`, `Pause`, `Reset`, `Ensemble` come at any moment.
Counters are relative: `since` is the age of an observation in steps, a generation or an
epoch is a bit that says if it is still the present one, and both are capped at `Chunk`.
Whether the queue is short enough to infer again, whether chunks are merged and whether
a policy can do RTC is left open. A chunk is its policy and its place in time; an
observation from before a reset counts as one of step 0, as its number does. Left out:
loading, waiting for a target (which acts as a pause), manual moves, the action filter,
recording, telemetry and the parking at the end.

### RecordSession

`main` is where LeRobot's `record()` is, with the hooks that start_record.py hangs into
it; `ctl` is the control thread between taking a key and having set the last of its
events. The order of `rerecord`/`stop` and `exit_early`, the hook on
`clear_episode_buffer` (which `save_episode` calls too), the empty buffer that LeRobot
counts, and the line in the sidecar after the save are all steps of their own.
`cursor` is scenario_cursor.py as it stands. The gateway's `start` empties the queue,
plans what is not done and starts a unit; `stop` sends the key and waits, and may still
be waiting when the next session begins, which it then takes for the one it waits for; `Killed` is an
E-stop, estopd or an error; the gateway restarts beside it. Left out: frames, the choice
of the back end, the text of a task.

### RealSenseDevice

`pc[Main]` is the serve loop in a request, `pc[r]` a read thread. `_stop_pipeline` is
four steps (`stop`, `close`, `drop`, `clear`) that the loop and a thread that declares
the camera lost both take, the second without a lock; `closing` is what each of them
is about to close and whom it joins. `file` and `pub` part, as in ArmCommand.
`Watch` is the gateway's device watch with its idle stops, `Faulty` and `Mended` are the
camera. `HangingSpec` adds a driver that does not return in the two seconds of `join`.
Threads that have ended give their identity back. A consumer is followed only where
the idle time matters.

### CloudRental

One asyncio task carries a rental; `job[j].pc` names the await it stands at, from
`creating` to `finish`. Machine, session, checkpoint and Hub outlive a `Crash`; what
was in memory does not, and `Boot` releases claims as `main.py` does. The budget,
`stop_now`, the finally blocks and a person destroy the same machine. `Made` comes
before `Created`, so that a rental may fail over a machine nobody has noted; an ssh that
cannot connect looks like a session that has ended (`StateRead`). All jobs have the registry
record of the id "local", and one repository on the Hub. Bounds beside the constants:
one `stop_now` per life of the gateway; a crash, and a training of this machine, begin
only while a rental is busy; the box is destroyed by hand only during a visit.

### RobotLink

A request is in `queue`, in `serving`, answered under its key, or nowhere; `call[c]`
says which one a thread of the gateway waits for and in which operation, `GiveUp` is the
deadline after which the request goes its way alone. The endpoints of the arms are
`async` functions that call robotd synchronously, so the event loop has one request at a
time, beside the poll of the page (an executor thread) and the device watch (another).
What each makes of an answer is `Use`: `absorb` keeps what it knows when an answer is
empty, the poll and the scan do not, a disconnect takes any answer for a yes, `clear_all`
drops the `ArmInfo` that the poll may still hold (`mine`). `Take`, `Execute` and `Answer`
are the serve loop; connect is one step, as no other request of robotd can meet it half done.
`handle` may be `stale` (the adapter was pulled out: the SDK goes on with its last
values), `bridge` may be `lost`, or `orphan`, a segment a killed robotd has left.
`word` and `since` are history. Left out: roles and modes, which do not change what is
held; what arrives while robotd drops torque; other daemons' arms in the same registry.

## 3. Runs

Every action of every module fires in one of these runs, but for `Reopen` of
`ArmSeqlock`, which is in the proofs and in `SeqlockReopen.cfg`: `CleanWithinLife` on 3
slots, 4 records and 2 re-openings, 314,784 states. `TypeOK` is checked where it says
more than types; of `ArmSeqlock`, `ActivityGate` and `RealSenseDevice` it is only proved.

| run | instance | states | shows |
|---|---|---|---|
| `seqlock_one_writer` | 3 slots, 2 words, 2 tries, 7 records | 14,597 | `NoTornRecord`; refinement of `LatestRecord` (`ReadsAreLatest`); `GivesUpOnlyLapped` |
| `command_owners` | 2 children, jog, relay, 3 files, 2 records each | 1,264,902 | `LockCoversSession`, `OneAtATime`, `TakeOverSparesTheLiving` |
| `command_deadman` | 1 child, jog, cross-model relay, 2 files | 238,849 | `DeadmanCatches` |
| `process_life` | 3 requests, 3 children, long lines | 8,737 | `ChildIsHeld`, `StopEnds`, `EndIsSeen` |
| `estop_watch` | a child and a plugin's unit, hangs, restarts, 3 PIDs | 123,514 | `WatchFollows`, `SilenceStops` |
| `gate_table` | the table but for the upload, one request at a time | 48,013 | `NoContention` |
| `gate_children` | owners of children and a session, two requests, one `estop_all` after another | 55,420 | `RunningIsSeen`, `EstopLeavesNothing` |
| `policy_loop` | 2 policies, chunks of 2 actions, 2 parameters sent | 514,241 | `BuffersAreCurrent`, `FeedFollowsQueue`, `SwitchIsServed`, `InferenceGoesOn` |
| `record_session` | 2 trials of a block, 2 sessions, 2 keys, 1 gateway restart | 364,339 | `Conserved`, `LogIsTrue`, `KeysOfThisSession`, `EscapeEnds` |
| `camera` | 1 stream, 2 connects, 2 read threads, 1 fault of the camera | 549,425 | `OneReader`, `GoneIsGivenUp`, `RequestEnds` |
| `cloud_rent` | 1 rental, 1 visit to a box, 1 crash | 680,181 | `RunnerReturns`, `ScanIsExact`, `SoughtBeforeDestroyed`, `CostEnds` |
| `robot_link` | 3 callers, 2 requests at a time, 1 fault | 208,024 | `LastWordWins`, `ToldTheTruth`, `NoGhost` |

Why the bounds are enough. *Seqlock*: three slots are the fewest with a slot that is
neither being written nor the one being read (the code's rings are larger); seven
records lap the ring twice, so every slot is reused under a reader; two words suffice
to tear a record; two tries reach `GiveUp`. `ArmSeqlockProofs` removes these bounds. *Command path*: three files let a consumer leave one
behind, a second take it over and a third come; with two records a sequence number
can meet a smaller one of a new file. *ProcessManager*: three requests are a start,
a stop and an E-stop at once; three children are the present one, one that ends and
one that starts. *Watchdog*: two activities of different kinds and three PIDs let
each be restarted during a sync. *Gate*: two requests are enough for any race on a
pair of activities, and the table's entries are pairwise. *Policy*: chunks of two
actions have a first and a last and can be joined a step off; two messages are a switch
and what disturbs it. The safety properties also hold with chunks of three
(1,163,280 states) and with three messages (1,769,942). `PolicyLoopProofs` removes the
bounds. *Recording*: two trials of a block are what defer and fail reorder, two
sessions are one that is resumed, and two keys one that meets the other half done.
`ProcessManagerProofs` removes the bounds; before that the inductive invariant was checked
with three keys and lost files (10,939,827 states) and with three trials in two blocks.
*Camera*: two threads are one that hangs on and its successor; a second connect lets a
release be the last or not. The safety properties also hold with two streams
(13,046,393 states). *Rental*: a rental and a visit after it, in either order, are
enough for the one's remains to meet the other; a second crash meets nothing that
the first has not. *Arm link*: two requests are one that is
given up and one that is waited for; a fault is an adapter pulled out, an answer too
late, or an end of either program. The safety properties also hold with three requests
(4,303,390 states) and with two faults (678,097), and `ArmCommandProofs` removes
these bounds.

Fairness. `ArmCommand`: weak fairness of the command
loop's thread alone, a daemon thread that polls for ever; nothing of writers,
consumers or the gateway. `ArmSeqlock` needs none in its runs; `FairReopenSpec`, the reader's
thread, serves its counterexample alone. `ProcessManager`: what asyncio has made ready runs, a
SIGKILL takes effect, `wait_for` expires, a browser connects again some day (which is
when `ensure_log_reader` runs). SIGTERM may be ignored and nobody has to press
anything. `EstopWatch`: estopd alone, a systemd service of its own; the gateway may
hang or die for good. `PromptSpec` of `ArmCommand` (in `CommandOrphan.cfg`) adds that a
consumer starts more slowly than the loop's 50 ms check, which favours the code.
`PolicyLoop`: the main loop and the inference thread run, which takes a robot that
answers, and homing and an inference that end; nothing of the operator. `RecordSession`:
the recorder's two threads, whose loops are bounded by `episode_time_s`,
`reset_time_s` and the poll of the bus; not the wait before the first episode.
`RealSenseDevice`: the serve loop and the read threads. `CloudRental`: the asyncio loop
runs what is ready, waits have deadlines, the budget's clock advances, the sweeper
comes round and a supervisor restarts the gateway; that a training ends or that a
person looks is not assumed. `RobotLink`: the gateway's threads, the serve loop, the
heartbeat and the bridge run, systemd restarts robotd, and the page of the arms, which
polls every second, is open or opened again (`SF` of `PollArms` and `WatchArms`, since a
request waits in the model for an identity to be free). Without the page `NoGhost` fails:
after robotd has restarted nothing else lowers the flag.

`CHECK_DEADLOCK FALSE` everywhere: bounded counters run out, and an idle system is a
legal end.

### Disagreements with what the repository says

Counterexamples, met while modelling. Each config violates the one property it names:
`tlc -config X.cfg MC<module>` (`RobotLink` itself, which needs no MC module). Where "X + P" stands, P takes the place of the
properties of X.cfg (as INVARIANT, or as PROPERTY if it is about steps).

| config (module) | property | trace, against what is said |
|---|---|---|
| `SeqlockReopen` + P (ArmSeqlock) | `NoTornRecord` | a writer that re-opens a used file under a reader: words of two lives. arm.py:214 |
| `SeqlockReopenIgnored` | `DeliversNew` | the new writer's numbers are below the reader's `_last_seq`. arm.py:278 |
| `CommandOrphan` (ArmCommand) | `OwnerIsHeard` | after a take-over robotd goes on reading the deleted inode: it asks only whether a file of that name exists (publish.py:330), and `orphaned` (arm.py:241-244) is never asked |
| `CommandLockLeak` + P | `SendsOnlyFresh` | a file left by a dead consumer is read from sequence 0: its last goal is sent. publish.py:144-146 |
| `CommandRelease` | `ReleaseStopsArm` | disengage in mid-motion: the missing file counts as a clean departure and no hold is sent. relay.py:363-366 |
| `CommandDeadman` + P | `EngageRefused` | engage does not ask require_idle and meets a child that has not created its file yet. relay.py:328-330 |
| `CommandLockLeak` | `LockHasOwner` | `require_healthy_bus` raises in the jog's start: the lock stays. jog.py:117; relay.py:230-234 repaired the same |
| `CommandLockLeak` + P | `StopSparesOthers` | stopping a relay that had let go unlinks the present user's file. teleop.py:57-60 |
| `CommandLockLeak` + P | `LoopSurvives` | the loop maps the file between create and ftruncate: ValueError ends the thread. publish.py:313-315 |
| `ProcessDeadReader` (ProcessManager) | `ExitIsAlwaysNoticed` | a line over 64 KB ends the stdout reader; if the child then exits, the manager stays RUNNING, and STOPPING after a stop |
| `ProcessEstop` | `EstopKills` | kill() during STARTING has no process to kill. process_manager.py:210 |
| `ProcessGrandchild` | `NothingBehindIdle` | a stop during STARTING works on the child before, dead but with its pipes held open by a grandchild: it says IDLE at once and the new child runs on. exclusivity.py:138-142 |
| `EstopArming` (EstopWatch) | `ArmingIsNoTimeout` | armed before the beat: the old heartbeat trips it. estop_bridge.py:143 |
| `EstopReattach` | `Watched` | the sync at boot comes before units are found again. main.py:120 |
| `EstopArming` + P | `Watched` | callbacks are installed when a browser connects. ws.py:91, external.py:8-10 |
| `EstopTwoSyncs` | `Watched` | a unit's watch thread and the loop sync at the same time. systemd_process.py:283 |
| `EstopClobbers` | `SilenceStops` | `trigger` deletes a PID written since its snapshot. estop_bridge.py:8 |
| `EstopOldKey` | `NoStalePid` | `_seen` is lost with the gateway, the key is not. plugins.py:660 |
| `GateTogether` (ActivityGate) | `NoContention` | two requests pass `require_idle` before either has started |
| `GateUnitEstop` | `EstopLeavesNothing` | `SystemdProcess` has no `kill`: a unit survives estop_all |
| `GateUnitTwice` | `RunningIsSeen` | overlapping starts of a unit leave it running under ERROR. systemd_process.py:77 |
| `GateRepair` | `NoContention` | index repair runs unseen. datasets.py:416 |
| `GateOvertaken` | `EstopHolds` | a start past its check goes on after the E-stop. exclusivity.py:195-196 |
| `Policy` + P (PolicyLoop) | `HoldKeepsLast` | a hold that comes during an inference: the result is stored and its first action sent. policy_slots.py:7-9, feature/multi-policy.md section 2-2 |
| `Policy` + P | `ResetVoids` | the generation is read after the thread has woken: an observation from before the reset passes for a new one. lerobot_wrapper.py:134-137, 907-912 |
| `Record` with `Loses = TRUE` + P (RecordSession) | `DoneIsKept` | a kill cuts off the last files; their lines in the sidecar stay. start_record.py:126 against record_manager.py:45-50 |
| `Record` + P | `RestartFindsNone` | a recorder that outlives the gateway has no mapping. recording.py:16-17 against main.py:191 |
| `Record` + P | `StopReachesRecorder` | after a restart the control bridge is not active and drops the key of /stop. recording.py:461-474, control_bridge.py:115-117 |
| `Record` + P | `FailMarksWhatWasSeen` | the mark goes to the trial that is current when the key is taken. recording.py:585-587 |
| `Camera` with `Streams <- Both` + P (RealSenseDevice) | `UnheldIsClosed` | a released stream stays in the pipeline for the sake of the other. hub.py:361, idle.py:1 |
| `Camera` + P | `ReleaseUnlinks` | after a re-opening that failed no publisher is open, and only an open one removes its segment: the last release leaves it. hub.py:361-373, tests/test_shm_transport.py:587 |
| `Camera` + P | `ConnectedIsOpen` | the lost mark is taken back by a request before the watch has seen it. hub.py:692 |
| `Camera` + P | `HeldStaysOpen` | the same: a stream that is held is closed, and nobody is told |
| `Camera` with `HangingSpec`, `MaxHangs = 1` + P | `NothingComesBack` | a read thread that hangs for longer than the join publishes after the close |
| `CloudRent` + P (CloudRental) | `OrphanIsReported` | the last rental's orphan is known through `_job`. sweeper.py:108-110 against 90-92 |
| `CloudRent` + P | `DoneIsThisRun` | weights of another run on the same repository or machine count. retrieve.py:310-316 against 152-155 |
| `CloudRent` + P | `FailedCreateIsFree` | create has made the machine when its status fails. procure.py:255 |
| `CloudRent` + P | `DestroysNoTraining` | an ssh that cannot connect is an end of the training. ssh.py:226-228 against 223-224 |
| `CloudRent` + P | `LocalIsSeen` | the runner is swapped under a training of this machine. rent.py:81-89, 134 |
| `CloudRent` + P | `StopIsFinal` | stop_now says it is over while the flow goes on to a machine |
| `CloudRent` with `Overlap = TRUE` + P | `OneAtATime` | busy() is asked before an await. rent.py:253-261 |
| `RobotLink` + P (RobotLink) | `DownSparesHeld` | a connect whose answer is given up is done all the same; the gateway shows the arm as free and lets its interface be taken down. robots.py:1073 |
| `RobotLink` + P | `HeldIsShown` | the same connect: nothing but a scan by hand shows that the arm is held |
| `RobotLink` + P | `QuietIsRight` | after bus_reset the gateway still shows the arm as connected, though "the connection is cut". robots.py:467 |
| `RobotLink` with `QuickPlug = TRUE` + P | `NoGhost` | an adapter that is back within a second is not missed: dead handle, last values, for ever. publish.py:218-220 |
| `RobotLink` with `LossySpec` + P | `LastWordWins` | an element that is popped when the socket gives up is gone. client.py:184-187 |

The passing runs exclude these cases by a constant (`Cross`, `MaxLives`, `Prompt`,
`Threads`, `Headless`, `Overlap`, `Loses`, `QuickPlug`, the number of requests), by `LastLost` in
`CloudRental`, and by nothing else; what they show holds where the constant describes
the deployment. None of them is a run of `PROJECT.json`: the runs are kept for what
holds.

Read in the code beside these, and not made a property. *Camera*: connect and
disconnect take `_op_lock` without a time-out (hub.py:189-193); the watch returns early
on any declared loss (device_watch.py:426-427); a consumer starves after a re-open of
the same size. *Policy*: one observation may be inferred twice, between the clearing of
the event and the raising of the flag; a pause pressed during homing is lost; a hold
released between two looks at it sends one stale action; the trigger of step 0 does not
ask `blocks()`. `DoneLosesNothing` of CloudRental holds on `CloudRent`, and with two rentals
of a machine each; it is left out of the run for time and proved (section 4). With
`Overlap = TRUE` it is refuted as `OneAtATime` is.

## 4. Proofs

TLAPS proves, for every value of the constants that the named assumptions allow:

| theorem | statement |
|---|---|
| `ArmSeqlockProofs!TypeCorrect` | `ReopenSpec => []TypeOK` |
| `ArmSeqlockProofs!RingIsClean` | `ReopenSpec => []CleanWithinLife` |
| `ArmSeqlockProofs!NeverTorn` | `Spec => []NoTornRecord` |
| `ArmSeqlockProofs!RingKeepsPromise` | `Spec => ReadsAreLatest`, the refinement of `LatestRecord` |
| `ArmSeqlockProofs!LappedEachTime` | `Spec => []GivesUpOnlyLapped` |
| `ArmCommandProofs!TypeCorrect` | `Spec => []TypeOK` |
| `ArmCommandProofs!LockCovers` | `Spec => []LockCoversSession` |
| `ArmCommandProofs!OneConsumer` | `~Cross` implies `Spec => []OneAtATime` |
| `ArmCommandProofs!OneWriter` | `~Cross` implies `Spec => []OneWriterPerSegment` |
| `ArmCommandProofs!TakeOverSpares` | `~Cross` implies `Spec => TakeOverSparesTheLiving` |
| `ArmCommandProofs!LinkTypeCorrect` | `LinkSpec => []LinkTypeOK` |
| `ArmCommandProofs!LastWordIsDone` | `LinkSpec => []LastWordWins` |
| `ArmCommandProofs!ConnectIsTold` | `LinkSpec => []ToldTheTruth` |
| `ProcessManagerProofs!TypeCorrect` | `Spec => []TypeOK` |
| `ProcessManagerProofs!ChildHeld` | `~Grandchildren` implies `Spec => []ChildIsHeld` |
| `ProcessManagerProofs!RecordTypeCorrect` | `RecordSpec => []RecordTypeOK` |
| `ProcessManagerProofs!NoTrialIsLost` | `RecordSpec => []Conserved` |
| `ProcessManagerProofs!SidecarTellsTheTruth` | `RecordSpec => []LogIsTrue` |
| `ProcessManagerProofs!KeysAreOfTheSession` | `RecordSpec => []KeysOfThisSession` |
| `ProcessManagerProofs!StopReachesTheLoop` | `RecordSpec => []StopIsHeard` |
| `EstopWatchProofs!TypeCorrect` | `Spec => []TypeOK` |
| `EstopWatchProofs!WatchIsKept` | `OneLoop` implies `Spec => []WatchFollows` |
| `ActivityGateProofs!TypeCorrect` | `Spec => []TypeOK` |
| `ActivityGateProofs!NothingContends` | one request at a time implies `Spec => []NoContention` |
| `ActivityGateProofs!ChildrenAreSeen` | `Units = {}` implies `Spec => []RunningIsSeen` |
| `ActivityGateProofs!EstopStops` | `Units = {}` implies `Spec => []EstopLeavesNothing` |
| `PolicyLoopProofs!TypeCorrect` | `Spec => []TypeOK` |
| `PolicyLoopProofs!BuffersCurrent` | `Spec => []BuffersAreCurrent` |
| `PolicyLoopProofs!FeedFollows` | `Spec => []FeedFollowsQueue` |
| `RealSenseDeviceProofs!TypeCorrect` | `Spec => []TypeOK` |
| `RealSenseDeviceProofs!OneReaderAtATime` | `Spec => []OneReader` |
| `CloudRentalProofs!TypeCorrect` | `Spec => []TypeOK` |
| `CloudRentalProofs!RunnerIsReturned` | `~Overlap` implies `Spec => []RunnerReturns` |
| `CloudRentalProofs!ScanTellsOfAll` | `Spec => []ScanTellsAll` |
| `CloudRentalProofs!ScanReportsExactly` | `~Overlap` implies `Spec => []ScanIsExact` |
| `CloudRentalProofs!WeightsAreSought` | `Spec => SoughtBeforeDestroyed` |
| `CloudRentalProofs!DoneHasTheWeights` | `~Overlap` implies `Spec => DoneLosesNothing` |

**The ring.** `NoTornRecord` speaks of what has been returned; it is not inductive.
`SeqlockInv` has three parts. `SlotsKept`: every record that a reader may still accept
is complete in its slot. `FillKept`: what has been written of the next record is that
record's. `CopyKept`: as long as the writer has not come round, in the life in which
`s1` was loaded, every word copied so far is record `s1`. The step that needs thought
is `WriteWord` next to a reader: either the slot is another one, because two numbers
less than `NSlots` apart share none (the lemma on `%`), or the test of arm.py:268 has
already failed for this copy. `CleanWithinLife` follows from `CopyKept`. With one
writer `OneWriterInv` adds what was returned, and the order of `since`, `s1`,
`last_seq` and `write_seq`; `Accept` then maps to `Return`, `CommitSeq` to `Publish`,
and the copying to stuttering. `LapsCounted` counts for `GivesUpOnlyLapped`: after `tries`
failed attempts the writer has gone on by `tries` laps since the call began, and an
attempt starts from where the writer is, so a failed one adds a lap.

**The command path.** `LockCoversSession` is inductive together with the types.
`OneAtATime` is inductive given both: a consumer starts only through one of two gates,
each of which looks at what the other side sets (`StartsAlone`), and `~Cross` removes
the entry that has no gate. From it: two mappings of one file are one consumer's, and
of the steps that take a name away, a take-over finds nobody alive (`WhoEvicts`).

**The owner of a child.** That the child is held needs to know what every coroutine
waits for: whoever waits, waits for the child of `_process`, or has been woken and is
about to run (`WaitersWait`, `ReadersRead`, `WokenWaited`). During a start the process
object is that of a child asyncio has dropped (`StartIsAlone`), so that a stop or a
kill in between comes back without having touched anything; a grandchild that keeps
the pipes open is what breaks this (`ProcessGrandchild.cfg`), hence the hypothesis.

**The watch.** No owner changes its state during a sync without the sync beginning
anew. So the entries it has passed are right, what it has read is right, and what it
has counted is still there (`KeysAreRight`, `ReadIsRight`, `MovingIsCounted`); in the
other direction, what it has counted has an owner that is not idle
(`CountedIsOwned`). Between `Snapshot` and `Disarm` the place of a key is taken by what
estopd has left to kill. `OneLoop` says: one thread synchronises, a browser has
connected, trips are over before the next start, units are plugins.

**The gate.** The lemma `TableIsSymmetric` is about the table as it stands: of two
activities with owners each asks for the other, or neither does. With it `WayIsClear` is
inductive for one request: from its check to its end nothing that contends with it is
busy. Work without an owner is counted by the requests that do it (`WorkCounted`, by
`Cardinality`). With any number of requests but no units, `ProcessManager.start` looks
at its own state once more, which keeps starts of one activity apart (`SpawnsApart`).
For `EstopStops`, what lived at the press and lives still is busy, can be killed, and has
its turn ahead of the loop or is what the loop waits for (`PressedIsAhead`). A stop of it
meanwhile leaves it where `kill` reaches it; the loop, on its way from `k` to the next
wait, passes over nothing that it would have to wait for (`GoesOnKeepsAhead`); and behind
the last target nothing is ahead (`LoopLeavesNothing`). That a waited-for child is still
busy when its turn ends (`AwaitedIsBusy`) is part of the type invariant.

**The policy.** Neither side has a lock; what keeps them apart is an order. The main
loop takes the observation back and then looks at the flag; the thread raises the flag
and then looks for the observation. `PolicyInv` says so: in the middle of a swap the
observation is gone (`TakenBack`) and nobody computes (`NobodyComputes`), and the flag
tells where the thread is (`FlagTells`). From it what is in the buffers, and what the
thread has used, is of the policy in place. `FeedInv` adds the places of queue and raw
chunk and the step between a pop and the end of its turn (`LagTells`).

**The camera.** A thread that may still publish or close is the one that `_thread`
refers to (`ReaderIsCurrent`), because whoever is about to close has joined that one
(`JoinsCurrent`), and because only the serve loop sets `_thread`, after it has been taken
away (`NobodyReads`). That an open pipeline is read needs the flag as well: where
`_running` is off and the pipeline is open, somebody is on the way to close it
(`ClosesSoon`), so that a thread which sees the flag and ends leaves no deaf pipeline
(`PipeIsServed`). `Spec` has no hanging driver; with one the join times out, and
`NothingComesBack` fails (`HangingSpec`).

**The rental.** One task at a time is what the rest hangs on: a flow is alone and is
`rent._task` (`Alone`), so the runner it has put in place is there only until its finally
(`RunnerHasFlow`), and the job in memory is its own (`FlowIsCurrent`). `~Overlap` is needed
for these three. Not for the others: what the registry claims has a flow that will
destroy it (`ClaimHasFlow`), a rental that nobody has begun has no machine (`Course`), and
weights come from a training, after which they are sought (`WeightsSought`). A
retrieval that says "done" speaks of the flow that is in it (`RetrievalKnows`), and what
it waits for on the Hub was pushed since that flow began, by the last to push: with two
flows at once one restarts the record of the other, hence `~Overlap` here too.

Assumptions: those named in the modules (ranges of constants, distinct names, finitely
many requests) and the hypotheses of the table. They inherit the models' own: stores in
program order; a gate and its start in one step, in `ArmCommand`.

**The arm link.** A request is in one place only and under an identity of its own, which
a caller that has given up keeps occupied until the answer has gone (`CallsAreTheirs`,
`AnswersApart`, `RequestsMatch`). The event loop is the only thread that sends
connect, disconnect and reset, and it waits for one at a time, but what it has
given up may still be queued: so the last word is the last of them in the queue, or the
one being served, and otherwise what robotd has done (`WordIsWaiting`, `WordIsServed`).
For `ToldTheTruth`, an answer under the caller's key that says yes was given after the
call began (`YesIsTrue`), since an answer to an earlier call has another key. The socket
that loses an element (`LossySpec`) breaks `WordIsWaiting`, and with it `LastWordWins`.

**The recording.** `Conserved` hangs on the cursor alone. Each of its methods keeps what
it has (`Keeping`): a trial put back, at the front, behind its block or at the end, goes
into a queue that did not have it, wherever that place is (`InsertExtends`), and `start`
begins with what is not done. For any `Plan` without repetitions and any `Block`. The
truth of the sidecar needs where the trial of an episode is on its way: in the buffer
and in the loop it is the cursor's (`FramesAreCurrent`), between the save and the line it
is that of the last episode (`SavedIsCurrent`), and what has a successful line is out of
the cursor (`DoneIsPassed`), which with `Conserved` makes the next success that of
another trial. A control key between two of these steps changes the mark or the queue,
never the trial at hand (`CommandKeeps`). `StopIsHeard` is the safe half of `EscapeEnds`:
no time-out of a wait and no other key takes back the `exit_early` of a stop while
record() still looks at it; that record() then leaves is fairness, and TLC's.

Only model-checked: all liveness (`DeadmanCatches`, `StopEnds`,
`EndIsSeen`, `SilenceStops`, `SwitchIsServed`, `InferenceGoesOn`, `EscapeEnds`,
`GoneIsGivenUp`, `RequestEnds`, `CostEnds`, `NoGhost`), which is beyond the prover. Every
other property of a run is stated by a theorem. The instances of the runs also fix what
the theorems take as hypotheses.

## 5. Not modelled

*Of the modelled parts*: Redis errors in the middle of a sync; the pub/sub notice after
which robotd drops torque; re-use of a PID by the system; the republishing thread of the
jog next to its request thread; several arms and `RelayPool`; the threads of a bridge
while its interface is lost and comes back (`_declare_lost` is one step of `RobotLink`); what goals say; the numbers in a chunk
(cross-fades, averages, jump repair) and in a frame; loading of policies; the choice of
an offer for a rental.

*Where the code has more steps than the model*, beside what section 2 says of each
module. `ArmCommand`: a session that stops removes the name and then, in the same call,
gives back the lock (jog.py:131-139); in one step here, so the lock is never seen to
outlive the file for a moment. `CloudRental`: `require_idle(TRAINING)` comes two awaits
before `rent.start` (routers/cloud.py:435-446), which itself asks only `busy()`; here the
two are asked together, and a training of this machine begins only while a rental is busy.
`stop_now` awaits the runner's stop before it looks at the flow (rent.py:199). `Finish`
gives back the runner of this machine, where the code gives back the one it found: the same
unless two requests overlap. An ssh that breaks off after `tmux new-session` makes
`SSHRunner.start` raise over a session that runs (ssh.py:368); here a start that fails has
started nothing, so what such a session saves before the machine goes is outside
`SoughtBeforeDestroyed`. `RecordSession`: between its `require_idle` and
`control_bridge.start()` a start prepares cameras and arms (recording.py:197-383), and the
bridge is up before the recorder runs; one step here. `RealSenseDevice`: one request after
another, without the reuse of a recent probe and without the limits on a driver that
hangs (6 s for the lock of `op_guard`, 20 s for a probe, hub.py:190, 1378). `RobotLink`: one arm; a restored
session goes on to set its role, and a poll to read the joints, neither of which changes
what is held; with several arms missing at once device_watch reports `all:robotd`, an id
that `mark_absent` knows no arm by (device_watch.py:273-284, 386-387).

*Whole components*: plans and their balance, the arm's safety filter and load watch,
phase labelling are numeric or sequential code, to be compared with reference definitions
rather than explored. The simulated and SO-101 arms, camerad, the detector trainer, the
policy server and weight evaluation follow protocols that are modelled here for another
daemon. Plugin scopes, authentication, hub transfer, agents, logs and configuration are
request handlers around files and services. The browser appears as its heartbeat and its
connecting. Neural networks, installers and tools have no state to explore.
`PROJECT.json` gives the reason for each.

## 6. Plan

Done, in the order of importance: the ten models above, with proofs about all of them.
Next, extending the model:

1. `ArmSessions`: `TeleopSession`, `JogSession` (with the republisher), `RelayPool` on
   several arms. Properties: one publisher at a time, no session outside the pool that
   publishes.
2. `ArmBridge`: the two threads of a bridge with `_declare_lost` and `start`, the E-stop
   subscription and the sweep that drops torque, against the commands of the serve loop.
3. `PhaseFsm`, the merging of chunks with their numbers, and the balance of a plan, as
   functions against reference definitions, in modules without proofs if they need
   RECURSIVE.
4. A failing Redis step in `EstopWatch`; frame
   segments as a second refinement of `LatestRecord`.
5. `ProcessOwner`, the abstract owner of one process (idle, starting, running,
   stopping), implemented by `ProcessManager` and by a model of `SystemdProcess`; the
   gate's model then rests on it, and the refinement is one to prove.

Then, proving: the refinement of `ProcessOwner`, and the safe half of the liveness
properties (what must be pending for the awaited step to come).

The number of runs is kept near a dozen: each is a question of its own, and a new one
takes the place of a weaker one.
