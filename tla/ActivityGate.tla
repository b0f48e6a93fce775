---------------------------- MODULE ActivityGate ----------------------------
(***************************************************************************)
(* Who may start while what runs (backend/app/services/exclusivity.py).    *)
(* Every start endpoint asks require_idle first and starts the process     *)
(* some awaits later; the other requests of the gateway run in between.    *)
(* What the gate sees of an activity is the state its owner answers with:  *)
(* a ProcessManager for a child, a SystemdProcess for a unit, the session   *)
(* object for teleoperation, and nothing for work done inside the request. *)
(***************************************************************************)
EXTENDS Naturals, Sequences, FiniteSets

CONSTANTS
    Requests,            \* the requests that may be in progress together
    Acts,                \* the activities that are used
    Units,               \* those owned by a SystemdProcess
    RemoteTraining       \* the training runs on another machine

BLOCKED_BY ==
    [inference      |-> {"training", "recording", "dataset_edit", "detector_train",
                         "teleop", "weight_eval"},
     recording      |-> {"training", "inference", "dataset_edit", "teleop"},
     training       |-> {"inference", "recording", "policy_server", "detector_train",
                         "weight_eval", "plugin_gpu"},
     policy_server  |-> {"training"},
     dataset_edit   |-> {"inference", "recording"},
     upload         |-> {},
     teleop         |-> {"inference", "recording"},
     detector_train |-> {"training", "inference", "weight_eval"},
     weight_eval    |-> {"training", "inference", "detector_train"},
     plugin         |-> {},
     plugin_gpu     |-> {"training"},
     encoder_probe  |-> {"training", "inference"},
     camera_access  |-> {"inference", "recording"},
     scene_swap     |-> {"recording", "inference", "teleop"},
     camera_move    |-> {"recording", "inference"},
     \* no activity of the table: dataset_repair_index asks for dataset_edit
     repair_index   |-> {"dataset_edit", "inference", "recording"}]

\* in the order in which estop_all stops them
ESTOP_TARGETS == <<"inference", "recording", "teleop", "plugin">>

\* the work of the request itself, for which no owner answers
Unseen == {"encoder_probe", "camera_access", "scene_swap", "camera_move", "repair_index"}

\* owned by an object of the gateway: there is no process to wait for
InProcess == {"teleop"}

ASSUME ActsAssumption == Acts \subseteq DOMAIN BLOCKED_BY /\ Units \subseteq Acts \ (Unseen \cup InProcess)
ASSUME RequestsAssumption == IsFiniteSet(Requests)
ASSUME RemoteAssumption == RemoteTraining \in BOOLEAN

VARIABLES
    state,               \* activity -> what its owner has in _state
    jobs,                \* activity -> its live processes
    req,                 \* request -> how far it is, and with what
    turn,                \* the target whose killed child estop_all waits for
    pressed,             \* history: the activities whose process of the last press lives
    overtaken            \* history: the requests that press overtook

vars == <<state, jobs, req, turn, pressed, overtaken>>
estop == <<turn, pressed, overtaken>>

Targets == {ESTOP_TARGETS[i] : i \in 1 .. Len(ESTOP_TARGETS)} \cap Acts
Over == Len(ESTOP_TARGETS) + 1         \* no estop_all is in progress

Off == [at |-> "off", act |-> "none"]
At(stage, a) == [at |-> stage, act |-> a]

TypeOK ==
    /\ state \in [Acts -> {"idle", "starting", "running", "stopping", "error"}]
    /\ jobs \in [Acts -> Nat]
    /\ req \in [Requests -> [at : {"off", "checked", "spawn", "work"},
                             act : Acts \cup {"none"}]]
    /\ \A r \in Requests : req[r].at = "off" <=> req[r].act = "none"
    /\ turn \in 1 .. Over
    /\ pressed \subseteq Targets
    /\ overtaken \subseteq Requests

Init ==
    /\ state = [a \in Acts |-> "idle"]
    /\ jobs = [a \in Acts |-> 0]
    /\ req = [r \in Requests |-> Off]
    /\ turn = Over
    /\ pressed = {}
    /\ overtaken = {}

Busy(a) == state[a] \notin {"idle", "error"}

\* training competes for the GPU of this machine only if it runs on it
Contends(a, b) == "training" \in {a, b} => ~RemoteTraining

\* Faulty variant of Blocking: only owners of children are asked.
BlockingForgetsUnits(a) ==
    {b \in (BLOCKED_BY[a] \cap Acts) \ Units : Busy(b) /\ Contends(a, b)}
        \cup {b \in {a} : Busy(a)}

Blocking(a) ==
    {b \in BLOCKED_BY[a] \cap Acts : Busy(b) /\ Contends(a, b)}
        \cup {b \in {a} : Busy(a)}

-----------------------------------------------------------------------------

\* require_idle, and the awaits behind it.  The relay does not ask about its own
\* activity (allow_self): a second arm joins the session of the first.
Check(r, a) ==
    /\ req[r] = Off
    /\ Blocking(a) \ (InProcess \cap {a}) = {}
    /\ req' = [req EXCEPT ![r] = At("checked", a)]
    /\ overtaken' = overtaken \ {r}
    /\ UNCHANGED <<state, jobs, turn, pressed>>

\* Faulty variant of StartChild: the owner relies on the gate.
StartChildUnchecked(r) ==
    LET a == req[r].act IN
    /\ req[r].at = "checked"
    /\ a \notin Units \cup Unseen \cup InProcess
    /\ state' = [state EXCEPT ![a] = "starting"]
    /\ jobs' = [jobs EXCEPT ![a] = @ + 1]
    /\ req' = [req EXCEPT ![r] = At("spawn", a)]
    /\ UNCHANGED estop

\* ProcessManager.start looks once more, at itself
StartChild(r) ==
    LET a == req[r].act IN
    /\ req[r].at = "checked"
    /\ a \notin Units \cup Unseen \cup InProcess
    /\ UNCHANGED estop
    /\ IF Busy(a)
       THEN req' = [req EXCEPT ![r] = Off] /\ UNCHANGED <<state, jobs>>
       ELSE /\ state' = [state EXCEPT ![a] = "starting"]
            /\ jobs' = [jobs EXCEPT ![a] = @ + 1]
            /\ req' = [req EXCEPT ![r] = At("spawn", a)]

ChildIsUp(r) ==
    LET a == req[r].act IN
    /\ req[r].at = "spawn"
    /\ a \notin Units
    /\ state' = [state EXCEPT ![a] = "running"]
    /\ req' = [req EXCEPT ![r] = Off]
    /\ UNCHANGED <<jobs, estop>>

\* TeleopSession.start, in one go with its own check.  One that finds the session
\* held is refused, or adds an arm to it; either way it is the session that runs.
StartSession(r) ==
    LET a == req[r].act IN
    /\ req[r].at = "checked"
    /\ a \in InProcess
    /\ req' = [req EXCEPT ![r] = Off]
    /\ UNCHANGED estop
    /\ IF Busy(a)
       THEN UNCHANGED <<state, jobs>>
       ELSE /\ state' = [state EXCEPT ![a] = "running"]
            /\ jobs' = [jobs EXCEPT ![a] = 1]

\* SystemdProcess.start does not look
StartUnit(r) ==
    LET a == req[r].act IN
    /\ req[r].at = "checked"
    /\ a \in Units
    /\ state' = [state EXCEPT ![a] = "starting"]
    /\ req' = [req EXCEPT ![r] = At("spawn", a)]
    /\ UNCHANGED <<jobs, estop>>

\* systemd-run refuses the name of a unit that is there
UnitAnswers(r) ==
    LET a == req[r].act IN
    /\ req[r].at = "spawn"
    /\ a \in Units
    /\ IF jobs[a] = 0
       THEN jobs' = [jobs EXCEPT ![a] = 1] /\ state' = [state EXCEPT ![a] = "running"]
       ELSE state' = [state EXCEPT ![a] = "error"] /\ UNCHANGED jobs
    /\ req' = [req EXCEPT ![r] = Off]
    /\ UNCHANGED estop

\* work in a thread of the gateway, behind an await
Work(r) ==
    LET a == req[r].act IN
    /\ req[r].at = "checked"
    /\ a \in Unseen
    /\ jobs' = [jobs EXCEPT ![a] = @ + 1]
    /\ req' = [req EXCEPT ![r] = At("work", a)]
    /\ UNCHANGED <<state, estop>>

WorkDone(r) ==
    /\ req[r].at = "work"
    /\ jobs' = [jobs EXCEPT ![req[r].act] = @ - 1]
    /\ req' = [req EXCEPT ![r] = Off]
    /\ UNCHANGED <<state, estop>>

\* an invalid request, or one whose client gave up
Refused(r) ==
    /\ req[r].at = "checked"
    /\ req' = [req EXCEPT ![r] = Off]
    /\ UNCHANGED <<state, jobs, estop>>

Spawning(a) == \E r \in Requests : req[r] = At("spawn", a)

\* estop_all has killed its child and waits for it to be gone
Awaited(a) == turn < Over /\ ESTOP_TARGETS[turn] = a

\* ProcessManager.stop: SIGTERM, and a wait for the process, which lives on
StopChild(a) ==
    /\ a \notin Units \cup Unseen \cup InProcess
    /\ state[a] = "running"
    /\ state' = [state EXCEPT ![a] = "stopping"]
    /\ UNCHANGED <<jobs, req, estop>>

\* a process ends, by itself or because it was told to, and its owner notices
\* with it; a session is closed
ChildEnds(a) ==
    /\ a \notin Units \cup Unseen
    /\ jobs[a] > 0
    /\ ~Spawning(a)
    /\ ~Awaited(a)
    /\ jobs' = [jobs EXCEPT ![a] = @ - 1]
    /\ \E s \in {"idle", "error"} :
          /\ s = "error" => state[a] = "running" /\ a \notin InProcess
          /\ state' = [state EXCEPT ![a] = s]
    /\ pressed' = pressed \ {a}
    /\ UNCHANGED <<req, turn, overtaken>>

UnitEnds(a) ==
    /\ a \in Units
    /\ jobs[a] > 0
    /\ jobs' = [jobs EXCEPT ![a] = 0]
    /\ pressed' = pressed \ {a}
    /\ UNCHANGED <<state, req, turn, overtaken>>

\* Faulty variant of AskUnit: a unit that is "activating" is taken for one that
\* has ended.
AskUnitHastily(a) ==
    /\ a \in Units
    /\ state[a] \in {"starting", "running"}
    /\ state' = [state EXCEPT ![a] = "idle"]
    /\ UNCHANGED <<jobs, req, estop>>

\* SystemdProcess.state asks systemd, but only while it believes the unit is there
AskUnit(a) ==
    /\ a \in Units
    /\ state[a] \in {"starting", "running"}
    /\ jobs[a] = 0
    /\ state' = [state EXCEPT ![a] = "idle"]
    /\ UNCHANGED <<jobs, req, estop>>

StopUnit(a) ==
    /\ a \in Units
    /\ Busy(a)
    /\ jobs' = [jobs EXCEPT ![a] = 0]
    /\ state' = [state EXCEPT ![a] = "idle"]
    /\ pressed' = pressed \ {a}
    /\ UNCHANGED <<req, turn, overtaken>>

\* Faulty variant of Kills: kill() has the guard of stop(), and leaves a process
\* alone that has had its SIGTERM.
KillsWhatRuns(a) == a \notin Units \cup InProcess /\ state[a] = "running"

\* What ProcessManager.kill kills and waits for: a child it holds the process of.
\* While it is being started that is still the process before.  A SystemdProcess
\* has no kill; estop_all logs the exception.
Kills(a) == a \notin Units \cup InProcess /\ state[a] \in {"running", "stopping"}

\* estop_all finds its i-th target busy, kills it and has to wait
Waits(i) == LET a == ESTOP_TARGETS[i] IN a \in Acts /\ Busy(a) /\ Kills(a)

\* estop_all from its k-th target to the next wait or its end: there is no await
\* on this way, and a session is closed in passing.  down is the child whose end
\* it waited for, alive the processes of the press.
GoesOn(k, down, alive) ==
    \E t \in k .. Over :
        LET gone == down \cup (InProcess \cap {ESTOP_TARGETS[i] : i \in k .. t - 1}) IN
        /\ \A i \in k .. t - 1 : ~Waits(i)
        /\ t < Over => Waits(t)
        /\ turn' = t
        /\ jobs' = [a \in Acts |-> IF a \in gone THEN 0 ELSE jobs[a]]
        /\ state' = [a \in Acts |-> IF a \in gone THEN "idle" ELSE state[a]]
        /\ pressed' = alive \ gone

\* The E-stop is pressed; bound: one estop_all at a time.  Requests past their
\* check are not looked at, nor is a process that is being spawned.
EstopAll ==
    /\ turn = Over
    /\ GoesOn(1, {}, {a \in Targets : jobs[a] > 0 /\ ~Spawning(a)})
    /\ overtaken' = {r \in Requests : req[r].at = "checked" /\ req[r].act \in Targets}
    /\ UNCHANGED req

\* the killed child is gone, its owner idle, and the next targets are asked: what
\* was started, stopped or ended during the wait they answer for now
EstopReaps ==
    /\ turn < Over
    /\ GoesOn(turn + 1, {ESTOP_TARGETS[turn]}, pressed)
    /\ UNCHANGED <<req, overtaken>>

-----------------------------------------------------------------------------

RequestNext(r) ==
    \/ \E a \in Acts : Check(r, a)
    \/ StartChild(r) \/ ChildIsUp(r) \/ StartSession(r) \/ StartUnit(r) \/ UnitAnswers(r)
    \/ Work(r) \/ WorkDone(r) \/ Refused(r)

Next ==
    \/ \E r \in Requests : RequestNext(r)
    \/ \E a \in Acts : StopChild(a) \/ ChildEnds(a) \/ UnitEnds(a) \/ AskUnit(a) \/ StopUnit(a)
    \/ EstopAll \/ EstopReaps

Spec == Init /\ [][Next]_vars

-----------------------------------------------------------------------------

\* No two activities run together that the table keeps apart, in whichever order
\* they were started (exclusivity.py:83: "to start this activity the following
\* must have stopped").
NoContention ==
    \A a, b \in Acts :
        jobs[a] > 0 /\ jobs[b] > 0 /\ b \in BLOCKED_BY[a] => ~Contends(a, b)

\* An activity that has an owner and runs is one the gate sees, and it runs once:
\* an owner that says idle or error has no process (_busy, exclusivity.py:137-144).
RunningIsSeen ==
    \A a \in Acts \ Unseen : jobs[a] <= 1 /\ (jobs[a] = 1 => Busy(a))

\* When estop_all is through, no process is left that moved the arm when it was
\* called, whatever was started, stopped or ended while it waited for a target it
\* had killed (estop_all, exclusivity.py:343-362).  It kills what is_running tells
\* it about at that target's turn, so this rests on the owners: what lives has to
\* be counted as busy until it is gone, also while it is being stopped.
EstopLeavesNothing == turn = Over => pressed = {}

\* A start that was asked for before the E-stop does not move the arm after it
\* (STOPPERS, exclusivity.py:195-196: plugins are stopped along with the inference
\* they start, so the inference they have just asked for has to stay down too).
EstopHolds ==
    [][\A r \in overtaken : req[r].at = "checked" => jobs'[req[r].act] <= jobs[req[r].act]]_vars
=============================================================================
