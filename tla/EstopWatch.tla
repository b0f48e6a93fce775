----------------------------- MODULE EstopWatch -----------------------------
(***************************************************************************)
(* The watchdog.  The gateway keeps three things in Redis: the PIDs of the *)
(* activities that move an arm, whether they are to be watched (armed),    *)
(* and the time of the last heartbeat (backend/app/services/               *)
(* estop_bridge.py).  estopd, a process of its own, kills those PIDs when  *)
(* the heartbeat is too old (daemons/estopd.py).                           *)
(*                                                                         *)
(* Every access to Redis is a step of its own; the two sides share no lock *)
(* and no transaction.  The time of the heartbeat is abstracted to whether *)
(* it is older than the time-out.  How the owners of the processes work    *)
(* is in ProcessManager; here an activity is starting, running or idle.    *)
(***************************************************************************)
EXTENDS Integers, Sequences, FiniteSets

CONSTANTS
    Order,               \* the activities, as sync_activities goes through them
    Units,               \* those that run as systemd units, not as children
    Plugins,             \* those that are plugins
    Threads,             \* where state callbacks run; Loop is one of them
    Loop,
    Hangs,               \* the gateway may hang, the operator may go away
    Restarts,            \* the gateway may die and start again
    Headless,            \* activities are started without a browser as well
    Prompt,              \* a trip of estopd is over before anything else starts
    MaxPids              \* bound: processes ever started

Activities == {Order[k] : k \in DOMAIN Order}
Pids == 1 .. MaxPids

ASSUME OrderAssumption == Order \in Seq(Activities) /\ Order # <<>>
ASSUME KindsAssumption == Units \subseteq Activities /\ Plugins \subseteq Activities
ASSUME ThreadsAssumption == Loop \in Threads
ASSUME FlagsAssumption ==
    /\ Hangs \in BOOLEAN /\ Restarts \in BOOLEAN
    /\ Headless \in BOOLEAN /\ Prompt \in BOOLEAN
ASSUME BoundAssumption == MaxPids \in Nat

VARIABLES
    gw,                  \* the event loop of the gateway
    wired,               \* a browser has connected since it started
    mgr,                 \* activity -> the state its owner in the gateway has
    child,               \* activity -> the PID of the owner's _process, 0 for None
    seen,                \* the plugins this gateway has started (_seen)
    sync,                \* thread -> where its sync_activities is
    proc,                \* activity -> its live process, 0 for none
    pids,                \* processes started so far
    present,             \* somebody has the page open
    pid_key,             \* Redis: activity -> PID, 0 for no entry
    armed,               \* Redis
    beat,                \* Redis: the heartbeat
    estopd,              \* where estopd is
    left                 \* trigger: the entries it still has to go through

gvars == <<gw, wired, mgr, child, seen, sync>>
bvars == <<pid_key, armed, beat>>
evars == <<estopd, left>>
vars == <<gw, wired, mgr, child, seen, sync, proc, pids, present,
          pid_key, armed, beat, estopd, left>>

NoSync == [at |-> "none", k |-> 1, pid |-> 0, any |-> FALSE]

TypeOK ==
    /\ gw \in {"up", "hung", "down", "boot"}
    /\ wired \in BOOLEAN
    /\ mgr \in [Activities -> {"idle", "starting", "running"}]
    /\ child \in [Activities -> 0 .. MaxPids]
    /\ seen \subseteq Plugins
    /\ sync \in [Threads -> [at : {"none", "read", "write", "arm", "beat"},
                             k : DOMAIN Order, pid : 0 .. MaxPids, any : BOOLEAN]]
    /\ proc \in [Activities -> 0 .. MaxPids]
    /\ pids \in 0 .. MaxPids
    /\ present \in BOOLEAN
    /\ pid_key \in [Activities -> 0 .. MaxPids]
    /\ armed \in BOOLEAN
    /\ beat \in {"none", "fresh", "old"}
    /\ estopd \in {"poll", "judge", "trip", "kill"}
    /\ left \in [Activities -> 0 .. MaxPids]
    /\ \A a \in Activities : left[a] # 0 => estopd = "kill"

Init ==
    /\ gw = "up"
    /\ wired = FALSE
    /\ mgr = [a \in Activities |-> "idle"]
    /\ child = [a \in Activities |-> 0]
    /\ seen = {}
    /\ sync = [t \in Threads |-> NoSync]
    /\ proc = [a \in Activities |-> 0]
    /\ pids = 0
    /\ present = FALSE
    /\ pid_key = [a \in Activities |-> 0]
    /\ armed = FALSE
    /\ beat = "none"
    /\ estopd = "poll"
    /\ left = [a \in Activities |-> 0]

Tripping == estopd \in {"trip", "kill"}
Free(t) == sync[t].at = "none" /\ gw = "up"
Goes == ~(Prompt /\ Tripping)

-----------------------------------------------------------------------------
(* sync_activities, in the thread a state callback runs in *)

Begun(t) == [sync EXCEPT ![t] = [NoSync EXCEPT !.at = "read"]]

\* a state callback: on_state_change and on_record_state are registered when a
\* browser connects, the one of the plugins is there from the start
CallBack(t, a) == sync' = IF wired \/ a \in Plugins THEN Begun(t) ELSE sync

\* a child's owner answers with the child it had before until the new one is
\* there; a unit's owner asks systemd
PidOf(a) ==
    IF mgr[a] = "idle" THEN 0 ELSE IF a \in Units THEN proc[a] ELSE child[a]

Runs(t) == Goes /\ gw # "down" /\ (t = Loop => gw # "hung")

ReadPid(t) ==
    /\ Runs(t)
    /\ sync[t].at = "read"
    /\ sync' = [sync EXCEPT ![t].at = "write", ![t].pid = PidOf(Order[sync[t].k])]
    /\ UNCHANGED <<gw, wired, mgr, child, seen, proc, pids, present, bvars, evars>>

\* Faulty variant of WritePid: the last activity alone decides about arming.
WritePidForgets(t) ==
    LET s == sync[t]
        a == Order[s.k]
        last == s.k = Len(Order)
    IN
    /\ Runs(t)
    /\ s.at = "write"
    /\ pid_key' = IF a \in Plugins \ seen THEN pid_key
                  ELSE [pid_key EXCEPT ![a] = s.pid]
    /\ sync' = [sync EXCEPT ![t] =
                  [at |-> IF last THEN "arm" ELSE "read",
                   k |-> IF last THEN s.k ELSE s.k + 1,
                   pid |-> 0,
                   any |-> s.pid # 0]]
    /\ UNCHANGED <<gw, wired, mgr, child, seen, proc, pids, present, armed, beat, evars>>

\* an entry of a plugin is touched if this gateway has started the plugin
WritePid(t) ==
    LET s == sync[t]
        a == Order[s.k]
        last == s.k = Len(Order)
    IN
    /\ Runs(t)
    /\ s.at = "write"
    /\ pid_key' = IF a \in Plugins \ seen THEN pid_key
                  ELSE [pid_key EXCEPT ![a] = s.pid]
    /\ sync' = [sync EXCEPT ![t] =
                  [at |-> IF last THEN "arm" ELSE "read",
                   k |-> IF last THEN s.k ELSE s.k + 1,
                   pid |-> 0,
                   any |-> s.any \/ s.pid # 0]]
    /\ UNCHANGED <<gw, wired, mgr, child, seen, proc, pids, present, armed, beat, evars>>

\* Faulty variant of SetArmed: the watch is never switched off again.
SetArmedForGood(t) ==
    /\ Runs(t)
    /\ sync[t].at = "arm"
    /\ armed' = (armed \/ sync[t].any)
    /\ sync' = [sync EXCEPT ![t] =
                  IF sync[t].any THEN [NoSync EXCEPT !.at = "beat"] ELSE NoSync]
    /\ UNCHANGED <<gw, wired, mgr, child, seen, proc, pids, present, pid_key, beat, evars>>

SetArmed(t) ==
    /\ Runs(t)
    /\ sync[t].at = "arm"
    /\ armed' = sync[t].any
    /\ sync' = [sync EXCEPT ![t] =
                  IF sync[t].any THEN [NoSync EXCEPT !.at = "beat"] ELSE NoSync]
    /\ UNCHANGED <<gw, wired, mgr, child, seen, proc, pids, present, pid_key, beat, evars>>

BeatArmed(t) ==
    /\ Runs(t)
    /\ sync[t].at = "beat"
    /\ beat' = "fresh"
    /\ sync' = [sync EXCEPT ![t] = NoSync]
    /\ UNCHANGED <<gw, wired, mgr, child, seen, proc, pids, present, pid_key, armed, evars>>

-----------------------------------------------------------------------------
(* The owners of the processes, and trigger_manual *)

\* by somebody whose page has been open for a heartbeat, or by a plugin or a
\* client of the external API
Start(a) ==
    /\ Goes
    /\ Free(Loop)
    /\ mgr[a] = "idle"
    /\ proc[a] = 0
    /\ Headless \/ (wired /\ present /\ beat = "fresh")
    /\ mgr' = [mgr EXCEPT ![a] = "starting"]
    /\ seen' = seen \cup ({a} \cap Plugins)
    /\ CallBack(Loop, a)
    /\ UNCHANGED <<gw, wired, child, proc, pids, present, bvars, evars>>

Fork(a) ==
    /\ Goes
    /\ mgr[a] = "starting"
    /\ proc[a] = 0
    /\ Free(Loop)
    /\ pids < MaxPids
    /\ pids' = pids + 1
    /\ proc' = [proc EXCEPT ![a] = pids + 1]
    /\ UNCHANGED <<gvars, present, bvars, evars>>

Spawned(a) ==
    /\ Goes
    /\ Free(Loop)
    /\ mgr[a] = "starting"
    /\ proc[a] # 0
    /\ mgr' = [mgr EXCEPT ![a] = "running"]
    /\ child' = IF a \in Units THEN child ELSE [child EXCEPT ![a] = proc[a]]
    /\ CallBack(Loop, a)
    /\ UNCHANGED <<gw, wired, seen, proc, pids, present, bvars, evars>>

Dies(a) ==
    /\ proc[a] # 0
    /\ proc' = [proc EXCEPT ![a] = 0]
    /\ UNCHANGED <<gvars, pids, present, bvars, evars>>

\* The start has failed, or the owner learns that the process has ended.  The owner
\* of a unit has a thread that looks (SystemdProcess._watch) once the unit runs.
Ends(t, a) ==
    /\ Free(t)
    /\ t # Loop => a \in Units /\ mgr[a] = "running"
    /\ mgr[a] # "idle"
    /\ proc[a] = 0
    /\ mgr' = [mgr EXCEPT ![a] = "idle"]
    /\ CallBack(t, a)
    /\ UNCHANGED <<gw, wired, child, seen, proc, pids, present, bvars, evars>>

\* estop_all kills what it knows; then sync_activities
Manual ==
    LET Hit == {a \in Activities \ Units : mgr[a] = "running"} IN
    /\ Goes
    /\ Free(Loop)
    /\ present
    /\ Hit # {}
    /\ proc' = [a \in Activities |-> IF a \in Hit THEN 0 ELSE proc[a]]
    /\ mgr' = [a \in Activities |-> IF a \in Hit THEN "idle" ELSE mgr[a]]
    /\ sync' = Begun(Loop)
    /\ UNCHANGED <<gw, wired, child, seen, pids, present, bvars, evars>>

-----------------------------------------------------------------------------
(* The gateway as a whole, the operator, time *)

\* _setup_callbacks, when a browser connects to /ws
Connect ==
    /\ Free(Loop)
    /\ ~wired
    /\ wired' = TRUE
    /\ present' = TRUE
    /\ UNCHANGED <<gw, mgr, child, seen, sync, proc, pids, bvars, evars>>

Heartbeat ==
    /\ Free(Loop)
    /\ present
    /\ beat' = "fresh"
    /\ UNCHANGED <<gvars, proc, pids, present, pid_key, armed, evars>>

ComesOrGoes ==
    /\ Hangs
    /\ wired
    /\ present' = ~present
    /\ UNCHANGED <<gvars, proc, pids, bvars, evars>>

HangsOrGoesOn ==
    /\ Hangs
    /\ gw \in {"up", "hung"}
    /\ gw' = IF gw = "up" THEN "hung" ELSE "up"
    /\ UNCHANGED <<wired, mgr, child, seen, sync, proc, pids, present, bvars, evars>>

\* its children die with it, its units do not
GatewayDies ==
    /\ Restarts
    /\ gw # "down"
    /\ gw' = "down"
    /\ wired' = FALSE
    /\ mgr' = [a \in Activities |-> "idle"]
    /\ child' = [a \in Activities |-> 0]
    /\ seen' = {}
    /\ sync' = [t \in Threads |-> NoSync]
    /\ proc' = [a \in Activities |-> IF a \in Units THEN proc[a] ELSE 0]
    /\ UNCHANGED <<pids, present, bvars, evars>>

\* lifespan: the plugins that were left are stopped, then sync_activities
Boot ==
    /\ Goes
    /\ gw = "down"
    /\ gw' = "boot"
    /\ proc' = [a \in Activities |-> IF a \in Plugins THEN 0 ELSE proc[a]]
    /\ sync' = Begun(Loop)
    /\ UNCHANGED <<wired, mgr, child, seen, pids, present, bvars, evars>>

\* a unit that still runs is found again (reattach); nobody listens yet
Restore ==
    /\ gw = "boot"
    /\ sync[Loop].at = "none"
    /\ gw' = "up"
    /\ mgr' = [a \in Activities |->
                  IF a \in Units /\ proc[a] # 0 THEN "running" ELSE "idle"]
    /\ UNCHANGED <<wired, child, seen, sync, proc, pids, present, bvars, evars>>

\* a heartbeat comes twice a second as long as there is somebody to send it and
\* somebody to receive it
Elapse ==
    /\ beat = "fresh"
    /\ ~(present /\ gw = "up")
    /\ beat' = "old"
    /\ UNCHANGED <<gvars, proc, pids, present, pid_key, armed, evars>>

-----------------------------------------------------------------------------
(* estopd: watch and trigger *)

Poll ==
    /\ estopd = "poll"
    /\ armed
    /\ estopd' = "judge"
    /\ UNCHANGED <<gvars, proc, pids, present, bvars, left>>

Judge ==
    /\ estopd = "judge"
    /\ estopd' = IF beat = "old" THEN "trip" ELSE "poll"
    /\ UNCHANGED <<gvars, proc, pids, present, bvars, left>>

Snapshot ==
    /\ estopd = "trip"
    /\ left' = pid_key
    /\ estopd' = "kill"
    /\ UNCHANGED <<gvars, proc, pids, present, bvars>>

\* Faulty variant of KillOne: a graceful stop, which the process may ignore.
KillOneGracefully(a) ==
    /\ left[a] # 0
    /\ \E obeys \in BOOLEAN :
          proc' = [b \in Activities |->
                      IF obeys /\ proc[b] = left[a] THEN 0 ELSE proc[b]]
    /\ pid_key' = [pid_key EXCEPT ![a] = 0]
    /\ left' = [left EXCEPT ![a] = 0]
    /\ UNCHANGED <<gvars, pids, present, armed, beat, estopd>>

\* kill_pid, then the entry is deleted whoever has written it
KillOne(a) ==
    /\ left[a] # 0
    /\ proc' = [b \in Activities |-> IF proc[b] = left[a] THEN 0 ELSE proc[b]]
    /\ pid_key' = [pid_key EXCEPT ![a] = 0]
    /\ left' = [left EXCEPT ![a] = 0]
    /\ UNCHANGED <<gvars, pids, present, armed, beat, estopd>>

\* Faulty variant of Disarm: the entries are not gone through to the end.
DisarmEarly ==
    /\ estopd = "kill"
    /\ armed' = FALSE
    /\ estopd' = "poll"
    /\ UNCHANGED <<gvars, proc, pids, present, pid_key, beat, left>>

Disarm ==
    /\ estopd = "kill"
    /\ \A a \in Activities : left[a] = 0
    /\ armed' = FALSE
    /\ estopd' = "poll"
    /\ UNCHANGED <<gvars, proc, pids, present, pid_key, beat, left>>

-----------------------------------------------------------------------------

SyncNext(t) == ReadPid(t) \/ WritePid(t) \/ SetArmed(t) \/ BeatArmed(t)

OwnerNext(a) == Start(a) \/ Fork(a) \/ Spawned(a) \/ Dies(a)

EstopdNext ==
    Poll \/ Judge \/ Snapshot \/ (\E a \in Activities : KillOne(a)) \/ Disarm

Next ==
    \/ \E t \in Threads : SyncNext(t) \/ \E a \in Activities : Ends(t, a)
    \/ \E a \in Activities : OwnerNext(a)
    \/ Manual
    \/ Connect \/ Heartbeat \/ ComesOrGoes \/ HangsOrGoesOn
    \/ GatewayDies \/ Boot \/ Restore \/ Elapse
    \/ EstopdNext

Spec == Init /\ [][Next]_vars

\* estopd runs: it is a process of its own, and systemd starts it again.  Nothing
\* is assumed of the gateway.
FairSpec == Spec /\ WF_vars(EstopdNext)

-----------------------------------------------------------------------------

\* the gateway has nothing to tell the bus at the moment
Quiet == gw = "up" /\ \A t \in Threads : sync[t].at = "none"

\* What moves an arm is watched: its process is on the bus and estopd looks at
\* the heartbeat (sync_activities "whenever a state changes",
\* estop_bridge.py:121; "disarmed when nothing moves the robot", :140).
Watched ==
    Quiet /\ ~Tripping =>
        \A a \in Activities :
            mgr[a] = "running" /\ proc[a] # 0 => pid_key[a] = proc[a] /\ armed

\* Nothing is watched that does not run: a page that is closed afterwards is no
\* emergency (estop_bridge.py:140).
IdleIsDisarmed ==
    Quiet /\ (\A a \in Activities : mgr[a] = "idle") => ~armed

\* Watched and IdleIsDisarmed: the watch is on when, and only when, something runs.
WatchFollows == Watched /\ IdleIsDisarmed

\* An activity that is over has no entry left: estopd kills by number, and the
\* number may be somebody else's by then (plugins.estop_pids, plugins.py:660).
NoStalePid ==
    Quiet => \A a \in Activities : mgr[a] = "idle" => pid_key[a] = 0

\* The heartbeat of an earlier run does not trip a watch that is being armed
\* (estop_bridge.py:143).
ArmingIsNoTimeout ==
    [][ estopd' = "trip" => \A t \in Threads : sync[t].at # "beat" ]_vars

\* The arm stops when the heartbeat stops, whatever the gateway does: a process
\* that was registered and watched is dead in the end (estop_bridge.py:8).
SilenceStops ==
    <>[](beat = "old") =>
        \A a \in Activities : \A p \in Pids :
            (proc[a] = p /\ pid_key[a] = p /\ armed) ~> (proc[a] # p)
=============================================================================
