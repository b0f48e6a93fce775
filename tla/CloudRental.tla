---------------------------- MODULE CloudRental ----------------------------
(***************************************************************************)
(* Training on a rented machine (backend/app/services/cloud/*.py, with the *)
(* runner swap of services/training): start() rents a machine, trains on   *)
(* it, brings the weights home and destroys it; train_on() uses a machine  *)
(* somebody rented by hand, "box", and leaves it.  One asyncio task carries *)
(* a rental; an action is what it does between two awaits.  The machine,   *)
(* the tmux session on it and the Hub outlive the gateway.  Every machine  *)
(* that start() rents is named here after its job; all jobs have the label *)
(* and the registry record of the job id "local", and one Hub repository.  *)
(***************************************************************************)
EXTENDS Naturals, FiniteSets

CONSTANTS
    Rentals, Visits,     \* the jobs start() and train_on() are asked for
    Box,                 \* the machine rented by hand
    None,
    MaxCrashes,          \* bound: crashes of the gateway
    Overlap              \* a request may come while train_on awaits the provider

Jobs == Rentals \cup Visits

ASSUME NamesAssumption ==
    Box \notin Jobs /\ None \notin Jobs \cup {Box} /\ Rentals \cap Visits = {}
ASSUME BoundAssumption == MaxCrashes \in Nat /\ Overlap \in BOOLEAN

VARIABLES
    up,                  \* the gateway is up
    job,                 \* job -> its flow and its CloudJob
    task, cur,           \* rent._task and rent._job
    runner,              \* train_manager.runner: None is the one of the settings
    runs,                \* the jobs whose SSHRunner has RUNNING in _state
    local,               \* a training runs on this machine
    alive, session,      \* live machines; jobs whose tmux session runs
    disk,                \* jobs that left a checkpoint on their machine
    hub,                 \* the repository: who pushed, who last, any since _start_
    got,                 \* the runs whose weights are at home
    ret,                 \* retrieve._state, and the job it is about
    claim,               \* instance_id in the registry
    orphans,             \* what the last scan reported
    stop,                \* stop_now() in progress (bound: once per life of the gateway)
    tried,               \* history: the jobs whose weights were sought
    crashes

vars == <<up, job, task, cur, runner, runs, local, alive, session, disk, hub, got, ret,
          claim, orphans, stop, tried, crashes>>
\* what only the machines and the Hub change, and what only the gateway has
world == <<session, disk, hub, crashes>>
desk == <<local, orphans, crashes>>

Ended == {"destroyed", "orphan", "finished"}
Flowing == {"go", "creating", "created", "ssh", "stack", "launching", "training",
            "overdue", "retrieve", "rescue", "pull", "finish"}
Phases == {"searching", "creating", "ssh_wait", "training", "retrieving", "destroying"} \cup Ended

Fresh == [pc |-> "new", phase |-> "searching", inst |-> FALSE]
NoOne == [of |-> None, shell |-> FALSE]
Machine(j) == IF j \in Rentals THEN j ELSE Box
Busy == task # None /\ job[task].pc \in Flowing
IsRunning == IF runner = None THEN local ELSE runner \in runs
\* the flow of the machine's job is there to destroy it
Managed(m) == m \in Jobs /\ job[m].pc \in Flowing \ {"pull"}

TypeOK ==
    /\ up \in BOOLEAN /\ local \in BOOLEAN
    /\ job \in [Jobs -> [pc : Flowing \cup {"new", "ask", "done", "dead"}, phase : Phases,
                         inst : BOOLEAN]]
    /\ {task, runner, cur.of, stop.of, ret.of} \subseteq Jobs \cup {None}
    /\ alive \subseteq Jobs \cup {Box} /\ claim \in Jobs \cup {Box, None}
    /\ runs \cup session \cup disk \cup got \cup tried \cup orphans \subseteq Jobs
    \* a CloudJob has a machine from note_started on; a session has a live one
    /\ \A j \in Jobs : job[j].pc \in {"ssh", "stack", "launching", "training"} => job[j].inst
    /\ \A j \in session : Machine(j) \in alive
    /\ crashes \in 0 .. MaxCrashes

Init ==
    /\ up = TRUE /\ local = FALSE
    /\ job = [j \in Jobs |-> Fresh]
    /\ task = None /\ cur = NoOne /\ runner = None
    /\ runs = {} /\ alive = {Box} /\ session = {} /\ disk = {} /\ got = {}
    /\ hub = [by |-> {}, last |-> None, since |-> FALSE]
    /\ ret = [state |-> "idle", of |-> None]
    /\ claim = None /\ orphans = {} /\ tried = {} /\ crashes = 0
    /\ stop = [at |-> "off", of |-> None, shell |-> FALSE]

\* Faulty variant of Remember: a rental that ended keeps its number.
RememberForever(j, phase, inst) ==
    /\ cur' = [of |-> j, shell |-> FALSE]
    /\ claim' = IF inst THEN Machine(j) ELSE None

\* _remember(): the job, and its instance unless it is over
Remember(j, phase, inst) ==
    /\ cur' = [of |-> j, shell |-> FALSE]
    /\ claim' = IF phase \in {"destroyed", "orphan"} \/ ~inst THEN None ELSE Machine(j)

Move(j, pc, phase) == job' = [job EXCEPT ![j].pc = pc, ![j].phase = phase]

-----------------------------------------------------------------------------
(* Asking for a rental.  require_idle(TRAINING) and busy() come first; start *)
(* goes on without an await, train_on awaits the provider before it takes    *)
(* the task.  The CloudJob that start() leaves in _job is a placeholder:     *)
(* procure_and_train makes its own.                                          *)

Asks(j) ==
    /\ up /\ ~Busy /\ ~IsRunning
    /\ job[j].pc = "new"
    /\ Overlap \/ \A k \in Jobs : job[k].pc # "ask"
    /\ ret' = [state |-> "idle", of |-> j]
    /\ hub' = [hub EXCEPT !.since = FALSE]

start(j) ==
    /\ j \in Rentals /\ Asks(j)
    /\ job' = [job EXCEPT ![j].pc = "go"]
    /\ task' = j /\ cur' = [of |-> j, shell |-> TRUE]
    /\ UNCHANGED <<up, runner, runs, local, alive, session, disk, got, claim, orphans,
                   stop, tried, crashes>>

train_on(j) ==
    /\ j \in Visits /\ Asks(j)
    /\ job' = [job EXCEPT ![j].pc = "ask"]
    /\ UNCHANGED <<up, task, cur, runner, runs, local, alive, session, disk, got, claim,
                   orphans, stop, tried, crashes>>

Answered(j) ==
    /\ job[j].pc = "ask"
    /\ \/ /\ Box \in alive
          /\ job' = [job EXCEPT ![j].pc = "go", ![j].inst = TRUE]
          /\ task' = j /\ cur' = [of |-> j, shell |-> FALSE]
       \/ /\ job' = [job EXCEPT ![j].pc = "done"]
          /\ UNCHANGED <<task, cur>>
    /\ UNCHANGED <<up, runner, runs, alive, got, ret, claim, stop, tried, desk, session, disk,
                   hub>>

-----------------------------------------------------------------------------
(* procure_and_train: create, wait for ssh and for the stack *)

Go(j) ==
    /\ job[j].pc = "go"
    /\ LET phase == IF j \in Rentals THEN "creating" ELSE "ssh_wait" IN
          /\ Move(j, IF j \in Rentals THEN "creating" ELSE "stack", phase)
          /\ Remember(j, phase, job[j].inst)
    /\ UNCHANGED <<up, task, runner, runs, alive, got, ret, stop, tried, desk, world>>

\* The provider has made the machine; create() still asks for its status.
Made(j) ==
    /\ job[j].pc = "creating"
    /\ alive' = alive \cup {j}
    /\ job' = [job EXCEPT ![j].pc = "created"]
    /\ UNCHANGED <<up, task, cur, claim, runner, runs, got, ret, stop, tried, desk, world>>

\* Faulty variant of Created: the CloudJob is not told that it has a machine.
CreatedUnnoted(j) ==
    /\ job[j].pc = "created"
    /\ job' = [job EXCEPT ![j].pc = "ssh", ![j].phase = "ssh_wait"]
    /\ Remember(j, "ssh_wait", TRUE)
    /\ UNCHANGED <<up, task, runner, runs, alive, got, ret, stop, tried, desk, world>>

Created(j) ==
    /\ job[j].pc = "created"
    /\ job' = [job EXCEPT ![j].pc = "ssh", ![j].phase = "ssh_wait", ![j].inst = TRUE]
    /\ Remember(j, "ssh_wait", TRUE)
    /\ UNCHANGED <<up, task, runner, runs, alive, got, ret, stop, tried, desk, world>>

SshOpens(j) ==
    /\ job[j].pc = "ssh" /\ j \in alive
    /\ job' = [job EXCEPT ![j].pc = "stack"]
    /\ UNCHANGED <<up, task, cur, claim, runner, runs, alive, got, ret, stop, tried, desk, world>>

\* No machine, no answer in time, beyond the budget: the finally destroys.
Fails(j) ==
    /\ job[j].pc \in {"creating", "created", "ssh", "stack", "launching"}
    /\ job' = [job EXCEPT ![j].pc = "finish"]
    /\ UNCHANGED <<up, task, cur, claim, runner, runs, alive, got, ret, stop, tried, desk, world>>

\* The SSHRunner takes the place of the runner; train_manager.start() deletes the
\* record before it waits for the session to start.
Launch(j) ==
    /\ job[j].pc = "stack"
    /\ runner' = j
    /\ Move(j, "launching", "training")
    /\ cur' = [of |-> j, shell |-> FALSE] /\ claim' = None
    /\ UNCHANGED <<up, task, runs, alive, got, ret, stop, tried, desk, world>>

\* With the session the instance goes into the record again.
Train(j) ==
    /\ job[j].pc = "launching"
    /\ Machine(j) \in alive
    /\ \A k \in session : Machine(k) # Machine(j)
    /\ session' = session \cup {j} /\ runs' = runs \cup {j}
    /\ Move(j, "training", job[j].phase)
    /\ Remember(j, job[j].phase, TRUE)
    /\ UNCHANGED <<up, task, runner, alive, disk, hub, got, ret, stop, tried, desk>>

-----------------------------------------------------------------------------
(* The session on the machine *)

Saves(j) ==
    /\ j \in session
    /\ disk' = disk \cup {j}
    /\ UNCHANGED <<up, job, task, cur, runner, runs, local, alive, session, hub, got, ret, claim,
                   orphans, stop, tried, crashes>>

\* The weights are pushed when the training is once.  The exit mark comes
\* through the log, which may have broken off.
SessionEnds(j) ==
    /\ j \in session
    /\ session' = session \ {j}
    /\ \/ /\ j \in disk
          /\ hub' = [by |-> hub.by \cup {j}, last |-> j, since |-> TRUE]
       \/ hub' = hub
    /\ runs' \in {runs, runs \ {j}}
    /\ UNCHANGED <<up, job, task, cur, runner, local, alive, disk, got, ret, claim, orphans,
                   stop, tried, crashes>>

\* Somebody reads SSHRunner.state: an ssh that cannot connect counts as no session.
StateRead ==
    /\ up /\ runner \in runs
    /\ runs' = runs \ {runner}
    /\ UNCHANGED <<up, job, task, cur, runner, local, alive, got, ret, claim, orphans, stop, tried,
                   world>>

\* While it waits for the machine, a rental beyond its budget is one that Fails.
BudgetRunsOut(j) ==
    /\ j \in Rentals /\ job[j].pc = "training"
    /\ job' = [job EXCEPT ![j].pc = "overdue"]
    /\ UNCHANGED <<up, task, cur, claim, runner, runs, local, alive, got, ret, orphans, stop, tried,
                   world>>

-----------------------------------------------------------------------------
(* run_until_done, the retrieval and the finally *)

\* train_manager.stop(): whatever runner is there; a kill-session may not arrive
Stopped ==
    IF runner = None
    THEN local' = FALSE /\ UNCHANGED <<session, runs>>
    ELSE /\ runs' = runs \ {runner}
         /\ session' \in {session, session \ {runner}}
         /\ local' = local

\* Faulty variant of TrainingOver: an ended session is noticed, a budget is not.
TrainingOverUnbudgeted(j) ==
    /\ job[j].pc \in {"training", "overdue"}
    /\ ~IsRunning /\ UNCHANGED <<session, runs, local>>
    /\ Move(j, "retrieve", "retrieving")
    /\ Remember(j, "retrieving", job[j].inst)
    /\ UNCHANGED <<up, task, runner, alive, disk, hub, got, ret, orphans, stop, tried, crashes>>

TrainingOver(j) ==
    /\ job[j].pc \in {"training", "overdue"}
    /\ \/ ~IsRunning /\ UNCHANGED <<session, runs, local>>
       \/ IsRunning /\ job[j].pc = "overdue" /\ Stopped
    /\ Move(j, "retrieve", "retrieving")
    /\ Remember(j, "retrieving", job[j].inst)
    /\ UNCHANGED <<up, task, runner, alive, disk, hub, got, ret, orphans, stop, tried, crashes>>

\* Where the flow goes when the machine is no longer needed.
AfterRetrieval(j) == IF j \in Rentals THEN "finish" ELSE "pull"

\* Faulty variant of Looked: the weights are left for the destroyed machine's turn.
LookedAway(j) ==
    /\ job[j].pc = "retrieve"
    /\ ret' = [state |-> "waiting", of |-> j]
    /\ tried' = IF hub.since THEN tried \cup {j} ELSE tried
    /\ job' = [job EXCEPT ![j].pc = AfterRetrieval(j)]
    /\ UNCHANGED <<up, task, cur, claim, runner, runs, alive, got, stop, desk, world>>

\* before_destroy: the Hub has something newer than the start, or scp must bring it.
Looked(j) ==
    /\ job[j].pc = "retrieve"
    /\ \/ /\ hub.since
          /\ ret' = [state |-> "waiting", of |-> j]
          /\ tried' = tried \cup {j}
          /\ job' = [job EXCEPT ![j].pc = AfterRetrieval(j)]
       \/ /\ ret' = [state |-> "rescuing", of |-> j]
          /\ tried' = tried
          /\ job' = [job EXCEPT ![j].pc = "rescue"]
    /\ UNCHANGED <<up, task, cur, claim, runner, runs, alive, got, stop, desk, world>>

\* Of several runs on the machine, rescue() takes the one with the oldest name.
Oldest(j) ==
    LET there == {k \in disk : Machine(k) = Machine(j)}
    IN  IF there \ {j} # {} THEN there \ {j} ELSE there

\* scp, of what is there.  An scp that fails and one that finds nothing ("failed",
\* "missing") differ on the page alone.
Rescued(j) ==
    /\ job[j].pc = "rescue"
    /\ tried' = tried \cup {j}
    /\ \/ /\ Machine(j) \in alive
          /\ \E k \in Oldest(j) : got' = got \cup {k}
          /\ ret' = [ret EXCEPT !.state = "done"]
       \/ got' = got /\ ret' = [ret EXCEPT !.state = "missing"]
    /\ job' = [job EXCEPT ![j].pc = AfterRetrieval(j)]
    /\ UNCHANGED <<up, task, cur, claim, runner, runs, alive, stop, desk, world>>

\* after_destroy: any weights of the repository that are at home will do.
Pulled(j) ==
    /\ job[j].pc = "pull"
    /\ IF ret.state # "waiting"
       THEN UNCHANGED <<got, ret>>
       ELSE IF got # {}
       THEN got' = got /\ ret' = [ret EXCEPT !.state = "done"]
       ELSE \/ got' = {hub.last} /\ ret' = [ret EXCEPT !.state = "done"]
            \/ got' = got /\ ret' = [ret EXCEPT !.state = "failed"]
    /\ job' = [job EXCEPT ![j].pc = IF j \in Rentals THEN "done" ELSE "finish"]
    /\ UNCHANGED <<up, task, cur, claim, runner, runs, alive, stop, tried, desk, world>>

\* provider.destroy() and what its caller may believe of it
Destroy(m, phase) ==
    \/ /\ phase \in {"destroyed", "orphan"}
       /\ alive' = alive \ {m}
       /\ session' = {k \in session : Machine(k) # m}
    \/ /\ m \in alive /\ phase = "orphan"
       /\ UNCHANGED <<alive, session>>

\* job.finish(): CloudJob, phase after it
Finishes(j, phase) ==
    IF job[j].phase \in Ended \/ j \in Visits \/ ~job[j].inst
    THEN /\ phase = IF job[j].phase \in Ended THEN job[j].phase
                    ELSE IF j \in Visits THEN "finished" ELSE "destroyed"
         /\ UNCHANGED <<alive, session>>
    ELSE Destroy(j, phase)

\* Faulty variant of Finish: the runner returns only after a retrieval.
FinishKeepsRunner(j) ==
    /\ job[j].pc = "finish"
    /\ \E phase \in Ended :
          /\ Finishes(j, phase)
          /\ Move(j, IF j \in Rentals THEN "pull" ELSE "done", phase)
          /\ Remember(j, phase, job[j].inst)
    /\ runner' = IF j \in tried THEN None ELSE runner
    /\ UNCHANGED <<up, task, runs, disk, hub, got, ret, stop, tried, desk>>

\* Both finally blocks: the machine goes, the registry learns, the runner returns.
Finish(j) ==
    /\ job[j].pc = "finish"
    /\ \E phase \in Ended :
          /\ Finishes(j, phase)
          /\ Move(j, IF j \in Rentals THEN "pull" ELSE "done", phase)
          /\ Remember(j, phase, job[j].inst)
    /\ runner' = None
    /\ UNCHANGED <<up, task, runs, disk, hub, got, ret, stop, tried, desk>>

-----------------------------------------------------------------------------
(* stop_now(): the training stops, the flow has STOP_GRACE_S to end by itself, *)
(* then the machine is destroyed from a thread.                                *)

Returned == [at |-> "over", of |-> None, shell |-> FALSE]

StopAsked ==
    /\ up /\ cur.of # None /\ stop.at = "off"
    /\ Stopped
    /\ stop' = [at |-> IF Busy THEN "wait" ELSE "direct", of |-> cur.of, shell |-> cur.shell]
    /\ UNCHANGED <<up, job, task, cur, claim, runner, alive, disk, hub, got, ret, tried,
                   orphans, crashes>>

StopWaited ==
    /\ stop.at = "wait"
    /\ stop' = IF ~Busy \/ (~stop.shell /\ job[stop.of].phase \in {"destroyed", "orphan"})
             THEN Returned ELSE [stop EXCEPT !.at = "direct"]
    /\ UNCHANGED <<up, job, task, cur, claim, runner, runs, alive, got, ret, tried, desk, world>>

StopFinishes ==
    /\ stop.at = "direct"
    /\ LET j == stop.of
           destroys == ~stop.shell /\ j \in Rentals /\ job[j].inst /\ job[j].phase \notin Ended
       IN  /\ stop' = IF destroys THEN [stop EXCEPT !.at = "thread"] ELSE Returned
           /\ job' = IF stop.shell \/ job[j].phase \in Ended THEN job
                     ELSE [job EXCEPT ![j].phase = IF destroys THEN "destroying"
                                                   ELSE IF j \in Rentals THEN "destroyed" ELSE "finished"]
    /\ UNCHANGED <<up, task, cur, claim, runner, runs, alive, got, ret, tried, desk, world>>

StopDestroys ==
    /\ stop.at = "thread"
    /\ \E phase \in Ended :
          /\ Destroy(stop.of, phase)
          /\ job' = [job EXCEPT ![stop.of].phase = phase]
    /\ stop' = Returned
    /\ UNCHANGED <<up, task, cur, claim, runner, runs, disk, hub, got, ret, tried, desk>>

-----------------------------------------------------------------------------
(* The sweeper, the gateway's crashes and the people *)

\* Faulty variant of Known: the job in memory is not looked at.
KnownByRecord == {claim}

\* known_instances(): the record, and the job in memory
Known == {claim} \cup IF cur.of # None /\ ~cur.shell /\ job[cur.of].inst THEN {Machine(cur.of)} ELSE {}

Report == (alive \cap Jobs) \ Known

\* scan_once(): a label of ours that nobody knows; a box has another label
Scan ==
    /\ up
    /\ orphans' = Report
    /\ UNCHANGED <<up, job, task, cur, claim, runner, runs, local, alive, got, ret, stop, tried, world>>

\* The flows die with the loop; a training of this machine and the machines do not.
Crash ==
    /\ up /\ crashes < MaxCrashes /\ Busy
    /\ up' = FALSE /\ crashes' = crashes + 1
    /\ job' = [j \in Jobs |-> IF job[j].pc \in Flowing \cup {"ask"}
                              THEN [job[j] EXCEPT !.pc = "dead"] ELSE job[j]]
    /\ task' = None /\ cur' = NoOne /\ runner' = None /\ runs' = {} /\ orphans' = {}
    /\ ret' = [state |-> "idle", of |-> None]
    /\ stop' = [at |-> "off", of |-> None, shell |-> FALSE]
    /\ UNCHANGED <<claim, local, alive, session, disk, hub, got, tried>>

\* Faulty variant of Boot: the claims of the dead rentals stay.
BootClaiming ==
    /\ ~up /\ up' = TRUE
    /\ UNCHANGED <<claim, job, task, cur, runner, runs, alive, got, ret, stop, tried, desk, world>>

\* main: release_claims() before the sweeper starts
Boot ==
    /\ ~up /\ up' = TRUE
    /\ claim' = None
    /\ UNCHANGED <<job, task, cur, runner, runs, alive, got, ret, stop, tried, desk, world>>

\* A person destroys what the banner shows, or the box.
ByHand(m) ==
    /\ m \in alive /\ (m \in orphans \/ (m = Box /\ Busy /\ task \in Visits))
    /\ alive' = alive \ {m}
    /\ session' = {k \in session : Machine(k) # m}
    /\ UNCHANGED <<up, job, task, cur, claim, runner, runs, disk, hub, got, ret, stop, tried, desk>>

\* /training/start while the runner is the one of this machine
TrainHere ==
    /\ up /\ runner = None /\ (local \/ Busy)
    /\ local' = ~local
    /\ UNCHANGED <<up, job, task, cur, claim, runner, runs, alive, got, ret, orphans, stop, tried, world>>

Flow(j) == \/ Answered(j) \/ Go(j) \/ Made(j) \/ Created(j) \/ SshOpens(j) \/ Fails(j) \/ Launch(j)
           \/ Train(j) \/ TrainingOver(j) \/ Looked(j) \/ Rescued(j) \/ Pulled(j) \/ Finish(j)
Remote(j) == Saves(j) \/ SessionEnds(j)
Stopping == StopAsked \/ StopWaited \/ StopFinishes \/ StopDestroys

Next ==
    \/ \E j \in Jobs : start(j) \/ train_on(j) \/ Flow(j) \/ Remote(j) \/ BudgetRunsOut(j)
    \/ StateRead \/ Stopping \/ Scan \/ Crash \/ Boot \/ TrainHere
    \/ \E m \in alive : ByHand(m)

Spec == Init /\ [][Next]_vars

\* The loop runs what is ready, waits have deadlines, clocks advance, a supervisor
\* restarts the gateway.  Nothing makes a session end, or somebody look.
FairSpec ==
    /\ Spec
    /\ \A j \in Jobs : WF_vars(Flow(j)) /\ WF_vars(BudgetRunsOut(j))
    /\ WF_vars(Scan) /\ WF_vars(Boot)

-----------------------------------------------------------------------------
(* Properties *)

\* The rental that ended last did not see its machine go (LastLost).
LastLost(m) == cur.of = m /\ ~cur.shell /\ job[m].inst

\* Sweeper: a machine that we rented and no flow will destroy is in the report of a scan,
\* after a crash at any point and after a create() that failed too late too, except the
\* machine of the very last rental (LastLost).
ScanTellsAll == up => \A m \in alive \cap Jobs : Managed(m) \/ LastLost(m) \/ m \in Report

\* Sweeper: no machine with a flow behind it is reported, except while create() runs.
NoFalseAlarm == up => \A m \in Report : Managed(m) => job[m].pc \in {"created", "finish"}

\* ScanTellsAll and NoFalseAlarm: a scan reports what nobody will destroy, and only that.
ScanIsExact == ScanTellsAll /\ NoFalseAlarm

\* rent: when no rental is in progress the runner is the one of the settings again.
RunnerReturns == up /\ ~Busy => runner = None

\* procure, retrieve: the flow destroys a machine that holds this run's weights only after
\* it has looked for them on the Hub and, if they are not there, has tried to bring them.
SoughtBeforeDestroyed ==
    [][\A j \in Jobs : Finish(j) /\ j \in alive \ alive' /\ j \in disk => j \in tried]_vars

\* retrieve: at the moment it says "done", the weights of this run are at home, or were
\* pushed, or are on a live machine, unless what the Hub got came from another run.
DoneLosesNothing ==
    [][ret'.state = "done" /\ ret.state # "done" =>
          LET j == ret'.of IN
          j \in disk => \/ j \in got' \cup hub.by
                        \/ Machine(j) \in alive
                        \/ hub.since /\ hub.last # j]_vars

\* rent: what was rented does not stay for ever: the flow or a person destroys it, the
\* sweeper reports it, or it is the one that the last rental lost.
CostEnds ==
    \A m \in Jobs : m \in alive ~>
        m \notin alive \/ m \in orphans \/ (job[m].pc = "done" /\ LastLost(m))

-----------------------------------------------------------------------------
(* What the sources say and the code does not do *)

\* sweeper.known_instances: an orphan stays an orphan to the scanner.
OrphanIsReported ==
    up /\ ~Busy => \A m \in alive \cap Jobs : job[m].phase = "orphan" => m \in Report
\* retrieve.pushed: never to take the last run's weights and call it a success.
DoneIsThisRun == ret.state = "done" => ret.of \in got
\* rent: one at a time.
OneAtATime == Cardinality({j \in Jobs : job[j].pc \in Flowing}) <= 1
\* procure: when create() has failed, nothing is rented.
FailedCreateIsFree == \A j \in Jobs : job[j].phase = "destroyed" /\ j \in alive => Managed(j)
\* SSHRunner._alive: a broken network is no end of the training.
DestroysNoTraining ==
    [][\A j \in session : job[j].pc = "training" /\ job'[j].pc = "retrieve"
          => stop.at \notin {"wait", "direct", "thread"}]_vars
\* exclusivity: the guard sees the training that uses the GPU of this machine.
LocalIsSeen == local => IsRunning
\* stop_now: stopping is destroying.
StopIsFinal ==
    [][\A j \in Jobs : stop.at \in {"direct", "thread"} /\ stop'.at = "over" /\ stop.of = j /\ j \in Rentals
          => job[j].pc \notin {"creating", "created", "ssh", "stack", "launching"} \/ ~up']_vars
=============================================================================
