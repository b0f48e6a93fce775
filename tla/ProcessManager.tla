-------------------------- MODULE ProcessManager --------------------------
(***************************************************************************)
(* The owner of one LeRobot subprocess                                     *)
(* (backend/app/services/process_manager.py), in the one event loop of the *)
(* gateway.  A request runs until it awaits something, so an action is the *)
(* code between two awaits; what can happen in between is what the other   *)
(* requests, the reader of the child's stdout and the child itself do.     *)
(*                                                                         *)
(* When the loop learns that a child has exited, everyone who waits for    *)
(* that child is put into the ready queue at once and runs, in some order, *)
(* before anything that arrives later: woken.                              *)
(***************************************************************************)
EXTENDS Integers, FiniteSets

CONSTANTS
    Requests,            \* the requests that may be in progress together
    MaxProcs,            \* bound: children ever started
    LongLines,           \* a child may print a line beyond the reader's limit
    Grandchildren        \* a child's own child may keep its pipes open

Procs == 1 .. MaxProcs

ASSUME BoundsAssumption == MaxProcs \in Nat
ASSUME RequestsAssumption == Requests \cap ({0} \cup Procs) = {}
ASSUME FlagsAssumption == LongLines \in BOOLEAN /\ Grandchildren \in BOOLEAN

VARIABLES
    state,               \* _state
    process,             \* _process: the child it refers to, 0 for None
    log_task,            \* _log_task: the child whose stdout it reads, 0 for None
    reader,              \* child -> where _read_stdout of that child is
    os,                  \* child -> what the operating system knows of it
    code,                \* child -> its exit code is zero
    known,               \* the children whose returncode the loop has
    eof,                 \* the children whose pipes have been read to the end
    req,                 \* request -> what it awaits, and of which child
    woken,               \* waiters of an exited child that are about to run
    pressed              \* history: E-stop called kill() in this run

vars == <<state, process, log_task, reader, os, code, known, eof, req, woken,
          pressed>>

States == {"idle", "starting", "running", "stopping", "error"}
Nothing == [at |-> "nothing", on |-> 0]

\* A live child; "term" and "kill" have their signal pending.
Alive == {p \in Procs : os[p] \in {"runs", "term", "kill"}}

\* asyncio has dropped the child: send_signal raises ProcessLookupError
Closed(p) == p \in known \cap eof

TypeOK ==
    /\ state \in States
    /\ process \in {0} \cup Procs
    /\ log_task \in {0} \cup Procs
    /\ reader \in [Procs -> {"none", "lines", "wait", "done", "died"}]
    /\ os \in [Procs -> {"none", "runs", "term", "kill", "dead"}]
    /\ code \in [Procs -> BOOLEAN]
    /\ known \subseteq Procs
    /\ eof \subseteq Procs
    /\ req \in [Requests -> [at : {"nothing", "spawn", "term", "killed", "estop"},
                             on : {0} \cup Procs]]
    /\ woken \subseteq Requests \cup Procs
    /\ pressed \in BOOLEAN
    \* what is referred to has been started
    /\ process # 0 => os[process] # "none"
    /\ log_task # 0 => reader[log_task] # "none"

Init ==
    /\ state = "idle"
    /\ process = 0
    /\ log_task = 0
    /\ reader = [p \in Procs |-> "none"]
    /\ os = [p \in Procs |-> "none"]
    /\ code = [p \in Procs |-> FALSE]
    /\ known = {}
    /\ eof = {}
    /\ req = [r \in Requests |-> Nothing]
    /\ woken = {}
    /\ pressed = FALSE

\* the loop takes up something new only when those it has woken have run
Quiet == woken = {}

\* Without grandchildren the pipes of a dead child end with it, before another
\* request gets as far as a start.
Settled == Grandchildren \/ known \subseteq eof

-----------------------------------------------------------------------------
(* start() *)

\* Faulty variant of Start: a child that is still ending does not count.
StartWhileStopping(r) ==
    /\ Quiet
    /\ Settled
    /\ req[r] = Nothing
    /\ state \in {"idle", "error", "stopping"}
    /\ \E p \in Procs :
          /\ os[p] = "none"
          /\ \A q \in Procs : q < p => os[q] # "none"
          /\ os' = [os EXCEPT ![p] = "runs"]
          /\ req' = [req EXCEPT ![r] = [at |-> "spawn", on |-> p]]
    /\ state' = "starting"
    /\ pressed' = FALSE
    /\ UNCHANGED <<process, log_task, reader, code, known, eof, woken>>

\* The child is forked before the first await; _process is assigned after it.
Start(r) ==
    /\ Quiet
    /\ Settled
    /\ req[r] = Nothing
    /\ state \in {"idle", "error"}
    /\ \E p \in Procs :
          /\ os[p] = "none"
          /\ \A q \in Procs : q < p => os[q] # "none"
          /\ os' = [os EXCEPT ![p] = "runs"]
          /\ req' = [req EXCEPT ![r] = [at |-> "spawn", on |-> p]]
    /\ state' = "starting"
    /\ pressed' = FALSE
    /\ UNCHANGED <<process, log_task, reader, code, known, eof, woken>>

\* no such executable
StartFails(r) ==
    /\ Quiet
    /\ req[r] = Nothing
    /\ state \in {"idle", "error"}
    /\ state' = "error"
    /\ pressed' = FALSE
    /\ UNCHANGED <<process, log_task, reader, os, code, known, eof, req, woken>>

\* Faulty variant of Spawned: the reader task is not created.
SpawnedUnread(r) ==
    /\ Quiet
    /\ req[r].at = "spawn"
    /\ process' = req[r].on
    /\ state' = "running"
    /\ log_task' = req[r].on
    /\ req' = [req EXCEPT ![r] = Nothing]
    /\ UNCHANGED <<reader, os, code, known, eof, woken, pressed>>

\* whatever happened to the state meanwhile
Spawned(r) ==
    /\ Quiet
    /\ req[r].at = "spawn"
    /\ process' = req[r].on
    /\ state' = "running"
    /\ log_task' = req[r].on
    /\ reader' = [reader EXCEPT ![req[r].on] = "lines"]
    /\ req' = [req EXCEPT ![r] = Nothing]
    /\ UNCHANGED <<os, code, known, eof, woken, pressed>>

-----------------------------------------------------------------------------
(* stop() and kill() *)

Signal(p, sig) ==
    os' = [os EXCEPT ![p] = IF @ \in {"runs", "term"} THEN sig ELSE @]

\* what both do when the child they waited for has exited
Finish(r) ==
    /\ reader' = [p \in Procs |-> IF p = log_task THEN "done" ELSE reader[p]]
    /\ log_task' = 0
    /\ state' = "idle"
    /\ req' = [req EXCEPT ![r] = Nothing]
    /\ woken' = woken \ {r, log_task}

\* Faulty variant of Stop: it does not wait for the child.
StopAtOnce(r) ==
    /\ Quiet
    /\ req[r] = Nothing
    /\ process # 0
    /\ state \in {"running", "starting"}
    /\ process \in known => ~Closed(process)
    /\ Finish(r)
    /\ IF process \in known THEN UNCHANGED os ELSE Signal(process, "term")
    /\ UNCHANGED <<process, code, known, eof, pressed>>

\* wait() of a child that has exited returns without giving way
Stop(r) ==
    /\ Quiet
    /\ req[r] = Nothing
    /\ process # 0
    /\ state \in {"running", "starting"}
    /\ process \in known => ~Closed(process)
    /\ IF process \in known
       THEN Finish(r) /\ UNCHANGED os
       ELSE /\ Signal(process, "term")
            /\ req' = [req EXCEPT ![r] = [at |-> "term", on |-> process]]
            /\ state' = "stopping"
            /\ UNCHANGED <<log_task, reader, woken>>
    /\ UNCHANGED <<process, code, known, eof, pressed>>

\* the state is set before the signal; the exception leaves stop()
StopRaises(r) ==
    /\ Quiet
    /\ req[r] = Nothing
    /\ process # 0
    /\ state \in {"running", "starting"}
    /\ Closed(process)
    /\ state' = "stopping"
    /\ UNCHANGED <<process, log_task, reader, os, code, known, eof, req, woken, pressed>>

\* Faulty variant of TimesOut: another SIGTERM, and another wait.
TimesOutAgain(r) ==
    /\ Quiet
    /\ req[r].at = "term"
    /\ Signal(process, "term")
    /\ UNCHANGED <<state, process, log_task, reader, code, known, eof, req, woken, pressed>>

\* 15 s have passed
TimesOut(r) ==
    /\ Quiet
    /\ req[r].at = "term"
    /\ Signal(process, "kill")
    /\ req' = [req EXCEPT ![r] = [at |-> "killed", on |-> process]]
    /\ UNCHANGED <<state, process, log_task, reader, code, known, eof, woken, pressed>>

\* estop_all calls kill() of a manager that is busy
Kill(r) ==
    /\ Quiet
    /\ req[r] = Nothing
    /\ state \notin {"idle", "error"}
    /\ process # 0
    /\ process \notin known
    /\ Signal(process, "kill")
    /\ req' = [req EXCEPT ![r] = [at |-> "estop", on |-> process]]
    /\ pressed' = TRUE
    /\ UNCHANGED <<state, process, log_task, reader, code, known, eof, woken>>

\* there is no child to kill, as far as _process says
KillsNothing(r) ==
    /\ Quiet
    /\ req[r] = Nothing
    /\ state \notin {"idle", "error"}
    /\ process = 0 \/ process \in known
    /\ ~pressed
    /\ pressed' = TRUE
    /\ UNCHANGED <<state, process, log_task, reader, os, code, known, eof, req, woken>>

Resume(r) ==
    /\ r \in woken
    /\ Finish(r)
    /\ UNCHANGED <<process, os, code, known, eof, pressed>>

-----------------------------------------------------------------------------
(* _read_stdout and ensure_log_reader *)

\* Faulty variant of ReaderEnds: only a stop that was asked for is noticed.
ReaderEndsSilently(p) ==
    /\ state' = IF state = "stopping" THEN "idle" ELSE state
    /\ reader' = [reader EXCEPT ![p] = "done"]

ReaderEnds(p) ==
    /\ state' = IF state = "stopping" \/ code[process] THEN "idle" ELSE "error"
    /\ reader' = [reader EXCEPT ![p] = "done"]

\* stdout is at its end; the reader waits for the child of the moment
ReaderAtEof(p) ==
    /\ Quiet
    /\ reader[p] = "lines"
    /\ p \in eof
    /\ IF process \in known
       THEN ReaderEnds(p)
       ELSE reader' = [reader EXCEPT ![p] = "wait"] /\ UNCHANGED state
    /\ UNCHANGED <<process, log_task, os, code, known, eof, req, woken, pressed>>

ReaderResumes(p) ==
    /\ p \in woken
    /\ ReaderEnds(p)
    /\ woken' = woken \ {p}
    /\ UNCHANGED <<process, log_task, os, code, known, eof, req, pressed>>

\* a line longer than the limit of the stream is a ValueError
ReaderDies(p) ==
    /\ LongLines
    /\ Quiet
    /\ reader[p] = "lines"
    /\ p \notin eof
    /\ reader' = [reader EXCEPT ![p] = "died"]
    /\ UNCHANGED <<state, process, log_task, os, code, known, eof, req, woken, pressed>>

\* Faulty variant of EnsureLogReader: a task that is there counts as alive.
EnsureAnyLogReader ==
    /\ Quiet
    /\ process # 0
    /\ process \notin known
    /\ state = "running"
    /\ log_task = 0
    /\ log_task' = process
    /\ reader' = [reader EXCEPT ![process] = "lines"]
    /\ UNCHANGED <<state, process, os, code, known, eof, req, woken, pressed>>

\* whenever a browser connects
EnsureLogReader ==
    /\ Quiet
    /\ process # 0
    /\ process \notin known
    /\ state = "running"
    /\ log_task = 0 \/ reader[log_task] \in {"done", "died"}
    /\ log_task' = process
    /\ reader' = [reader EXCEPT ![process] = "lines"]
    /\ UNCHANGED <<state, process, os, code, known, eof, req, woken, pressed>>

-----------------------------------------------------------------------------
(* The child, and what asyncio notices of its end *)

Dies(p, zero) ==
    /\ p \in Alive
    /\ os[p] = "kill" => ~zero
    /\ os' = [os EXCEPT ![p] = "dead"]
    /\ code' = [code EXCEPT ![p] = zero]
    /\ UNCHANGED <<state, process, log_task, reader, known, eof, req, woken, pressed>>

Waiters(p) ==
    {r \in Requests : req[r].on = p /\ req[r].at \in {"term", "killed", "estop"}}
        \cup {q \in Procs : reader[q] = "wait" /\ process = p}

Reap(p) ==
    /\ Quiet
    /\ os[p] = "dead"
    /\ p \notin known
    /\ known' = known \cup {p}
    /\ woken' = Waiters(p)
    /\ UNCHANGED <<state, process, log_task, reader, os, code, eof, req, pressed>>

PipesEnd(p) ==
    /\ Quiet
    /\ os[p] = "dead"
    /\ p \notin eof
    /\ eof' = eof \cup {p}
    /\ UNCHANGED <<state, process, log_task, reader, os, code, known, req, woken, pressed>>

-----------------------------------------------------------------------------

RequestNext(r) ==
    \/ Start(r) \/ StartFails(r) \/ Spawned(r) \/ Stop(r) \/ StopRaises(r)
    \/ TimesOut(r) \/ Kill(r) \/ KillsNothing(r) \/ Resume(r)

LogNext(p) == ReaderAtEof(p) \/ ReaderResumes(p) \/ ReaderDies(p)

ChildNext(p) == (\E zero \in BOOLEAN : Dies(p, zero)) \/ Reap(p) \/ PipesEnd(p)

Next ==
    \/ \E r \in Requests : RequestNext(r)
    \/ \E p \in Procs : LogNext(p) \/ ChildNext(p)
    \/ EnsureLogReader

Spec == Init /\ [][Next]_vars

\* The loop runs what is ready, a SIGKILL takes effect, a browser connects again
\* some time.  Nobody has to press anything, and SIGTERM may be ignored.
FairSpec ==
    /\ Spec
    /\ \A r \in Requests :
          WF_vars(Spawned(r)) /\ WF_vars(TimesOut(r)) /\ WF_vars(Resume(r))
    /\ \A p \in Procs :
          /\ WF_vars(ReaderAtEof(p)) /\ WF_vars(ReaderResumes(p))
          /\ WF_vars(Reap(p)) /\ WF_vars(PipesEnd(p))
          /\ WF_vars(os[p] = "kill" /\ Dies(p, FALSE))
    /\ WF_vars(EnsureLogReader)

-----------------------------------------------------------------------------

\* A manager that says idle or error has no child left that still drives the arm
\* or holds a camera: the gates of exclusivity.py go by that state alone.
NothingBehindIdle == state \in {"idle", "error"} => Alive = {}

\* There is one child at a time, and it is the one _process refers to, except
\* while its start has not returned (start, stop and kill at every await).
KnowsItsChild ==
    /\ \A p, q \in Alive : p = q
    /\ \A p \in Alive :
          p = process \/ \E r \in Requests : req[r] = [at |-> "spawn", on |-> p]

\* KnowsItsChild and NothingBehindIdle: whatever still drives the arm is in the
\* hands of the manager, and its state says so (process_manager.py:112-218).
ChildIsHeld == KnowsItsChild /\ NothingBehindIdle

\* the reader of the present child's stdout has died over a line
ReaderLost == process # 0 /\ reader[process] = "died"

\* stop() comes to an end, with SIGKILL if SIGTERM does nothing: the manager
\* does not stay in STOPPING, where nothing can be started or stopped.  It may
\* when the reader is lost: nobody notices that the child ends, and stop() then
\* fails on a child that asyncio has dropped (process_manager.py:184-207).
StopEnds == (state = "stopping") ~> (state # "stopping" \/ ReaderLost)

\* The end of the child is noticed, so that the next start is not refused, unless
\* the reader of its stdout has died over a line (_read_stdout and what stop and
\* kill leave to it).
ExitIsNoticed ==
    \A p \in Procs :
        (process = p /\ os[p] = "dead" /\ state = "running")
            ~> (process # p \/ state # "running" \/ ReaderLost)

\* A reader that has died is replaced while there is something to read
\* (ensure_log_reader, process_manager.py:97).
ReaderIsReplaced ==
    \A p \in Procs :
        (process = p /\ state = "running" /\ ReaderLost)
            ~> (~ReaderLost \/ process # p \/ state # "running" \/ p \in known)

\* ExitIsNoticed and ReaderIsReplaced: with the reader alive, or a page that
\* connects in time, a child that ends does not stay "running".
EndIsSeen == ExitIsNoticed /\ ReaderIsReplaced

\* The end of the child is noticed even then, so that something can be started
\* again (not so: process_manager.py:97 replaces the reader of a live child only).
ExitIsAlwaysNoticed ==
    \A p \in Procs :
        (process = p /\ os[p] = "dead" /\ state = "running")
            ~> (process # p \/ state \in {"idle", "error", "starting"})

\* kill() of a busy manager leaves no child (process_manager.py:210: "force quit
\* at once, for E-stop"; estop_all counts it as stopped).
EstopKills == pressed ~> (Alive = {} \/ ~pressed)
=============================================================================
