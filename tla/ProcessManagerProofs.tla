------------------------ MODULE ProcessManagerProofs ------------------------
(***************************************************************************)
(* The children of the gateway.  First ProcessManager: types, and          *)
(* ChildIsHeld when no grandchild keeps the pipes of its parent open, for  *)
(* any number of requests and children.  Then, further down, the recorder  *)
(* of RecordSession, a child of its own kind.                              *)
(*                                                                         *)
(* The state alone does not say it: what holds the invariant together is   *)
(* that every waiter waits for the child _process refers to, or is about   *)
(* to run (WaitersWait, ReadersRead, WokenWaited), and that during a start *)
(* the previous child is one that asyncio has dropped (StartIsAlone), so   *)
(* that neither stop nor kill gets hold of it.                             *)
(***************************************************************************)
EXTENDS ProcessManager, RecordSession, FiniteSetTheorems, SequenceTheorems, TLAPS

Waits(r) == req[r].at \in {"term", "killed", "estop"}
Reads(p) == reader[p] \in {"lines", "wait"}

\* a start under way has its child
StartHasChild ==
    \A r \in Requests :
        req[r].at = "spawn" => req[r].on \in Procs /\ os[req[r].on] # "none"

TypeInv == TypeOK /\ StartHasChild

EndedIsDead == \A p \in known \cup eof : os[p] = "dead"

Owned ==
    \A p \in Alive :
        p = process \/ \E r \in Requests : req[r].at = "spawn" /\ req[r].on = p

StartIsAlone ==
    \A r \in Requests :
        req[r].at = "spawn" =>
            /\ state \in {"starting", "stopping"}
            /\ process = 0 \/ Closed(process)
            /\ \A s \in Requests : req[s].at # "nothing" => s = r
            /\ \A p \in Procs : ~Reads(p)

WaitersWait ==
    \A r \in Requests :
        Waits(r) => /\ process # 0 /\ req[r].on = process
                    /\ process \in known => r \in woken

ReadersRead ==
    \A p \in Procs :
        Reads(p) => /\ p = process /\ p = log_task
                    /\ state \in {"running", "stopping"}
                    /\ reader[p] = "wait" /\ process \in known => p \in woken

WokenWaited ==
    \A w \in woken :
        /\ process \in known
        /\ \/ w \in Requests /\ Waits(w)
           \/ w \in Procs /\ reader[w] = "wait"

IdleHasEnded == state \in {"idle", "error"} => process = 0 \/ process \in known

ChildInv ==
    /\ EndedIsDead /\ Owned /\ StartIsAlone /\ WaitersWait /\ ReadersRead
    /\ WokenWaited /\ IdleHasEnded

LEMMA NothingFields == Nothing.at = "nothing" /\ Nothing.on = 0
  BY DEF Nothing

LEMMA ZeroIsNone == 0 \notin Procs /\ 0 \notin Requests /\ Requests \cap Procs = {}
  BY BoundsAssumption, RequestsAssumption DEF Procs

LEMMA StatesHold ==
    /\ "idle" \in States /\ "error" \in States /\ "starting" \in States
    /\ "running" \in States /\ "stopping" \in States
  BY DEF States

-----------------------------------------------------------------------------
(* Types *)

LEMMA TypeInit == Init => TypeInv
<1> SUFFICES ASSUME Init PROVE TypeInv
  OBVIOUS
<1>1. code \in [Procs -> BOOLEAN] /\ pressed \in BOOLEAN
  BY Zenon DEF Init
<1>2. req \in [Requests -> [at : {"nothing", "spawn", "term", "killed", "estop"},
                           on : {0} \cup Procs]]
  BY DEF Init, Nothing
<1>3. StartHasChild
  BY NothingFields DEF Init, StartHasChild
<1>. QED
  BY <1>1, <1>2, <1>3, StatesHold DEF Init, TypeInv, TypeOK

\* Signals change nothing but what the operating system knows of a live child.
LEMMA SignalSends ==
    ASSUME TypeOK, NEW p \in Procs, NEW sig \in {"term", "kill"}, Signal(p, sig)
    PROVE  /\ os' \in [Procs -> {"none", "runs", "term", "kill", "dead"}]
           /\ \A q \in Procs \ {p} : os'[q] = os[q]
           /\ os[p] \in {"none", "dead"} => os'[p] = os[p]
           /\ os[p] \notin {"none", "dead"} => os'[p] \notin {"none", "dead"}
  BY DEF TypeOK, Signal

LEMMA FinishTypes ==
    ASSUME TypeInv, NEW r \in Requests, Finish(r)
    PROVE  /\ state' \in States
           /\ log_task' = 0
           /\ reader' \in [Procs -> {"none", "lines", "wait", "done", "died"}]
           /\ req' \in [Requests -> [at : {"nothing", "spawn", "term", "killed", "estop"},
                                     on : {0} \cup Procs]]
           /\ woken' \subseteq woken
           /\ \A s \in Requests : req'[s].at = "spawn" => req'[s] = req[s]
  BY NothingFields, StatesHold DEF TypeInv, TypeOK, Finish, Nothing

LEMMA TypeStep == ASSUME TypeInv, [Next]_vars PROVE TypeInv'
<1> USE DEF TypeInv, TypeOK, StartHasChild
<1>1. ASSUME NEW r \in Requests, Start(r) PROVE TypeInv'
  <2>1. PICK p \in Procs : /\ os[p] = "none" /\ os' = [os EXCEPT ![p] = "runs"]
                           /\ req' = [req EXCEPT ![r] = [at |-> "spawn", on |-> p]]
    BY <1>1 DEF Start
  <2>2. /\ os' \in [Procs -> {"none", "runs", "term", "kill", "dead"}]
        /\ os'[p] # "none" /\ \A q \in Procs \ {p} : os'[q] = os[q]
    BY <2>1
  <2>3. /\ req' \in [Requests -> [at : {"nothing", "spawn", "term", "killed", "estop"},
                                  on : {0} \cup Procs]]
        /\ StartHasChild'
    BY <2>1, <2>2
  <2>4. pressed' \in BOOLEAN
    BY <1>1, Zenon DEF Start
  <2>. QED
    BY <1>1, <2>2, <2>3, <2>4, StatesHold DEF Start
<1>2. ASSUME NEW r \in Requests, StartFails(r) PROVE TypeInv'
  <2>1. pressed' \in BOOLEAN
    BY <1>2, Zenon DEF StartFails
  <2>. QED
    BY <1>2, <2>1, StatesHold DEF StartFails
<1>3. ASSUME NEW r \in Requests, Spawned(r) PROVE TypeInv'
  BY <1>3, NothingFields, StatesHold DEF Spawned, Nothing
<1>4. ASSUME NEW r \in Requests, Stop(r) PROVE TypeInv'
  <2>1. process \in Procs /\ UNCHANGED <<process, code, known, eof, pressed>>
    BY <1>4 DEF Stop
  <2>2. CASE process \in known
    <3>1. Finish(r) /\ os' = os
      BY <1>4, <2>2 DEF Stop
    <3>. QED
      BY <2>1, <3>1, FinishTypes
  <2>3. CASE process \notin known
    <3>1. /\ Signal(process, "term")
          /\ req' = [req EXCEPT ![r] = [at |-> "term", on |-> process]]
          /\ state' = "stopping"
          /\ UNCHANGED <<log_task, reader, woken>>
      BY <1>4, <2>3 DEF Stop
    <3>2. /\ os' \in [Procs -> {"none", "runs", "term", "kill", "dead"}]
          /\ \A q \in Procs : os[q] # "none" => os'[q] # "none"
      BY <2>1, <3>1, SignalSends
    <3>. QED
      BY <2>1, <3>1, <3>2, StatesHold
  <2>. QED
    BY <2>2, <2>3
<1>5. ASSUME NEW r \in Requests, StopRaises(r) PROVE TypeInv'
  BY <1>5, StatesHold DEF StopRaises
<1>6. ASSUME NEW r \in Requests, TimesOut(r) \/ Kill(r) PROVE TypeInv'
  <2>1. /\ \E a \in {"killed", "estop"} :
              req' = [req EXCEPT ![r] = [at |-> a, on |-> process]]
        /\ Signal(process, "kill")
        /\ UNCHANGED <<state, process, log_task, reader, code, known, eof, woken>>
    BY <1>6 DEF TimesOut, Kill
  <2>2. pressed' \in BOOLEAN
    BY <1>6, Zenon DEF TimesOut, Kill
  <2>3. /\ os' \in [Procs -> {"none", "runs", "term", "kill", "dead"}]
        /\ \A q \in Procs : os[q] # "none" => os'[q] # "none"
    BY <2>1 DEF Signal
  <2>4. /\ req' \in [Requests -> [at : {"nothing", "spawn", "term", "killed", "estop"},
                                  on : {0} \cup Procs]]
        /\ StartHasChild'
    BY <2>1, <2>3
  <2>. QED
    BY <2>1, <2>2, <2>3, <2>4
<1>7. ASSUME NEW r \in Requests, KillsNothing(r) PROVE TypeInv'
  <2>1. pressed' \in BOOLEAN
    BY <1>7, Zenon DEF KillsNothing
  <2>. QED
    BY <1>7, <2>1 DEF KillsNothing
<1>8. ASSUME NEW r \in Requests, Resume(r) PROVE TypeInv'
  <2>1. Finish(r) /\ UNCHANGED <<process, os, code, known, eof, pressed>>
    BY <1>8 DEF Resume
  <2>. QED
    BY <2>1, FinishTypes
<1>9. ASSUME NEW p \in Procs, LogNext(p) PROVE TypeInv'
  <2>1. /\ UNCHANGED <<process, log_task, os, code, known, eof, req, pressed>>
        /\ woken' \subseteq woken
        /\ state' \in States
        /\ \E w \in {"wait", "done", "died"} : reader' = [reader EXCEPT ![p] = w]
    BY <1>9, StatesHold DEF LogNext, ReaderAtEof, ReaderResumes, ReaderDies, ReaderEnds
  <2>. QED
    BY <2>1
<1>10. ASSUME NEW p \in Procs, NEW zero \in BOOLEAN, Dies(p, zero) PROVE TypeInv'
  <2>1. code' \in [Procs -> BOOLEAN]
    BY <1>10, Zenon DEF Dies
  <2>. QED
    BY <1>10, <2>1 DEF Dies
<1>11. ASSUME NEW p \in Procs, Reap(p) \/ PipesEnd(p) PROVE TypeInv'
  BY <1>11 DEF Reap, PipesEnd, Waiters
<1>12. ASSUME EnsureLogReader PROVE TypeInv'
  BY <1>12 DEF EnsureLogReader
<1>13. ASSUME UNCHANGED vars PROVE TypeInv'
  BY <1>13 DEF vars
<1>. QED
  BY <1>1, <1>2, <1>3, <1>4, <1>5, <1>6, <1>7, <1>8, <1>9, <1>10, <1>11, <1>12, <1>13
  DEF Next, RequestNext, ChildNext

-----------------------------------------------------------------------------
(* The child is held *)

LEMMA ChildInit == Init => ChildInv
  BY NothingFields
  DEF Init, ChildInv, EndedIsDead, Owned, StartIsAlone, WaitersWait, ReadersRead,
      WokenWaited, IdleHasEnded, Alive, Waits, Reads

\* stop or kill, when the child it waited for has ended
LEMMA FinishKeeps ==
    ASSUME TypeInv, ChildInv, NEW r \in Requests, Finish(r),
           UNCHANGED <<process, os, known, eof>>,
           process \in known, \A s \in Requests : req[s].at # "spawn"
    PROVE  ChildInv'
<1> USE DEF TypeInv, TypeOK, ChildInv
<1>1. /\ state' = "idle" /\ woken' = woken \ {r, log_task} /\ log_task' = 0
      /\ req' = [req EXCEPT ![r] = Nothing]
      /\ reader' = [p \in Procs |-> IF p = log_task THEN "done" ELSE reader[p]]
  BY DEF Finish
<1>2. \A p \in Procs : ~Reads(p)'
  BY <1>1 DEF ReadersRead, Reads
<1>3. EndedIsDead' /\ IdleHasEnded'
  BY DEF EndedIsDead, IdleHasEnded
<1>4. Owned' /\ StartIsAlone'
  BY <1>1, NothingFields DEF Owned, StartIsAlone, Alive
<1>5. ReadersRead'
  BY <1>2 DEF ReadersRead
<1>6. \A s \in Requests : Waits(s)' => s # r /\ Waits(s) /\ req'[s] = req[s]
  BY <1>1, NothingFields DEF Waits
<1>7. log_task \notin Requests
  BY ZeroIsNone
<1>8. WaitersWait'
  BY <1>1, <1>6, <1>7 DEF WaitersWait
<1>9. WokenWaited'
  <2> SUFFICES ASSUME NEW w \in woken' PROVE w \in Requests /\ Waits(w)'
    BY DEF WokenWaited
  <2>1. w \in woken /\ w # r /\ w # log_task
    BY <1>1
  <2>2. w \in Requests /\ Waits(w)
    BY <2>1 DEF WokenWaited, ReadersRead, Reads
  <2>. QED
    BY <1>1, <2>1, <2>2 DEF Waits
<1>. QED
  BY <1>3, <1>4, <1>5, <1>8, <1>9

\* a signal to the present child, and a request that waits for it
LEMMA SignalKeeps ==
    ASSUME TypeInv, ChildInv, NEW r \in Requests, NEW a \in {"term", "killed", "estop"},
           NEW sig \in {"term", "kill"}, Signal(process, sig),
           process # 0, process \notin known,
           \A s \in Requests : req[s].at # "spawn",
           req' = [req EXCEPT ![r] = [at |-> a, on |-> process]],
           state' = state \/ state' = "stopping",
           UNCHANGED <<process, log_task, reader, known, eof, woken>>
    PROVE  ChildInv'
<1> USE DEF TypeInv, TypeOK, ChildInv
<1>1. /\ \A q \in Procs \ {process} : os'[q] = os[q]
      /\ os[process] = "dead" => os'[process] = "dead"
      /\ Alive' \subseteq Alive
  BY SignalSends DEF Alive
<1>2. EndedIsDead' /\ Owned'
  BY <1>1 DEF EndedIsDead, Owned
<1>3. StartIsAlone' /\ WaitersWait' /\ IdleHasEnded'
  BY DEF StartIsAlone, WaitersWait, IdleHasEnded, Waits
<1>4. ReadersRead'
  BY DEF ReadersRead, Reads
<1>5. woken = {}
  BY DEF WokenWaited
<1>6. WokenWaited'
  BY <1>5 DEF WokenWaited
<1>. QED
  BY <1>2, <1>3, <1>4, <1>6

\* a reader of a child that has ended comes to its end
LEMMA ReaderEndsKeeps ==
    ASSUME TypeInv, ChildInv, NEW p \in Procs, Reads(p), ReaderEnds(p), process \in known,
           woken' = woken \ {p},
           UNCHANGED <<process, log_task, os, known, eof, req>>
    PROVE  ChildInv'
<1> USE DEF TypeInv, TypeOK, ChildInv
<1>1. /\ state' \in {"idle", "error"} /\ reader' = [reader EXCEPT ![p] = "done"]
      /\ \A q \in Procs : ~Reads(q)'
  BY DEF ReaderEnds, ReadersRead, Reads
<1>2. EndedIsDead' /\ Owned' /\ IdleHasEnded'
  BY DEF EndedIsDead, Owned, IdleHasEnded, Alive
<1>3. \A r \in Requests : req[r].at # "spawn"
  BY DEF StartIsAlone
<1>4. StartIsAlone'
  BY <1>3 DEF StartIsAlone
<1>5. p \notin Requests
  BY ZeroIsNone
<1>6. WaitersWait' /\ ReadersRead'
  BY <1>1, <1>5 DEF WaitersWait, ReadersRead, Waits
<1>7. WokenWaited'
  <2> SUFFICES ASSUME NEW w \in woken' PROVE w \in Requests /\ Waits(w)'
    BY DEF WokenWaited
  <2>1. w \in woken /\ w # p
    OBVIOUS
  <2>2. w \in Requests /\ Waits(w)
    BY <2>1 DEF WokenWaited, ReadersRead, Reads
  <2>. QED
    BY <2>2 DEF Waits
<1>. QED
  BY <1>2, <1>4, <1>6, <1>7

LEMMA ChildStep ==
    ASSUME ~Grandchildren, TypeInv, ChildInv, [Next]_vars PROVE ChildInv'
<1> USE DEF TypeInv, TypeOK, ChildInv
<1>1. ASSUME NEW r \in Requests, Start(r) PROVE ChildInv'
  <2>1. PICK p \in Procs : /\ os[p] = "none" /\ os' = [os EXCEPT ![p] = "runs"]
                           /\ req' = [req EXCEPT ![r] = [at |-> "spawn", on |-> p]]
    BY <1>1 DEF Start
  <2>2. /\ woken = {} /\ known \subseteq eof /\ state \in {"idle", "error"}
        /\ state' = "starting"
        /\ UNCHANGED <<process, log_task, reader, known, eof, woken>>
    BY <1>1 DEF Start, Quiet, Settled
  <2>3. process = 0 \/ Closed(process)
    BY <2>2 DEF IdleHasEnded, Closed
  <2>4. \A s \in Requests : req[s].at = "nothing"
    <3> SUFFICES ASSUME NEW s \in Requests, req[s].at # "nothing" PROVE FALSE
      OBVIOUS
    <3>1. CASE req[s].at = "spawn"
      BY <2>2, <3>1 DEF StartIsAlone
    <3>2. CASE Waits(s)
      BY <2>2, <2>3, <3>2 DEF WaitersWait, Closed
    <3>. QED
      BY <3>1, <3>2 DEF Waits
  <2>5. \A q \in Procs : ~Reads(q)
    BY <2>2 DEF ReadersRead
  <2>6. EndedIsDead' /\ Owned'
    BY <2>1, <2>2, <2>4 DEF EndedIsDead, Owned, Alive
  <2>7. StartIsAlone' /\ WaitersWait'
    BY <2>1, <2>2, <2>3, <2>4, <2>5 DEF StartIsAlone, WaitersWait, Waits, Reads, Closed
  <2>8. ReadersRead' /\ WokenWaited' /\ IdleHasEnded'
    BY <2>2, <2>5 DEF ReadersRead, WokenWaited, IdleHasEnded, Reads
  <2>. QED
    BY <2>6, <2>7, <2>8
<1>2. ASSUME NEW r \in Requests, StartFails(r) PROVE ChildInv'
  BY <1>2
  DEF StartFails, EndedIsDead, Owned, StartIsAlone, WaitersWait, ReadersRead, WokenWaited,
      IdleHasEnded, Alive, Waits, Reads
<1>3. ASSUME NEW r \in Requests, Spawned(r) PROVE ChildInv'
  <2>1. /\ req[r].at = "spawn" /\ req[r].on \in Procs /\ woken = {}
        /\ process' = req[r].on /\ log_task' = req[r].on /\ state' = "running"
        /\ reader' = [reader EXCEPT ![req[r].on] = "lines"]
        /\ req' = [req EXCEPT ![r] = Nothing]
        /\ UNCHANGED <<os, known, eof, woken>>
    BY <1>3 DEF Spawned, Quiet, StartHasChild
  <2>2. /\ \A s \in Requests : req'[s].at = "nothing"
        /\ \A p \in Procs : ~Reads(p)
        /\ process = 0 \/ Closed(process)
    BY <2>1, NothingFields DEF StartIsAlone
  <2>3. \A p \in Alive : p = process'
    <3> SUFFICES ASSUME NEW p \in Alive PROVE p = process'
      OBVIOUS
    <3>1. p # process
      BY <2>2, ZeroIsNone DEF Closed, EndedIsDead, Alive
    <3>2. PICK s \in Requests : req[s].at = "spawn" /\ req[s].on = p
      BY <3>1 DEF Owned
    <3>3. s = r
      BY <2>1, <3>2 DEF StartIsAlone
    <3>. QED
      BY <2>1, <3>2, <3>3
  <2>4. EndedIsDead' /\ Owned'
    BY <2>1, <2>3 DEF EndedIsDead, Owned, Alive
  <2>5. StartIsAlone' /\ WaitersWait'
    BY <2>2 DEF StartIsAlone, WaitersWait, Waits
  <2>6. ReadersRead' /\ WokenWaited' /\ IdleHasEnded'
    BY <2>1, <2>2 DEF ReadersRead, WokenWaited, IdleHasEnded, Reads
  <2>. QED
    BY <2>4, <2>5, <2>6
<1>4. ASSUME NEW r \in Requests, Stop(r) PROVE ChildInv'
  <2>1. /\ process # 0 /\ ~Closed(process) /\ req[r] = Nothing
        /\ UNCHANGED <<process, known, eof>>
    BY <1>4 DEF Stop, Closed
  <2>2. \A s \in Requests : req[s].at # "spawn"
    BY <2>1 DEF StartIsAlone
  <2>3. CASE process \in known
    <3>1. Finish(r) /\ os' = os
      BY <1>4, <2>3 DEF Stop
    <3>. QED
      BY <2>1, <2>2, <2>3, <3>1, FinishKeeps
  <2>4. CASE process \notin known
    <3>1. /\ Signal(process, "term") /\ state' = "stopping"
          /\ req' = [req EXCEPT ![r] = [at |-> "term", on |-> process]]
          /\ UNCHANGED <<log_task, reader, woken>>
      BY <1>4, <2>4 DEF Stop
    <3>. QED
      BY <2>1, <2>2, <2>4, <3>1, SignalKeeps
  <2>. QED
    BY <2>3, <2>4
<1>5. ASSUME NEW r \in Requests, StopRaises(r) PROVE ChildInv'
  <2>1. /\ state' = "stopping" /\ state \in {"running", "starting"}
        /\ UNCHANGED <<process, log_task, reader, os, known, eof, req, woken>>
    BY <1>5 DEF StopRaises
  <2>. QED
    BY <2>1
    DEF EndedIsDead, Owned, StartIsAlone, WaitersWait, ReadersRead, WokenWaited,
        IdleHasEnded, Alive, Waits, Reads, Closed
<1>6. ASSUME NEW r \in Requests, TimesOut(r) PROVE ChildInv'
  <2>1. /\ req[r].at = "term" /\ woken = {} /\ Signal(process, "kill")
        /\ req' = [req EXCEPT ![r] = [at |-> "killed", on |-> process]]
        /\ UNCHANGED <<state, process, log_task, reader, known, eof, woken>>
    BY <1>6 DEF TimesOut, Quiet
  <2>2. process # 0 /\ process \notin known
    BY <2>1 DEF WaitersWait, Waits
  <2>3. \A s \in Requests : req[s].at # "spawn"
    BY <2>2 DEF StartIsAlone, Closed
  <2>. QED
    BY <2>1, <2>2, <2>3, SignalKeeps
<1>7. ASSUME NEW r \in Requests, Kill(r) PROVE ChildInv'
  <2>1. /\ process # 0 /\ process \notin known /\ Signal(process, "kill")
        /\ req' = [req EXCEPT ![r] = [at |-> "estop", on |-> process]]
        /\ UNCHANGED <<state, process, log_task, reader, known, eof, woken>>
    BY <1>7 DEF Kill
  <2>2. \A s \in Requests : req[s].at # "spawn"
    BY <2>1 DEF StartIsAlone, Closed
  <2>. QED
    BY <2>1, <2>2, SignalKeeps
<1>8. ASSUME NEW r \in Requests, KillsNothing(r) PROVE ChildInv'
  <2>1. UNCHANGED <<state, process, log_task, reader, os, known, eof, req, woken>>
    BY <1>8 DEF KillsNothing
  <2>. QED
    BY <2>1
    DEF EndedIsDead, Owned, StartIsAlone, WaitersWait, ReadersRead, WokenWaited,
        IdleHasEnded, Alive, Waits, Reads, Closed
<1>9. ASSUME NEW r \in Requests, Resume(r) PROVE ChildInv'
  <2>1. r \in woken /\ Finish(r) /\ UNCHANGED <<process, os, known, eof>>
    BY <1>9 DEF Resume
  <2>2. process \in known /\ Waits(r)
    BY <2>1, ZeroIsNone DEF WokenWaited
  <2>3. \A s \in Requests : req[s].at # "spawn"
    BY <2>2 DEF StartIsAlone, Waits
  <2>. QED
    BY <2>1, <2>2, <2>3, FinishKeeps
<1>10. ASSUME NEW p \in Procs, ReaderAtEof(p) PROVE ChildInv'
  <2>1. /\ woken = {} /\ reader[p] = "lines" /\ Reads(p)
        /\ UNCHANGED <<process, log_task, os, known, eof, req, woken>>
    BY <1>10 DEF ReaderAtEof, Quiet, Reads
  <2>2. CASE process \in known
    <3>1. ReaderEnds(p) /\ woken' = woken \ {p}
      BY <1>10, <2>1, <2>2 DEF ReaderAtEof
    <3>. QED
      BY <2>1, <2>2, <3>1, ReaderEndsKeeps
  <2>3. CASE process \notin known
    <3>1. reader' = [reader EXCEPT ![p] = "wait"] /\ state' = state
      BY <1>10, <2>3 DEF ReaderAtEof
    <3>2. EndedIsDead' /\ Owned' /\ WaitersWait' /\ IdleHasEnded' /\ WokenWaited'
      BY <2>1, <3>1
      DEF EndedIsDead, Owned, WaitersWait, IdleHasEnded, WokenWaited, Alive, Waits
    <3>3. StartIsAlone' /\ ReadersRead'
      BY <2>1, <2>3, <3>1 DEF StartIsAlone, ReadersRead, Reads
    <3>. QED
      BY <3>2, <3>3
  <2>. QED
    BY <2>2, <2>3
<1>11. ASSUME NEW p \in Procs, ReaderResumes(p) PROVE ChildInv'
  <2>1. /\ p \in woken /\ ReaderEnds(p) /\ woken' = woken \ {p}
        /\ UNCHANGED <<process, log_task, os, known, eof, req>>
    BY <1>11 DEF ReaderResumes
  <2>2. process \in known /\ Reads(p)
    BY <2>1, ZeroIsNone DEF WokenWaited, Reads
  <2>. QED
    BY <2>1, <2>2, ReaderEndsKeeps
<1>12. ASSUME NEW p \in Procs, ReaderDies(p) PROVE ChildInv'
  <2>1. /\ woken = {} /\ reader' = [reader EXCEPT ![p] = "died"]
        /\ UNCHANGED <<state, process, log_task, os, known, eof, req, woken>>
    BY <1>12 DEF ReaderDies, Quiet
  <2>2. EndedIsDead' /\ Owned' /\ WaitersWait' /\ IdleHasEnded' /\ WokenWaited'
    BY <2>1 DEF EndedIsDead, Owned, WaitersWait, IdleHasEnded, WokenWaited, Alive, Waits
  <2>3. StartIsAlone' /\ ReadersRead'
    BY <2>1 DEF StartIsAlone, ReadersRead, Reads, Closed
  <2>. QED
    BY <2>2, <2>3
<1>13. ASSUME NEW p \in Procs, NEW zero \in BOOLEAN, Dies(p, zero) PROVE ChildInv'
  <2>1. /\ os' = [os EXCEPT ![p] = "dead"]
        /\ UNCHANGED <<state, process, log_task, reader, known, eof, req, woken>>
    BY <1>13 DEF Dies
  <2>2. EndedIsDead' /\ Owned'
    BY <2>1 DEF EndedIsDead, Owned, Alive
  <2>. QED
    BY <2>1, <2>2
    DEF StartIsAlone, WaitersWait, ReadersRead, WokenWaited, IdleHasEnded, Waits, Reads, Closed
<1>14. ASSUME NEW p \in Procs, Reap(p) PROVE ChildInv'
  <2>1. /\ woken = {} /\ os[p] = "dead" /\ p \notin known
        /\ known' = known \cup {p} /\ woken' = Waiters(p)
        /\ UNCHANGED <<state, process, log_task, reader, os, eof, req>>
    BY <1>14 DEF Reap, Quiet
  <2>2. EndedIsDead' /\ Owned' /\ StartIsAlone' /\ IdleHasEnded'
    BY <2>1 DEF EndedIsDead, Owned, StartIsAlone, IdleHasEnded, Alive, Reads, Closed
  <2>3. WaitersWait'
    BY <2>1 DEF WaitersWait, Waiters, Waits
  <2>4. ReadersRead'
    BY <2>1 DEF ReadersRead, Waiters, Reads
  <2>5. WokenWaited'
    BY <2>1 DEF WokenWaited, WaitersWait, Waiters, Waits
  <2>. QED
    BY <2>2, <2>3, <2>4, <2>5
<1>15. ASSUME NEW p \in Procs, PipesEnd(p) PROVE ChildInv'
  <2>1. /\ os[p] = "dead" /\ eof' = eof \cup {p}
        /\ UNCHANGED <<state, process, log_task, reader, os, known, req, woken>>
    BY <1>15 DEF PipesEnd
  <2>. QED
    BY <2>1
    DEF EndedIsDead, Owned, StartIsAlone, WaitersWait, ReadersRead, WokenWaited,
        IdleHasEnded, Alive, Waits, Reads, Closed
<1>16. ASSUME EnsureLogReader PROVE ChildInv'
  <2>1. /\ woken = {} /\ process \in Procs /\ process \notin known /\ state = "running"
        /\ log_task = 0 \/ reader[log_task] \in {"done", "died"}
        /\ log_task' = process /\ reader' = [reader EXCEPT ![process] = "lines"]
        /\ UNCHANGED <<state, process, os, known, eof, req, woken>>
    BY <1>16 DEF EnsureLogReader, Quiet
  <2>2. EndedIsDead' /\ Owned' /\ WaitersWait' /\ IdleHasEnded' /\ WokenWaited'
    BY <2>1 DEF EndedIsDead, Owned, WaitersWait, IdleHasEnded, WokenWaited, Alive, Waits
  <2>3. StartIsAlone' /\ ReadersRead'
    BY <2>1 DEF StartIsAlone, ReadersRead, Reads, Closed
  <2>. QED
    BY <2>2, <2>3
<1>17. ASSUME UNCHANGED vars PROVE ChildInv'
  BY <1>17
  DEF vars, EndedIsDead, Owned, StartIsAlone, WaitersWait, ReadersRead, WokenWaited,
      IdleHasEnded, Alive, Waits, Reads, Closed
<1>. QED
  BY <1>1, <1>2, <1>3, <1>4, <1>5, <1>6, <1>7, <1>8, <1>9, <1>10, <1>11, <1>12, <1>13,
     <1>14, <1>15, <1>16, <1>17
  DEF Next, RequestNext, LogNext, ChildNext

LEMMA InvIsEnough == TypeInv /\ ChildInv => ChildIsHeld
<1> SUFFICES ASSUME TypeInv, ChildInv PROVE ChildIsHeld
  OBVIOUS
<1>1. \A p \in Alive : p = process => process \notin known
  BY DEF ChildInv, EndedIsDead, Alive
<1>2. ASSUME NEW r \in Requests, req[r].at = "spawn"
      PROVE  process \notin Alive
  BY <1>1, <1>2, ZeroIsNone DEF ChildInv, StartIsAlone, Closed, Alive
<1>3. \A p, q \in Alive : p = q
  BY <1>2 DEF ChildInv, Owned, StartIsAlone
<1>4. \A p \in Alive :
         p = process \/ \E r \in Requests : req[r] = [at |-> "spawn", on |-> p]
  BY DEF ChildInv, Owned, TypeInv, TypeOK
<1>5. NothingBehindIdle
  BY <1>1, ZeroIsNone
  DEF NothingBehindIdle, ChildInv, Owned, StartIsAlone, IdleHasEnded, Alive
<1>. QED
  BY <1>3, <1>4, <1>5 DEF ChildIsHeld, KnowsItsChild

-----------------------------------------------------------------------------
(* Theorems *)

LEMMA TypeHolds == Spec => []TypeInv
<1>1. TypeInv /\ [Next]_vars => TypeInv'
  BY TypeStep
<1>. QED
  BY TypeInit, <1>1, PTL DEF Spec

\* Every reachable state is well typed: whatever _process and _log_task refer to has
\* been started, however stops, kills and readers overtake each other.
THEOREM TypeCorrect == Spec => []TypeOK
<1>1. TypeInv => TypeOK
  BY DEF TypeInv
<1>. QED
  BY TypeHolds, <1>1, PTL

\* As long as the pipes of a child end with it, a child that lives is the one the
\* manager refers to or is starting, and then its state is not idle or error.
THEOREM ChildHeld == ASSUME ~Grandchildren PROVE Spec => []ChildIsHeld
<1>1. TypeInv /\ ChildInv /\ [Next]_vars => ChildInv'
  BY ChildStep
<1>. QED
  BY TypeHolds, ChildInit, <1>1, InvIsEnough, PTL DEF Spec

-----------------------------------------------------------------------------
(***************************************************************************)
(* The recorder over a plan (RecordSession).                               *)
(*                                                                         *)
(* Conserved needs only that each method of the cursor keeps what it has   *)
(* (Keeping).  That the sidecar is true needs where the trial of an        *)
(* episode is while it is on its way: in the buffer it is the cursor's     *)
(* (FramesAreCurrent), between the save and the line the last of the data  *)
(* set is (SavedIsCurrent), and what has a successful line is out of the   *)
(* cursor's queue (DoneIsPassed).                                          *)
(***************************************************************************)

\* record() is inside an episode
InEpisode == main \in {"prep", "enter", "loop", "after", "reset", "decide", "save", "bind"}

\* A session has begun where record() is anywhere, there is room for the episode under way,
\* and only the keys of the scenario are left to the cursor.
RecordTypeInv ==
    /\ RecordTypeOK
    /\ session = 0 => main = "off"
    /\ InEpisode => n < limit
    /\ ctl.at = "scen" => ctl.cmd \in {"fail", "unfail", "defer"}

\* Conserved of a cursor
Whole(c) ==
    LET waiting == Range(c.queue)
        now == {c.cur} \ {None}
    IN  /\ IsInjective(c.queue)
        /\ waiting \cup now \cup c.done = Trials
        /\ waiting \cap now = {} /\ (waiting \cup now) \cap c.done = {}

\* What has a successful line the cursor takes for done.
DoneIsPassed == Done \subseteq cursor.done

\* The frames, then the episode, are of the trial that the cursor has.
FramesAreCurrent == buf.frames \/ main = "loop" => buf.of = cursor.cur
SavedIsCurrent == main = "bind" => data[Len(data)].of = cursor.cur

LinesAreTrue == \A l \in log : data[l.ep].of = l.trial
SucceedsOnce == \A k, l \in log : k.trial = l.trial /\ ~k.failed /\ ~l.failed => k = l
Accounted ==
    \A e \in DOMAIN data :
        \/ data[e].of = None \/ e \in unlogged
        \/ \E l \in log : l.ep = e
        \/ main = "bind" /\ e = Len(data)

SidecarInv ==
    /\ DoneIsPassed /\ FramesAreCurrent /\ SavedIsCurrent
    /\ LinesAreTrue /\ SucceedsOnce /\ Accounted

-----------------------------------------------------------------------------
(* Sequences of trials *)

\* r is s with t put somewhere: its elements are those of s and t, each once if t is new.
Extends(r, s, t) ==
    /\ r \in Seq(Trials) /\ Range(r) = Range(s) \cup {t}
    /\ IsInjective(s) /\ t \notin Range(s) => IsInjective(r)

\* An element put at any place, as list.insert does
LEMMA InsertExtends ==
    ASSUME NEW s \in Seq(Trials), NEW t \in Trials, NEW i \in 1 .. Len(s) + 1
    PROVE  Extends(InsertAt(s, i, t), s, t)
<1> DEFINE a == SubSeq(s, 1, i - 1)
           b == SubSeq(s, i, Len(s))
           r == a \o <<t>> \o b
<1>1. /\ a \in Seq(Trials) /\ Len(a) = i - 1
      /\ \A j \in 1 .. i - 1 : a[j] = s[j]
    BY SMT
<1>2. /\ b \in Seq(Trials) /\ Len(b) = Len(s) + 1 - i
      /\ \A j \in 1 .. Len(s) + 1 - i : b[j] = s[j + i - 1]
    BY SMT
<1> HIDE DEF a, b
<1>3. /\ r \in Seq(Trials) /\ Len(r) = Len(s) + 1
      /\ \A j \in 1 .. Len(s) + 1 :
            r[j] = IF j < i THEN s[j] ELSE IF j = i THEN t ELSE s[j - 1]
    <2> DEFINE c == a \o <<t>>
    <2>1. /\ c \in Seq(Trials) /\ Len(c) = i
          /\ \A j \in 1 .. i : c[j] = IF j < i THEN s[j] ELSE t
        BY <1>1, SMT
    <2> HIDE DEF c
    <2>2. /\ c \o b \in Seq(Trials) /\ Len(c \o b) = Len(s) + 1
          /\ \A j \in 1 .. Len(s) + 1 : (c \o b)[j] = IF j <= i THEN c[j] ELSE b[j - i]
        <3>1. b \in Seq(Trials) /\ c \in Seq(Trials) /\ Len(c) + Len(b) = Len(s) + 1
            BY <1>2, <2>1
        <3>2. /\ c \o b \in Seq(Trials) /\ Len(c \o b) = Len(c) + Len(b)
              /\ \A j \in 1 .. Len(c) + Len(b) :
                    (c \o b)[j] = IF j <= Len(c) THEN c[j] ELSE b[j - Len(c)]
            BY <3>1, ConcatProperties, Zenon
        <3> QED BY <2>1, <3>1, <3>2
    <2>3. \A j \in 1 .. Len(s) + 1 :
            (c \o b)[j] = IF j < i THEN s[j] ELSE IF j = i THEN t ELSE s[j - 1]
        BY <1>2, <2>1, <2>2, SMT
    <2> QED BY <2>2, <2>3 DEF c
<1> HIDE DEF r
<1>4. Range(r) = Range(s) \cup {t}
    <2>1. Range(s) \cup {t} \subseteq Range(r)
        <3>1. t \in Range(r)
            BY <1>3 DEF Range
        <3>2. ASSUME NEW j \in DOMAIN s PROVE s[j] \in Range(r)
            <4>1. CASE j < i BY <1>3, <4>1 DEF Range
            <4>2. CASE j >= i
                <5>1. j + 1 \in 1 .. Len(s) + 1 /\ r[j + 1] = s[j]
                    BY <1>3, <4>2
                <5> QED BY <1>3, <5>1 DEF Range
            <4> QED BY <4>1, <4>2
        <3> QED BY <3>1, <3>2 DEF Range
    <2>2. Range(r) \subseteq Range(s) \cup {t}
        BY <1>3 DEF Range
    <2> QED BY <2>1, <2>2
<1>5. ASSUME IsInjective(s), t \notin Range(s) PROVE IsInjective(r)
    <2>0. /\ Len(s) \in Nat /\ i \in 1 .. Len(s) + 1 /\ r[i] = t
          /\ \A m \in 1 .. Len(s) + 1 : m < i => r[m] = s[m] /\ m \in 1 .. Len(s)
          /\ \A m \in 1 .. Len(s) + 1 : m > i => r[m] = s[m - 1] /\ m - 1 \in 1 .. Len(s)
        BY <1>3
    <2>1. SUFFICES ASSUME NEW j \in 1 .. Len(s) + 1, NEW k \in 1 .. Len(s) + 1, r[j] = r[k], j < k
                   PROVE  FALSE
        BY <1>3 DEF IsInjective
    <2>2. \A m \in 1 .. Len(s) : s[m] # t
        BY <1>5 DEF Range
    <2>3. \A m, o \in 1 .. Len(s) : s[m] = s[o] => m = o
        BY <1>5 DEF IsInjective
    <2>4. CASE k < i
        <3>1. r[j] = s[j] /\ r[k] = s[k] /\ j \in 1 .. Len(s) /\ k \in 1 .. Len(s)
            BY <2>0, <2>1, <2>4
        <3>2. s[j] = s[k]
            BY <2>1, <3>1
        <3>3. j = k
            BY <2>3, <3>1, <3>2, Zenon
        <3> QED BY <2>1, <3>3
    <2>5. CASE k = i
        <3>1. r[j] = s[j] /\ r[k] = t /\ j \in 1 .. Len(s)
            BY <2>0, <2>1, <2>5
        <3> QED BY <2>1, <2>2, <3>1
    <2>6. CASE k > i
        <3>1. r[k] = s[k - 1] /\ k - 1 \in 1 .. Len(s)
            BY <2>0, <2>6
        <3>2. CASE j = i
            BY <2>0, <2>1, <2>2, <3>1, <3>2
        <3>3. CASE j < i
            <4>1. r[j] = s[j] /\ j \in 1 .. Len(s) /\ j # k - 1
                BY <2>0, <2>6, <3>3
            <4>2. s[j] = s[k - 1]
                BY <2>1, <3>1, <4>1
            <4> QED BY <2>3, <3>1, <4>1, <4>2, Zenon
        <3>4. CASE j > i
            <4>1. r[j] = s[j - 1] /\ j - 1 \in 1 .. Len(s) /\ j - 1 # k - 1
                BY <2>0, <2>1, <3>4
            <4>2. s[j - 1] = s[k - 1]
                BY <2>1, <3>1, <4>1
            <4> QED BY <2>3, <3>1, <4>1, <4>2, Zenon
        <3> QED BY <3>2, <3>3, <3>4
    <2> QED BY <2>4, <2>5, <2>6
<1> QED BY <1>3, <1>4, <1>5 DEF Extends, InsertAt, r, a, b

\* An element put in front, and one put behind
LEMMA EndsExtend ==
    ASSUME NEW s \in Seq(Trials), NEW t \in Trials
    PROVE  Extends(<<t>> \o s, s, t) /\ Extends(Append(s, t), s, t)
<1>1. <<t>> \o s = InsertAt(s, 1, t)
    BY DEF InsertAt
<1>2. Append(s, t) = InsertAt(s, Len(s) + 1, t)
    BY DEF InsertAt
<1>3. 1 \in 1 .. Len(s) + 1 /\ Len(s) + 1 \in 1 .. Len(s) + 1
    OBVIOUS
<1> QED BY <1>1, <1>2, <1>3, InsertExtends

\* What is left of a sequence of distinct trials does not have its first any more.
LEMMA TailLeaves ==
    ASSUME NEW s \in Seq(Trials), s # <<>>
    PROVE  /\ Tail(s) \in Seq(Trials) /\ Head(s) \in Trials
           /\ Range(s) = Range(Tail(s)) \cup {Head(s)}
           /\ IsInjective(s) => IsInjective(Tail(s)) /\ Head(s) \notin Range(Tail(s))
<1>1. /\ Tail(s) \in Seq(Trials) /\ Len(Tail(s)) = Len(s) - 1 /\ Len(s) > 0
      /\ \A j \in 1 .. Len(s) - 1 : Tail(s)[j] = s[j + 1]
    OBVIOUS
<1>2. Head(s) = s[1] /\ Head(s) \in Trials
    OBVIOUS
<1>3. Range(s) = Range(Tail(s)) \cup {Head(s)}
    <2>1. ASSUME NEW j \in 1 .. Len(s) PROVE s[j] \in Range(Tail(s)) \cup {Head(s)}
        <3>1. CASE j = 1 BY <1>2, <3>1
        <3>2. CASE j > 1
            <4>1. j - 1 \in 1 .. Len(s) - 1 /\ Tail(s)[j - 1] = s[j]
                BY <1>1, <3>2
            <4>2. j - 1 \in DOMAIN Tail(s)
                BY <1>1, <4>1
            <4>3. Tail(s)[j - 1] \in Range(Tail(s))
                BY ONLY <4>2 DEF Range
            <4> QED BY <4>1, <4>3
        <3> QED BY <3>1, <3>2
    <2>2. Range(Tail(s)) \cup {Head(s)} \subseteq Range(s)
        BY <1>1, <1>2 DEF Range
    <2> QED BY <2>1, <2>2 DEF Range
<1>4. ASSUME IsInjective(s) PROVE IsInjective(Tail(s)) /\ Head(s) \notin Range(Tail(s))
    BY <1>1, <1>2, <1>4 DEF IsInjective, Range
<1> QED BY <1>1, <1>2, <1>3, <1>4

-----------------------------------------------------------------------------
(* The cursor *)

Cursors == [queue : Seq(Trials), cur : Trials \cup {None}, failed : BOOLEAN, done : SUBSET Trials]

\* d is a cursor that has what c has, if c has each trial once.
Keeping(d, c) == d \in Cursors /\ (Whole(c) => Whole(d))

LEMMA NoneIsNoTrial == None \notin Trials
BY PlanAssumption DEF Trials

\* A cursor with nothing current, whose queue is extended by what was
LEMMA PutBack ==
    ASSUME NEW c \in Cursors, c.cur # None, NEW q, Extends(q, c.queue, c.cur)
    PROVE  Keeping([c EXCEPT !.cur = None, !.failed = FALSE, !.queue = q], c)
<1> DEFINE d == [c EXCEPT !.cur = None, !.failed = FALSE, !.queue = q]
<1>1. /\ d \in Cursors /\ d.queue = q /\ d.cur = None /\ d.done = c.done
      /\ c.cur \in Trials /\ c.queue \in Seq(Trials)
    BY DEF Cursors, Extends
<1> HIDE DEF d
<1>2. ASSUME Whole(c) PROVE Whole(d)
    <2>1. c.cur \notin Range(c.queue)
        BY <1>2 DEF Whole
    <2>2. IsInjective(q) /\ Range(q) = Range(c.queue) \cup {c.cur}
        BY <1>2, <2>1 DEF Whole, Extends
    <2> QED BY <1>1, <1>2, <2>1, <2>2 DEF Whole
<1> QED BY <1>1, <1>2 DEF Keeping, d

\* The first of the queue becomes current where nothing is.
LEMMA FirstIsTaken ==
    ASSUME NEW c \in Cursors, c.cur = None, c.queue # <<>>
    PROVE  Keeping([c EXCEPT !.cur = Head(c.queue), !.failed = FALSE, !.queue = Tail(c.queue)], c)
<1> DEFINE d == [c EXCEPT !.cur = Head(c.queue), !.failed = FALSE, !.queue = Tail(c.queue)]
<1>1. c.queue \in Seq(Trials)
    BY DEF Cursors
<1>2. /\ Tail(c.queue) \in Seq(Trials) /\ Head(c.queue) \in Trials
      /\ Range(c.queue) = Range(Tail(c.queue)) \cup {Head(c.queue)}
      /\ IsInjective(c.queue) => IsInjective(Tail(c.queue)) /\ Head(c.queue) \notin Range(Tail(c.queue))
    BY <1>1, TailLeaves
<1>3. /\ d \in Cursors /\ d.queue = Tail(c.queue) /\ d.cur = Head(c.queue) /\ d.done = c.done
    BY <1>2 DEF Cursors
<1> HIDE DEF d
<1>4. ASSUME Whole(c) PROVE Whole(d)
    BY <1>2, <1>3, <1>4, NoneIsNoTrial DEF Whole
<1> QED BY <1>3, <1>4 DEF Keeping, d

LEMMA BeganKeeps ==
    ASSUME NEW c \in Cursors
    PROVE  Keeping(Began(c), c) /\ Began(c).done = c.done
<1> DEFINE q == IF c.cur = None THEN c.queue ELSE <<c.cur>> \o c.queue
           d == [c EXCEPT !.cur = None, !.failed = FALSE, !.queue = q]
<1>1. c.queue \in Seq(Trials) /\ c.cur \in Trials \cup {None}
    BY DEF Cursors
<1>2. Keeping(d, c)
    <2>1. CASE c.cur = None
        BY <2>1 DEF Keeping, Whole, Cursors
    <2>2. CASE c.cur # None
        <3>1. Extends(q, c.queue, c.cur)
            BY <1>1, <2>2, EndsExtend
        <3> QED BY <2>2, <3>1, PutBack
    <2> QED BY <2>1, <2>2
<1>3. /\ d \in Cursors /\ d.queue = q /\ d.cur = None
    BY <1>2 DEF Keeping, Cursors
<1>4. CASE q = <<>>
    <2>1. Began(c) = d
        BY <1>4 DEF Began, Cursors
    <2> QED BY <1>2, <2>1
<1>5. CASE q # <<>>
    <2>1. Began(c) = [d EXCEPT !.cur = Head(d.queue), !.failed = FALSE, !.queue = Tail(d.queue)]
        BY <1>3, <1>5 DEF Began, Cursors
    <2>2. Keeping(Began(c), d)
        <3> HIDE DEF d, q
        <3> QED BY <1>3, <1>5, <2>1, FirstIsTaken
    <2>3. Began(c).done = c.done
        BY DEF Began, Cursors
    <2> QED BY <1>2, <2>2, <2>3 DEF Keeping
<1> QED BY <1>4, <1>5

LEMMA DroppedKeeps ==
    ASSUME NEW c \in Cursors
    PROVE  Keeping(Dropped(c), c) /\ Dropped(c).done = c.done
<1>1. c.queue \in Seq(Trials) /\ c.cur \in Trials \cup {None}
    BY DEF Cursors
<1>2. CASE c.cur = None
    BY <1>2 DEF Dropped, Keeping, Whole, Cursors
<1>3. CASE c.cur # None
    <2>1. Extends(<<c.cur>> \o c.queue, c.queue, c.cur)
        BY <1>1, <1>3, EndsExtend
    <2>2. Dropped(c) = [c EXCEPT !.cur = None, !.failed = FALSE, !.queue = <<c.cur>> \o c.queue]
        BY <1>3 DEF Dropped, Cursors
    <2>3. Dropped(c).done = c.done
        BY DEF Dropped, Cursors
    <2> QED BY <1>3, <2>1, <2>2, <2>3, PutBack
<1> QED BY <1>2, <1>3

\* The end of the block is a place in the queue, or what the caller says.
LEMMA BlockEndExtends ==
    ASSUME NEW s \in Seq(Trials), NEW t \in Trials, NEW else, Extends(else, s, t)
    PROVE  Extends(BlockEnd(s, t, else), s, t)
<1> DEFINE same == {i \in DOMAIN s : Block[s[i]] = Block[t]}
           last == {i \in same : \A j \in same : j <= i}
<1>1. last \subseteq 1 .. Len(s)
    OBVIOUS
<1>2. BlockEnd(s, t, else) = IF last = {} THEN else ELSE InsertAt(s, (CHOOSE i \in last : TRUE) + 1, t)
    BY DEF BlockEnd
<1> HIDE DEF last
<1>3. ASSUME last # {} PROVE Extends(InsertAt(s, (CHOOSE i \in last : TRUE) + 1, t), s, t)
    <2> DEFINE place == CHOOSE i \in last : TRUE
    <2>1. place \in last
        BY <1>3
    <2> HIDE DEF place
    <2>2. place + 1 \in 1 .. Len(s) + 1
        BY <1>1, <2>1
    <2>3. Extends(InsertAt(s, place + 1, t), s, t)
        BY <2>2, InsertExtends
    <2> QED BY <2>3 DEF place
<1> QED BY <1>2, <1>3

\* An episode that failed puts its trial back, one that did not passes it.
LEMMA SavedKeeps ==
    ASSUME NEW c \in Cursors
    PROVE  /\ Keeping(Saved(c), c)
           /\ Saved(c).done = IF c.cur = None \/ c.failed THEN c.done ELSE c.done \cup {c.cur}
<1>1. c.queue \in Seq(Trials) /\ c.cur \in Trials \cup {None}
    BY DEF Cursors
<1>2. CASE c.cur = None
    BY <1>2 DEF Saved, Keeping, Whole, Cursors
<1>3. CASE c.cur # None /\ c.failed
    <2> DEFINE q == BlockEnd(c.queue, c.cur, <<c.cur>> \o c.queue)
    <2>1. Extends(q, c.queue, c.cur)
        BY <1>1, <1>3, EndsExtend, BlockEndExtends
    <2>2. Saved(c) = [c EXCEPT !.cur = None, !.failed = FALSE, !.queue = q]
        BY <1>3 DEF Saved, Cursors
    <2>3. Saved(c).done = c.done
        BY <2>2 DEF Cursors
    <2> HIDE DEF q
    <2> QED BY <1>3, <2>1, <2>2, <2>3, PutBack
<1>4. CASE c.cur # None /\ ~c.failed
    <2>1. /\ Saved(c) \in Cursors /\ Saved(c).queue = c.queue /\ Saved(c).cur = None
          /\ Saved(c).done = c.done \cup {c.cur}
        BY <1>1, <1>4 DEF Saved, Cursors
    <2>2. Whole(c) => Whole(Saved(c))
        BY <1>1, <1>4, <2>1 DEF Whole
    <2> QED BY <1>4, <2>1, <2>2 DEF Keeping
<1> QED BY <1>2, <1>3, <1>4

LEMMA MarkedKeeps ==
    ASSUME NEW c \in Cursors, NEW flag \in BOOLEAN
    PROVE  Keeping(Marked(c, flag), c) /\ Marked(c, flag).done = c.done /\ Marked(c, flag).cur = c.cur
BY DEF Marked, Keeping, Whole, Cursors

LEMMA DeferredKeeps ==
    ASSUME NEW c \in Cursors
    PROVE  Keeping(Deferred(c), c) /\ Deferred(c).done = c.done /\ Deferred(c).cur = c.cur
<1> DEFINE t == Head(c.queue)
           s == Tail(c.queue)
           q == BlockEnd(s, t, Append(s, t))
<1>1. c.queue \in Seq(Trials) /\ c.cur \in Trials \cup {None}
    BY DEF Cursors
<1>2. CASE Len(c.queue) < 2
    BY <1>2 DEF Deferred, Keeping
<1>3. CASE ~ (Len(c.queue) < 2)
    <2>1. /\ s \in Seq(Trials) /\ t \in Trials /\ Range(c.queue) = Range(s) \cup {t}
          /\ IsInjective(c.queue) => IsInjective(s) /\ t \notin Range(s)
        BY <1>1, <1>3, TailLeaves
    <2>2. Deferred(c) = [c EXCEPT !.queue = q]
        BY <1>3 DEF Deferred, Cursors
    <2> HIDE DEF t, s
    <2>3. Extends(q, s, t)
        BY <2>1, EndsExtend, BlockEndExtends
    <2> HIDE DEF q
    <2>4. /\ Deferred(c) \in Cursors /\ Deferred(c).queue = q
          /\ Deferred(c).cur = c.cur /\ Deferred(c).done = c.done
        BY <2>2, <2>3 DEF Cursors, Extends
    <2>5. Range(q) = Range(c.queue) /\ (IsInjective(c.queue) => IsInjective(q))
        BY <2>1, <2>3 DEF Extends
    <2>6. Whole(c) => Whole(Deferred(c))
        BY <2>4, <2>5 DEF Whole
    <2> QED BY <2>4, <2>6 DEF Keeping
<1> QED BY <1>2, <1>3

-----------------------------------------------------------------------------
(* Types *)

Control == [cmd : Commands \cup {None}, seen : Trials \cup {None}, at : {"idle", "exit", "scen"}]
Keystrokes(s) == [cmd : Commands, of : 0 .. s, seen : Trials \cup {None}]

USE DEF Cursors

LEMMA PlanIsFinite == IsFiniteSet(Trials) /\ Cardinality(Trials) \in Nat
<1>1. Plan \in Seq(Trials) /\ Trials = Range(Plan)
    BY PlanAssumption DEF Trials
<1>2. Plan \in [1 .. Len(Plan) -> Trials] /\ Len(Plan) \in Nat
    BY <1>1
<1>3. \A t \in Trials : \E i \in 1 .. Len(Plan) : Plan[i] = t
    BY <1>1, <1>2 DEF Range
<1>4. Plan \in Surjection(1 .. Len(Plan), Trials)
    BY <1>2, <1>3 DEF Surjection
<1>5. IsFiniteSet(1 .. Len(Plan))
    BY <1>2, FS_Interval
<1>6. IsFiniteSet(Trials)
    BY <1>4, <1>5, FS_Surjection
<1> QED BY <1>6, FS_CardinalityType

\* There is room for what is not done, and it fits a queue.
LEMMA RoomForRest ==
    ASSUME NEW S \in SUBSET Trials
    PROVE  /\ 2 * Cardinality(S) \in 0 .. 2 * Cardinality(Trials)
           /\ [1 .. Cardinality(S) -> S] \subseteq Seq(Trials)
<1>1. IsFiniteSet(S) /\ Cardinality(S) <= Cardinality(Trials)
    BY PlanIsFinite, FS_Subset
<1>2. Cardinality(S) \in Nat
    BY <1>1, FS_CardinalityType
<1>3. ASSUME NEW q \in [1 .. Cardinality(S) -> S] PROVE q \in Seq(Trials)
    BY <1>2
<1> QED BY <1>1, <1>2, <1>3, PlanIsFinite

LEMMA RecordTypesInitially == RecordInit => RecordTypeInv
<1> SUFFICES ASSUME RecordInit PROVE RecordTypeInv
    OBVIOUS
<1>1. n \in 0 .. limit /\ limit \in 0 .. 2 * Cardinality(Trials)
    BY PlanIsFinite DEF RecordInit
<1>2. /\ ev \in Events /\ buf \in [of : Trials \cup {None}, frames : BOOLEAN]
      /\ ctl \in [cmd : Commands \cup {None}, seen : Trials \cup {None}, at : {"idle", "exit", "scen"}]
    BY DEF RecordInit, Events, NoEvents, NoBuffer, Idle
<1>3. cursor \in Cursors
    BY DEF RecordInit
<1>4. /\ keys \in Seq([cmd : Commands, of : 0 .. session, seen : Trials \cup {None}])
      /\ data \in Seq([of : Trials \cup {None}, kept : BOOLEAN])
    BY DEF RecordInit
<1>5. session \in 0 .. MaxSessions /\ presses \in 0 .. MaxPresses /\ restarts \in 0 .. MaxRestarts
    BY SessionBounds DEF RecordInit
<1>6. ~buf.frames /\ ctl.at = "idle"
    BY DEF RecordInit, NoBuffer, Idle
<1>7. log \subseteq [trial : Trials, ep : DOMAIN data, failed : BOOLEAN] /\ unlogged \subseteq DOMAIN data
    BY DEF RecordInit
<1>8. main = "off" /\ bridge \in BOOLEAN /\ mapping \in BOOLEAN /\ stopping \in BOOLEAN /\ wait \in BOOLEAN
    BY DEF RecordInit
<1>9. RecordTypeOK
    BY <1>1, <1>2, <1>3, <1>4, <1>5, <1>6, <1>7, <1>8 DEF RecordTypeOK
<1> QED
    BY <1>6, <1>9 DEF RecordInit, RecordTypeInv, InEpisode

\* The steps of record() that leave cursor, buffer and data set alone
Walks ==
    \/ Top \/ PrepEnds \/ PrepTimesOut \/ LoopEnds \/ After \/ ResetEnds \/ Keeps

LEMMA WalksEvents ==
    ASSUME ev \in Events, wait \in BOOLEAN, Walks
    PROVE  ev' \in Events /\ wait' \in BOOLEAN
<1>1. CASE Top
    BY <1>1 DEF Top, Events
<1>2. CASE PrepEnds
    BY <1>2 DEF PrepEnds, Events
<1>3. CASE PrepTimesOut
    BY <1>3 DEF PrepTimesOut, Events
<1>4. CASE LoopEnds
    BY <1>4 DEF LoopEnds, Events
<1>5. CASE After
    BY <1>5 DEF After, Events
<1>6. CASE ResetEnds
    BY <1>6 DEF ResetEnds, Events
<1>7. CASE Keeps
    BY <1>7 DEF Keeps, Events
<1> QED BY <1>1, <1>2, <1>3, <1>4, <1>5, <1>6, <1>7 DEF Walks

LEMMA WalksEffect ==
    ASSUME RecordTypeInv, Walks
    PROVE  /\ UNCHANGED <<cursor, buf, n, limit, ctl, keys, store, gateway>>
           /\ main \in {"top", "prep", "loop", "after", "reset", "decide"}
           /\ main' \in {"push", "prep", "enter", "after", "reset", "decide", "save"}
           /\ InEpisode' => n < limit
           /\ buf.frames => main' \in {"after", "reset", "decide", "save"}
<1>0. /\ n \in 0 .. limit /\ limit \in Nat
      /\ InEpisode => n < limit
      /\ buf.frames => main \in {"loop", "after", "reset", "decide", "save", "dead"}
    BY PlanIsFinite DEF RecordTypeInv, RecordTypeOK
<1>1. CASE Top
    BY <1>0, <1>1 DEF Top, Step, InEpisode
<1>2. CASE PrepEnds
    BY <1>0, <1>2 DEF PrepEnds, Step, InEpisode
<1>3. CASE PrepTimesOut
    BY <1>0, <1>3 DEF PrepTimesOut, Step, InEpisode
<1>4. CASE LoopEnds
    BY <1>0, <1>4 DEF LoopEnds, Step, InEpisode
<1>5. CASE After
    BY <1>0, <1>5 DEF After, Step, InEpisode
<1>6. CASE ResetEnds
    BY <1>0, <1>6 DEF ResetEnds, Step, InEpisode
<1>7. CASE Keeps
    BY <1>0, <1>7 DEF Keeps, Step, InEpisode
<1> QED BY <1>1, <1>2, <1>3, <1>4, <1>5, <1>6, <1>7 DEF Walks

LEMMA WalksTypes ==
    ASSUME RecordTypeInv, Walks
    PROVE  RecordTypeInv'
<1>1. ev' \in Events /\ wait' \in BOOLEAN
    BY WalksEvents DEF RecordTypeInv, RecordTypeOK
<1> QED BY <1>1, WalksEffect DEF RecordTypeInv, RecordTypeOK, store, gateway

\* The steps of record() that touch cursor, buffer or data set

LEMMA EnterTypes ==
    ASSUME RecordTypeInv, Enter
    PROVE  RecordTypeInv'
<1>1. cursor' \in Cursors
    BY BeganKeeps DEF RecordTypeInv, RecordTypeOK, Enter, Keeping
<1>2. buf' \in [of : Trials \cup {None}, frames : BOOLEAN] /\ ~buf'.frames
    BY <1>1 DEF Enter
<1>3. main = "enter" /\ main' = "loop"
    BY DEF Enter, Step
<1> QED
    BY <1>1, <1>2, <1>3 DEF Enter, RecordTypeInv, RecordTypeOK, InEpisode, store, gateway

LEMMA AddFrameTypes ==
    ASSUME RecordTypeInv, AddFrame
    PROVE  RecordTypeInv'
<1>1. buf' \in [of : Trials \cup {None}, frames : BOOLEAN]
    BY DEF RecordTypeInv, RecordTypeOK, AddFrame
<1> QED
    BY <1>1 DEF AddFrame, RecordTypeInv, RecordTypeOK, InEpisode, store, gateway

LEMMA DiscardsTypes ==
    ASSUME RecordTypeInv, Discards
    PROVE  RecordTypeInv'
<1>1. cursor' \in Cursors
    BY DroppedKeeps DEF RecordTypeInv, RecordTypeOK, Discards, Keeping
<1>2. buf' \in [of : Trials \cup {None}, frames : BOOLEAN] /\ ~buf'.frames
    BY DEF Discards, NoBuffer
<1>3. ev' \in Events
    BY DEF RecordTypeInv, RecordTypeOK, Discards, Events
<1>4. main = "decide" /\ main' = "top"
    BY DEF Discards, Step
<1> QED
    BY <1>1, <1>2, <1>3, <1>4 DEF Discards, RecordTypeInv, RecordTypeOK, InEpisode, store, gateway

LEMMA SavesNothingTypes ==
    ASSUME RecordTypeInv, SavesNothing
    PROVE  RecordTypeInv'
<1>1. main = "save" /\ main' = "top"
    BY DEF SavesNothing, Step
<1>2. buf' \in [of : Trials \cup {None}, frames : BOOLEAN] /\ ~buf'.frames
    BY DEF SavesNothing, NoBuffer
<1>3. n' \in 0 .. limit' /\ limit' \in 0 .. 2 * Cardinality(Trials)
    BY <1>1, PlanIsFinite DEF SavesNothing, RecordTypeInv, RecordTypeOK, InEpisode
<1> QED
    BY <1>1, <1>2, <1>3 DEF SavesNothing, RecordTypeInv, RecordTypeOK, InEpisode, store, gateway

LEMMA SaveTypes ==
    ASSUME RecordTypeInv, Save
    PROVE  /\ RecordTypeInv'
           /\ data' = Append(data, [of |-> buf.of, kept |-> TRUE])
           /\ Len(data') = Len(data) + 1 /\ DOMAIN data = 1 .. Len(data) /\ Len(data) \in Nat
           /\ DOMAIN data' = 1 .. Len(data) + 1
           /\ \A e \in DOMAIN data : data'[e] = data[e]
           /\ data'[Len(data) + 1].of = buf.of
<1>1. main = "save" /\ main' = "bind"
    BY DEF Save, Step
<1>2. buf' \in [of : Trials \cup {None}, frames : BOOLEAN] /\ ~buf'.frames /\ buf' = NoBuffer
    BY DEF Save, NoBuffer
<1>3. /\ data \in Seq([of : Trials \cup {None}, kept : BOOLEAN])
      /\ [of |-> buf.of, kept |-> TRUE] \in [of : Trials \cup {None}, kept : BOOLEAN]
    BY DEF RecordTypeInv, RecordTypeOK
<1>4. /\ data' = Append(data, [of |-> buf.of, kept |-> TRUE])
      /\ data' \in Seq([of : Trials \cup {None}, kept : BOOLEAN]) /\ data' # <<>>
      /\ Len(data') = Len(data) + 1 /\ Len(data) \in Nat
      /\ DOMAIN data = 1 .. Len(data) /\ DOMAIN data' = 1 .. Len(data) + 1
      /\ \A e \in DOMAIN data : data'[e] = data[e]
      /\ data'[Len(data) + 1] = [of |-> buf.of, kept |-> TRUE]
    BY <1>3 DEF Save
<1>5. DOMAIN data \subseteq DOMAIN data'
    BY <1>4
<1>6. log' \subseteq [trial : Trials, ep : DOMAIN data', failed : BOOLEAN] /\ unlogged' \subseteq DOMAIN data'
    BY <1>5 DEF Save, RecordTypeInv, RecordTypeOK
<1>7. RecordTypeInv'
    BY <1>1, <1>2, <1>4, <1>6 DEF Save, RecordTypeInv, RecordTypeOK, InEpisode, gateway
<1> QED BY <1>4, <1>7

LEMMA BindTypes ==
    ASSUME RecordTypeInv, Bind
    PROVE  RecordTypeInv'
<1>1. main = "bind" /\ main' = "top"
    BY DEF Bind, Step
<1>2. cursor' \in Cursors
    BY SavedKeeps DEF RecordTypeInv, RecordTypeOK, Bind, Keeping
<1>3. ev' \in Events
    <2>1. Finished(cursor') \in BOOLEAN
        BY DEF Finished
    <2> QED BY <2>1 DEF RecordTypeInv, RecordTypeOK, Bind, Events
<1>4. n' \in 0 .. limit' /\ limit' \in 0 .. 2 * Cardinality(Trials)
    BY <1>1, PlanIsFinite DEF Bind, RecordTypeInv, RecordTypeOK, InEpisode
<1>5. Len(data) \in DOMAIN data
    BY <1>1 DEF RecordTypeInv, RecordTypeOK
<1>6. log' \subseteq [trial : Trials, ep : DOMAIN data, failed : BOOLEAN]
    <2>1. ASSUME cursor.cur # None
          PROVE  [trial |-> cursor.cur, ep |-> Len(data), failed |-> cursor.failed] \in
                     [trial : Trials, ep : DOMAIN data, failed : BOOLEAN]
        BY <1>5, <2>1 DEF RecordTypeInv, RecordTypeOK
    <2> QED BY <2>1 DEF Bind, RecordTypeInv, RecordTypeOK
<1>7. unlogged' \subseteq DOMAIN data
    BY <1>5 DEF Bind, RecordTypeInv, RecordTypeOK
<1>8. ~buf.frames
    BY <1>1 DEF RecordTypeInv, RecordTypeOK, NoBuffer
<1> QED
    BY <1>1, <1>2, <1>3, <1>4, <1>6, <1>7, <1>8 DEF Bind, RecordTypeInv, RecordTypeOK, InEpisode, gateway

LEMMA PushTypes ==
    ASSUME RecordTypeInv, Push
    PROVE  RecordTypeInv'
<1>1. ctl' \in Control /\ ctl'.at = "idle"
    BY DEF Push, Idle, Control
<1>2. main = "push" /\ main' = "done" /\ ~buf.frames
    BY DEF Push, Step, RecordTypeInv, RecordTypeOK
<1> QED
    BY <1>1, <1>2 DEF Push, RecordTypeInv, RecordTypeOK, InEpisode, store, gateway, Control

\* A death leaves the episodes that there were, with their trials.
LEMMA DeathLeaves ==
    ASSUME RecordTypeInv, RecorderDies
    PROVE  /\ data' \in Seq([of : Trials \cup {None}, kept : BOOLEAN])
           /\ DOMAIN data' = DOMAIN data /\ Len(data') = Len(data)
           /\ \A e \in DOMAIN data : data'[e].of = data[e].of
           /\ unlogged \subseteq unlogged' /\ unlogged' \subseteq DOMAIN data
           /\ main = "bind" => Len(data) \in unlogged'
           /\ main' = "dead" /\ ctl' = Idle
<1>1. data \in Seq([of : Trials \cup {None}, kept : BOOLEAN])
    BY DEF RecordTypeInv, RecordTypeOK
<1>2. /\ data' \in Seq([of : Trials \cup {None}, kept : BOOLEAN])
      /\ DOMAIN data' = DOMAIN data /\ Len(data') = Len(data)
      /\ \A e \in DOMAIN data : data'[e].of = data[e].of
    <2>1. CASE data' = data
        BY <1>1, <2>1
    <2>2. CASE Cut
        <3>1. PICK k \in (IF Loses THEN 0 ELSE Len(data)) .. Len(data) :
                data' = [i \in DOMAIN data |-> IF i > k THEN [data[i] EXCEPT !.kept = FALSE] ELSE data[i]]
            BY <2>2 DEF Cut
        <3> DEFINE E == [of : Trials \cup {None}, kept : BOOLEAN]
        <3>2. /\ DOMAIN data = 1 .. Len(data) /\ Len(data) \in Nat
              /\ \A i \in DOMAIN data : data[i] \in E
            <4>1. data \in Seq(E)
                BY <1>1
            <4> HIDE DEF E
            <4> QED BY <4>1
        <3>3. \A i \in DOMAIN data :
                /\ data'[i] \in [of : Trials \cup {None}, kept : BOOLEAN]
                /\ data'[i].of = data[i].of
            BY <3>1, <3>2
        <3>4. data' \in [1 .. Len(data) -> E] /\ DOMAIN data' = DOMAIN data
            BY <3>1, <3>2, <3>3
        <3>5. data' \in Seq(E) /\ Len(data') = Len(data)
            <4> HIDE DEF E
            <4> QED BY <3>2, <3>4
        <3> QED BY <3>3, <3>4, <3>5
    <2> QED BY <2>1, <2>2 DEF RecorderDies
<1>3. main = "bind" => Len(data) \in DOMAIN data
    BY <1>1 DEF RecordTypeInv, RecordTypeOK
<1> QED BY <1>2, <1>3 DEF RecorderDies, RecordTypeInv, RecordTypeOK

LEMMA DeathTypes ==
    ASSUME RecordTypeInv, Killed \/ GraceRunsOut
    PROVE  RecordTypeInv'
<1>1. /\ Running /\ RecorderDies
      /\ UNCHANGED <<ev, cursor, buf, n, limit, wait, log, mapping, session, presses, restarts>>
      /\ keys' = keys \/ keys' = <<>>
      /\ bridge' \in BOOLEAN /\ stopping' \in BOOLEAN
    BY DEF Killed, GraceRunsOut, BridgeStops, gateway, RecordTypeInv, RecordTypeOK
<1>2. /\ data' \in Seq([of : Trials \cup {None}, kept : BOOLEAN])
      /\ DOMAIN data' = DOMAIN data /\ Len(data') = Len(data)
      /\ unlogged' \subseteq DOMAIN data
      /\ main' = "dead" /\ ctl' = Idle
    BY <1>1, DeathLeaves
<1>3. ctl' \in Control /\ ctl'.at = "idle"
    BY <1>2 DEF Idle, Control
<1>4. keys' \in Seq([cmd : Commands, of : 0 .. session', seen : Trials \cup {None}])
    <2> DEFINE K == [cmd : Commands, of : 0 .. session, seen : Trials \cup {None}]
    <2>1. keys \in Seq(K) /\ session' = session
        BY <1>1 DEF RecordTypeInv, RecordTypeOK
    <2>2. <<>> \in Seq(K)
        OBVIOUS
    <2>3. keys' \in Seq(K)
        <3> HIDE DEF K
        <3> QED BY <1>1, <2>1, <2>2, Zenon
    <2> QED BY <2>1, <2>3
<1>5. session # 0
    BY <1>1 DEF Running, RecordTypeInv
<1> QED
    BY <1>1, <1>2, <1>3, <1>4, <1>5 DEF RecordTypeInv, RecordTypeOK, InEpisode, Control

\* The control thread and the gateway

LEMMA TakeTypes ==
    ASSUME RecordTypeInv, Take
    PROVE  RecordTypeInv'
<1>1. keys \in Seq(Keystrokes(session)) /\ keys # <<>>
    BY DEF RecordTypeInv, RecordTypeOK, Take, Keystrokes
<1>2. keys' \in Seq(Keystrokes(session)) /\ Head(keys) \in Keystrokes(session)
    BY <1>1 DEF Take
<1>3. Head(keys).cmd \in Commands /\ Head(keys).seen \in Trials \cup {None}
    BY <1>2 DEF Keystrokes
<1>4. /\ ctl' \in Control
      /\ ctl'.at = "scen" => ctl'.cmd \in {"fail", "unfail", "defer"}
    BY <1>3 DEF Take, Control, Commands
<1>5. ev' \in Events
    <2>1. /\ (ev.rerec \/ Head(keys).cmd = "left") \in BOOLEAN
          /\ (ev.stop \/ Head(keys).cmd = "escape") \in BOOLEAN
        OBVIOUS
    <2> HIDE DEF Events
    <2>2. ev \in Events /\ ev' = [ev EXCEPT !.rerec = @ \/ Head(keys).cmd = "left",
                                            !.stop = @ \/ Head(keys).cmd = "escape"]
        BY DEF RecordTypeInv, RecordTypeOK, Take
    <2> QED BY <2>1, <2>2 DEF Events
<1> QED
    BY <1>2, <1>4, <1>5
    DEF Take, RecordTypeInv, RecordTypeOK, InEpisode, store, gateway, Control, Keystrokes

LEMMA SetExitTypes ==
    ASSUME RecordTypeInv, SetExit
    PROVE  RecordTypeInv'
<1>1. ctl' \in Control /\ ctl'.at = "idle"
    BY DEF SetExit, Idle, Control
<1>2. ev' \in Events
    BY DEF SetExit, RecordTypeInv, RecordTypeOK, Events
<1> QED
    BY <1>1, <1>2 DEF SetExit, RecordTypeInv, RecordTypeOK, InEpisode, store, gateway, Control

\* A key of the scenario leaves the trial at hand and what is done as they are.
LEMMA CommandKeeps ==
    ASSUME RecordTypeInv, Command
    PROVE  Keeping(cursor', cursor) /\ cursor'.cur = cursor.cur /\ cursor'.done = cursor.done
<1>1. cursor \in Cursors /\ ctl.cmd \in {"fail", "unfail", "defer"}
    BY DEF RecordTypeInv, RecordTypeOK, Command
<1>2. CASE ctl.cmd = "fail"
    BY <1>1, <1>2, MarkedKeeps DEF Command
<1>3. CASE ctl.cmd = "unfail"
    BY <1>1, <1>3, MarkedKeeps DEF Command
<1>4. CASE ctl.cmd = "defer"
    BY <1>1, <1>4, DeferredKeeps DEF Command
<1> QED BY <1>1, <1>2, <1>3, <1>4

LEMMA CommandTypes ==
    ASSUME RecordTypeInv, Command
    PROVE  RecordTypeInv'
<1>1. ctl' \in Control /\ ctl'.at = "idle"
    BY DEF Command, Idle, Control
<1>2. cursor' \in Cursors
    BY CommandKeeps DEF Keeping
<1>3. UNCHANGED <<main, ev, buf, n, limit, wait, keys, store, gateway>>
    BY DEF Command
<1> QED
    BY <1>1, <1>2, <1>3 DEF RecordTypeInv, RecordTypeOK, InEpisode, store, gateway, Control

\* What is sent is of this session, if it is sent.
LEMMA SendsKeys ==
    ASSUME RecordTypeInv, NEW cmd \in Commands, Send(cmd)
    PROVE  /\ keys' \in Seq(Keystrokes(session))
           /\ (\A i \in DOMAIN keys : keys[i].of = session) => \A i \in DOMAIN keys' : keys'[i].of = session
<1> DEFINE k == [cmd |-> cmd, of |-> session, seen |-> IF cmd = "fail" THEN cursor.cur ELSE None]
           K == Keystrokes(session)
<1>1. k \in K /\ k.of = session /\ keys \in Seq(K)
    BY DEF RecordTypeInv, RecordTypeOK, Keystrokes
<1>2. keys' = keys \/ keys' = Append(keys, k)
    BY DEF Send
<1> HIDE DEF k, K
<1>3. CASE keys' = keys
    BY <1>1, <1>3 DEF K
<1>4. CASE keys' = Append(keys, k)
    <2>1. /\ Append(keys, k) \in Seq(K) /\ DOMAIN keys = 1 .. Len(keys) /\ Len(keys) \in Nat
          /\ DOMAIN Append(keys, k) = 1 .. Len(keys) + 1
          /\ \A i \in 1 .. Len(keys) : Append(keys, k)[i] = keys[i]
          /\ Append(keys, k)[Len(keys) + 1] = k
        BY <1>1
    <2> QED BY <1>1, <1>4, <2>1 DEF K
<1> QED BY <1>2, <1>3, <1>4

LEMMA PressTypes ==
    ASSUME RecordTypeInv, NEW cmd \in Commands, Press(cmd)
    PROVE  RecordTypeInv'
<1>1. keys' \in Seq(Keystrokes(session))
    BY SendsKeys DEF Press
<1>2. presses' \in 0 .. MaxPresses
    BY SessionBounds DEF Press, RecordTypeInv, RecordTypeOK
<1> QED
    BY <1>1, <1>2 DEF Press, RecordTypeInv, RecordTypeOK, InEpisode, store, Keystrokes

LEMMA StopTypes ==
    ASSUME RecordTypeInv, stop
    PROVE  RecordTypeInv'
<1>1. keys' \in Seq(Keystrokes(session))
    BY SendsKeys DEF stop, Commands
<1>2. presses' \in 0 .. MaxPresses
    BY SessionBounds DEF stop, RecordTypeInv, RecordTypeOK
<1> QED
    BY <1>1, <1>2 DEF stop, RecordTypeInv, RecordTypeOK, InEpisode, store, Keystrokes

LEMMA StopReturnsTypes ==
    ASSUME RecordTypeInv, StopReturns
    PROVE  RecordTypeInv'
<1>1. keys' \in Seq(Keystrokes(session))
    BY DEF StopReturns, BridgeStops
<1>2. /\ bridge' \in BOOLEAN /\ stopping' \in BOOLEAN
      /\ UNCHANGED <<main, ev, cursor, buf, n, limit, wait, ctl, store, mapping, session, presses, restarts>>
    BY DEF StopReturns, BridgeStops
<1> QED
    BY <1>1, <1>2 DEF RecordTypeInv, RecordTypeOK, InEpisode, store, Keystrokes

LEMMA GatewayRestartsTypes ==
    ASSUME RecordTypeInv, GatewayRestarts
    PROVE  RecordTypeInv'
<1>1. restarts' \in 0 .. MaxRestarts
    BY SessionBounds DEF GatewayRestarts, RecordTypeInv, RecordTypeOK
<1>2. /\ bridge' \in BOOLEAN /\ mapping' \in BOOLEAN /\ stopping' \in BOOLEAN
      /\ UNCHANGED <<main, ev, cursor, buf, n, limit, wait, ctl, keys, store, session, presses>>
    BY DEF GatewayRestarts
<1> QED
    BY <1>1, <1>2 DEF RecordTypeInv, RecordTypeOK, InEpisode, store

\* A session begins with a whole cursor over what is not done.
LEMMA StartsWhole ==
    ASSUME RecordTypeInv, start
    PROVE  cursor' \in Cursors /\ Whole(cursor') /\ cursor'.done = Done /\ Done \subseteq Trials
<1>1. Done \subseteq Trials
    BY DEF Done, RecordTypeInv, RecordTypeOK
<1>2. PICK q \in [1 .. Cardinality(Trials \ Done) -> Trials \ Done] :
        Remaining(q) /\ cursor' = [queue |-> q, cur |-> None, failed |-> FALSE, done |-> Done]
    BY DEF start, PlannedAnew
<1>3. q \in Seq(Trials)
    BY RoomForRest
<1>4. IsInjective(q) /\ Range(q) = Trials \ Done
    BY <1>2 DEF Remaining
<1>5. cursor' \in Cursors /\ cursor'.queue = q /\ cursor'.cur = None /\ cursor'.done = Done
    BY <1>1, <1>2, <1>3
<1>6. Whole(cursor')
    BY <1>1, <1>4, <1>5 DEF Whole
<1> QED BY <1>1, <1>5, <1>6

LEMMA StartTypes ==
    ASSUME RecordTypeInv, start
    PROVE  RecordTypeInv'
<1>1. cursor' \in Cursors
    BY StartsWhole
<1>2. limit' \in 0 .. 2 * Cardinality(Trials) /\ n' \in 0 .. limit'
    <2>1. limit' \in 0 .. 2 * Cardinality(Trials) /\ n' = 0
        BY RoomForRest DEF start
    <2> QED BY <2>1, PlanIsFinite
<1>3. ev' \in Events /\ buf' \in [of : Trials \cup {None}, frames : BOOLEAN] /\ ~buf'.frames
    BY DEF start, NoEvents, NoBuffer, Events
<1>4. session' \in 0 .. MaxSessions /\ session' # 0
    BY SessionBounds DEF start, RecordTypeInv, RecordTypeOK
<1>5. keys' \in Seq(Keystrokes(session'))
    BY DEF start
<1> QED
    BY <1>1, <1>2, <1>3, <1>4, <1>5
    DEF start, RecordTypeInv, RecordTypeOK, InEpisode, store, Keystrokes

LEMMA RecordStutter ==
    ASSUME RecordTypeInv, UNCHANGED recordvars
    PROVE  RecordTypeInv'
BY DEF recordvars, RecordTypeInv, RecordTypeOK, InEpisode

LEMMA RecordTypesKept ==
    ASSUME RecordTypeInv, [RecordNext]_recordvars
    PROVE  RecordTypeInv'
<1>1. CASE RecordNext
    BY <1>1, WalksTypes, EnterTypes, AddFrameTypes, DiscardsTypes, SavesNothingTypes, SaveTypes,
       BindTypes, PushTypes, DeathTypes, TakeTypes, SetExitTypes, CommandTypes, PressTypes,
       StopTypes, StopReturnsTypes, GatewayRestartsTypes, StartTypes
    DEF RecordNext, MainStep, ControlStep, Walks
<1> QED BY <1>1, RecordStutter

\* The types, and that there is an episode to save and room to count it, in every state of
\* the recorder, for any plan.
THEOREM RecordTypeCorrect == RecordSpec => []RecordTypeOK
<1>1. RecordTypeInv => RecordTypeOK
    BY DEF RecordTypeInv
<1> QED BY <1>1, RecordTypesInitially, RecordTypesKept, PTL DEF RecordSpec

-----------------------------------------------------------------------------
(* No trial is lost *)

LEMMA ConservedIsWhole == Conserved <=> (session > 0 => Whole(cursor))
BY DEF Conserved, Whole

\* Every step that changes the cursor keeps what it has, or is a start.
LEMMA CursorSteps ==
    ASSUME RecordTypeInv, RecordNext
    PROVE  \/ cursor' = cursor /\ session' = session
           \/ Keeping(cursor', cursor) /\ session' = session
           \/ start
<1>0. cursor \in Cursors
    BY DEF RecordTypeInv, RecordTypeOK
<1>1. CASE Walks
    BY <1>1, WalksEffect DEF gateway
<1>2. CASE Enter
    BY <1>0, <1>2, BeganKeeps DEF Enter, gateway
<1>3. CASE Discards
    BY <1>0, <1>3, DroppedKeeps DEF Discards, gateway
<1>4. CASE Bind
    BY <1>0, <1>4, SavedKeeps DEF Bind, gateway
<1>5. CASE Command
    BY <1>5, CommandKeeps DEF Command, gateway
<1>6. CASE AddFrame \/ SavesNothing \/ Save \/ Push \/ Killed
    BY <1>6 DEF AddFrame, SavesNothing, Save, Push, Killed, gateway
<1>7. CASE Take \/ SetExit
    BY <1>7 DEF Take, SetExit, gateway
<1>8. CASE stop \/ StopReturns \/ GraceRunsOut \/ GatewayRestarts \/ \E cmd \in Commands : Press(cmd)
    BY <1>8 DEF stop, StopReturns, GraceRunsOut, GatewayRestarts, Press
<1> QED
    BY <1>1, <1>2, <1>3, <1>4, <1>5, <1>6, <1>7, <1>8
    DEF RecordNext, MainStep, ControlStep, Walks

LEMMA ConservedKept ==
    ASSUME RecordTypeInv, Conserved, [RecordNext]_recordvars
    PROVE  Conserved'
<1> SUFFICES (session > 0 => Whole(cursor))'
    BY DEF Conserved, Whole
<1>1. session > 0 => Whole(cursor)
    BY ConservedIsWhole
<1>2. CASE start
    BY <1>2, StartsWhole
<1>3. CASE cursor' = cursor /\ session' = session
    BY <1>1, <1>3
<1>4. CASE Keeping(cursor', cursor) /\ session' = session
    BY <1>1, <1>4 DEF Keeping
<1> QED BY <1>2, <1>3, <1>4, CursorSteps DEF recordvars

\* Whatever re-recordings, failures, deferrals, kills and resumptions there are, and for
\* any plan: each trial is waiting, being recorded or done, and only one of these, once.
THEOREM NoTrialIsLost == RecordSpec => []Conserved
<1>1. RecordInit => Conserved
    BY DEF RecordInit, Conserved
<1> QED
    BY <1>1, RecordTypesInitially, RecordTypesKept, ConservedKept, PTL DEF RecordSpec

-----------------------------------------------------------------------------
(* Keys *)

LEMMA KeysKept ==
    ASSUME RecordTypeInv, KeysOfThisSession, [RecordNext]_recordvars
    PROVE  KeysOfThisSession'
<1> SUFFICES ASSUME Running' PROVE \A i \in DOMAIN keys' : keys'[i].of = session'
    BY DEF KeysOfThisSession
<1>1. CASE keys' = <<>>
    BY <1>1
<1>2. CASE keys' = keys /\ session' = session /\ Running
    BY <1>2 DEF KeysOfThisSession
<1>3. CASE Take
    <2>1. keys \in Seq(Keystrokes(session)) /\ keys # <<>>
        BY <1>3 DEF RecordTypeInv, RecordTypeOK, Take, Keystrokes
    <2>2. /\ DOMAIN Tail(keys) = 1 .. Len(keys) - 1 /\ DOMAIN keys = 1 .. Len(keys) /\ Len(keys) \in Nat
          /\ \A i \in 1 .. Len(keys) - 1 : Tail(keys)[i] = keys[i + 1]
        BY <2>1
    <2>3. \A i \in DOMAIN keys : keys[i].of = session
        BY <1>3 DEF Take, KeysOfThisSession
    <2> QED BY <1>3, <2>2, <2>3 DEF Take, gateway
<1>4. ASSUME NEW cmd \in Commands, Send(cmd), main' = main, session' = session
      PROVE  \A i \in DOMAIN keys' : keys'[i].of = session'
    <2>1. \A i \in DOMAIN keys : keys[i].of = session
        BY <1>4 DEF Running, KeysOfThisSession
    <2> QED BY <1>4, <2>1, SendsKeys
<1>5. CASE Press("right") \/ Press("left") \/ Press("fail") \/ Press("unfail") \/ Press("defer") \/ stop
    BY <1>4, <1>5 DEF Press, stop, Commands
<1>6. CASE Walks
    BY <1>2, <1>6, WalksEffect DEF Running, gateway
<1>7. CASE Enter \/ AddFrame \/ Discards \/ SavesNothing \/ Save \/ Bind \/ Push
    BY <1>2, <1>7 DEF Running, gateway, Step, Enter, AddFrame, Discards, SavesNothing, Save, Bind, Push
<1>8. CASE Killed \/ GraceRunsOut
    BY <1>8 DEF Running, Killed, GraceRunsOut, RecorderDies
<1>9. CASE SetExit \/ Command \/ GatewayRestarts
    BY <1>2, <1>9 DEF Running, SetExit, Command, GatewayRestarts, gateway
<1>10. CASE start \/ StopReturns
    BY <1>1, <1>10 DEF start, StopReturns, BridgeStops
<1>11. CASE UNCHANGED recordvars
    BY <1>2, <1>11 DEF recordvars, Running
<1> QED
    BY <1>3, <1>5, <1>6, <1>7, <1>8, <1>9, <1>10, <1>11
    DEF RecordNext, MainStep, ControlStep, Walks, Commands

\* No key of an earlier session reaches a recorder, however the sessions ended.
THEOREM KeysAreOfTheSession == RecordSpec => []KeysOfThisSession
<1>1. RecordInit => KeysOfThisSession
    BY DEF RecordInit, KeysOfThisSession
<1> QED
    BY <1>1, RecordTypesInitially, RecordTypesKept, KeysKept, PTL DEF RecordSpec

-----------------------------------------------------------------------------
(* The sidecar *)

\* A step that leaves data set and log alone, and what an episode is of
Aside ==
    /\ UNCHANGED store
    /\ main' = "bind" <=> main = "bind"
    /\ main = "bind" => cursor'.cur = cursor.cur
    /\ FramesAreCurrent => FramesAreCurrent'
    /\ cursor'.done = cursor.done \/ cursor'.done = Done

LEMMA StepsAside ==
    ASSUME RecordTypeInv, [RecordNext]_recordvars, ~Save, ~Bind, ~Killed, ~GraceRunsOut
    PROVE  Aside
<1>0. cursor \in Cursors
    BY DEF RecordTypeInv, RecordTypeOK
<1>1. CASE Walks
    <2>1. main' # "bind" /\ main # "bind" /\ main' # "loop"
        BY <1>1, WalksEffect
    <2> QED BY <1>1, <2>1, WalksEffect DEF Aside, FramesAreCurrent
<1>2. CASE Enter
    <2>1. buf'.of = cursor'.cur /\ main = "enter" /\ main' = "loop" /\ UNCHANGED store
        BY <1>2 DEF Enter, Step
    <2>2. cursor'.done = cursor.done
        BY <1>0, <1>2, BeganKeeps DEF Enter
    <2> QED BY <2>1, <2>2 DEF Aside, FramesAreCurrent
<1>3. CASE AddFrame
    <2>1. buf'.of = buf.of /\ main = "loop" /\ UNCHANGED <<main, cursor, store>>
        BY <1>3 DEF AddFrame, RecordTypeInv, RecordTypeOK
    <2> QED BY <2>1 DEF Aside, FramesAreCurrent
<1>4. CASE Discards
    <2>1. ~buf'.frames /\ main = "decide" /\ main' = "top" /\ UNCHANGED store
        BY <1>4 DEF Discards, Step, NoBuffer
    <2>2. cursor'.done = cursor.done
        BY <1>0, <1>4, DroppedKeeps DEF Discards
    <2> QED BY <2>1, <2>2 DEF Aside, FramesAreCurrent
<1>5. CASE SavesNothing
    <2>1. ~buf'.frames /\ main = "save" /\ main' = "top" /\ UNCHANGED <<cursor, store>>
        BY <1>5 DEF SavesNothing, Step, NoBuffer
    <2> QED BY <2>1 DEF Aside, FramesAreCurrent
<1>6. CASE Push
    <2>1. main = "push" /\ main' = "done" /\ UNCHANGED <<buf, cursor, store>>
        BY <1>6 DEF Push, Step
    <2> QED BY <2>1 DEF Aside, FramesAreCurrent
<1>7. CASE Take \/ SetExit \/ stop \/ StopReturns \/ GatewayRestarts \/ \E cmd \in Commands : Press(cmd)
    <2>1. UNCHANGED <<main, buf, cursor, store>>
        BY <1>7 DEF Take, SetExit, stop, StopReturns, GatewayRestarts, Press
    <2> QED BY <2>1 DEF Aside, FramesAreCurrent
<1>8. CASE Command
    <2>1. UNCHANGED <<main, buf, store>>
        BY <1>8 DEF Command
    <2> QED BY <1>8, <2>1, CommandKeeps DEF Aside, FramesAreCurrent
<1>9. CASE start
    <2>1. ~buf'.frames /\ main \in {"off", "done", "dead"} /\ main' = "top" /\ UNCHANGED store
        BY <1>9 DEF start, Running, NoBuffer
    <2> QED BY <1>9, <2>1, StartsWhole DEF Aside, FramesAreCurrent
<1>10. CASE UNCHANGED recordvars
    BY <1>10 DEF recordvars, store, Aside, FramesAreCurrent
<1> QED
    BY <1>1, <1>2, <1>3, <1>4, <1>5, <1>6, <1>7, <1>8, <1>9, <1>10
    DEF RecordNext, MainStep, ControlStep, Walks

LEMMA AsideKeepsLog ==
    ASSUME SidecarInv, Aside
    PROVE  SidecarInv'
<1>1. DoneIsPassed'
    BY DEF SidecarInv, DoneIsPassed, Aside, Done, store
<1>2. FramesAreCurrent'
    BY DEF SidecarInv, Aside
<1>3. SavedIsCurrent'
    BY DEF SidecarInv, SavedIsCurrent, Aside, store
<1>4. LinesAreTrue' /\ SucceedsOnce'
    BY DEF SidecarInv, LinesAreTrue, SucceedsOnce, Aside, store
<1>5. Accounted'
    BY DEF SidecarInv, Accounted, Aside, store
<1> QED BY <1>1, <1>2, <1>3, <1>4, <1>5 DEF SidecarInv

\* The new episode is of the trial at hand, and waits for its line.
LEMMA SaveKeepsLog ==
    ASSUME RecordTypeInv, SidecarInv, Save
    PROVE  SidecarInv'
<1>1. /\ UNCHANGED <<cursor, log, unlogged>> /\ main = "save" /\ main' = "bind"
      /\ buf.frames /\ ~buf'.frames
    BY DEF Save, Step, NoBuffer
<1>2. /\ Len(data') = Len(data) + 1 /\ DOMAIN data = 1 .. Len(data)
      /\ DOMAIN data' = 1 .. Len(data) + 1 /\ Len(data) \in Nat
      /\ \A e \in DOMAIN data : data'[e] = data[e]
      /\ data'[Len(data) + 1].of = buf.of
    BY SaveTypes
<1>3. DoneIsPassed' /\ FramesAreCurrent'
    BY <1>1 DEF SidecarInv, DoneIsPassed, FramesAreCurrent, Done
<1>4. SavedIsCurrent'
    BY <1>1, <1>2 DEF SidecarInv, FramesAreCurrent, SavedIsCurrent
<1>5. LinesAreTrue' /\ SucceedsOnce'
    <2>1. \A l \in log : l.ep \in DOMAIN data
        BY DEF RecordTypeInv, RecordTypeOK
    <2> QED BY <1>1, <1>2, <2>1 DEF SidecarInv, LinesAreTrue, SucceedsOnce
<1>6. Accounted'
    BY <1>1, <1>2 DEF SidecarInv, Accounted
<1> QED BY <1>3, <1>4, <1>5, <1>6 DEF SidecarInv

\* The line is of the trial whose episode it is, and that trial had not succeeded.
LEMMA BindKeepsLog ==
    ASSUME RecordTypeInv, SidecarInv, Conserved, Bind
    PROVE  SidecarInv'
<1> DEFINE line == [trial |-> cursor.cur, ep |-> Len(data), failed |-> cursor.failed]
<1>1. main = "bind" /\ main' = "top" /\ UNCHANGED <<buf, data>> /\ ~buf.frames
    BY DEF Bind, Step, RecordTypeInv, RecordTypeOK, NoBuffer
<1>2. data[Len(data)].of = cursor.cur
    BY <1>1 DEF SidecarInv, SavedIsCurrent
<1>3. \/ cursor.cur # None /\ log' = log \cup {line} /\ unlogged' = unlogged
      \/ log' = log /\ unlogged' = IF cursor.cur = None THEN unlogged ELSE unlogged \cup {Len(data)}
    BY DEF Bind
<1>4. /\ cursor \in Cursors /\ cursor' = Saved(cursor)
      /\ cursor'.done = IF cursor.cur = None \/ cursor.failed THEN cursor.done
                                                               ELSE cursor.done \cup {cursor.cur}
    BY SavedKeeps DEF Bind, RecordTypeInv, RecordTypeOK
<1>5. cursor.cur # None => cursor.cur \notin Done
    <2>1. session > 0
        BY <1>1 DEF RecordTypeInv, RecordTypeOK
    <2>2. Whole(cursor)
        BY <2>1, ConservedIsWhole
    <2> QED BY <2>2 DEF Whole, SidecarInv, DoneIsPassed
<1> HIDE DEF line
<1>6. line.trial = cursor.cur /\ line.ep = Len(data) /\ line.failed = cursor.failed
    BY DEF line
<1>7. DoneIsPassed'
    <2>1. ASSUME NEW l \in log', ~l.failed PROVE l.trial \in cursor'.done
        <3>1. CASE l \in log
            BY <1>4, <2>1, <3>1 DEF SidecarInv, DoneIsPassed, Done
        <3>2. CASE l = line /\ cursor.cur # None
            BY <1>4, <1>6, <2>1, <3>2
        <3> QED BY <1>3, <3>1, <3>2
    <2> QED BY <2>1 DEF DoneIsPassed, Done
<1>8. FramesAreCurrent' /\ SavedIsCurrent'
    BY <1>1 DEF FramesAreCurrent, SavedIsCurrent
<1>9. LinesAreTrue'
    BY <1>1, <1>2, <1>3, <1>6 DEF SidecarInv, LinesAreTrue
<1>10. SucceedsOnce'
    <2>1. \A l \in log : ~l.failed => l.trial \in Done
        BY DEF Done
    <2>2. cursor.cur # None => \A l \in log : ~l.failed => l.trial # line.trial
        BY <1>5, <1>6, <2>1
    <2> QED BY <1>3, <2>2 DEF SidecarInv, SucceedsOnce
<1>11. Accounted'
    <2>1. SUFFICES ASSUME NEW e \in DOMAIN data
                   PROVE  data[e].of = None \/ e \in unlogged' \/ \E l \in log' : l.ep = e
        BY <1>1 DEF Accounted
    <2>2. unlogged \subseteq unlogged' /\ log \subseteq log'
        BY <1>3
    <2>3. CASE e = Len(data)
        BY <1>2, <1>3, <1>6, <2>3
    <2>4. CASE e # Len(data)
        BY <2>2, <2>4 DEF SidecarInv, Accounted
    <2> QED BY <2>3, <2>4
<1> QED BY <1>7, <1>8, <1>9, <1>10, <1>11 DEF SidecarInv

\* A recorder that dies leaves an episode without its line only where it counts as such.
LEMMA DeathKeepsLog ==
    ASSUME RecordTypeInv, SidecarInv, Killed \/ GraceRunsOut
    PROVE  SidecarInv'
<1>1. RecorderDies /\ UNCHANGED <<cursor, buf, log>>
    BY DEF Killed, GraceRunsOut
<1>2. /\ DOMAIN data' = DOMAIN data /\ Len(data') = Len(data)
      /\ \A e \in DOMAIN data : data'[e].of = data[e].of
      /\ unlogged \subseteq unlogged'
      /\ main = "bind" => Len(data) \in unlogged'
      /\ main' = "dead"
    BY <1>1, DeathLeaves
<1>3. DoneIsPassed' /\ FramesAreCurrent' /\ SavedIsCurrent'
    BY <1>1, <1>2 DEF SidecarInv, DoneIsPassed, FramesAreCurrent, SavedIsCurrent, Done
<1>4. LinesAreTrue' /\ SucceedsOnce'
    <2>1. \A l \in log : l.ep \in DOMAIN data
        BY DEF RecordTypeInv, RecordTypeOK
    <2> QED BY <1>1, <1>2, <2>1 DEF SidecarInv, LinesAreTrue, SucceedsOnce
<1>5. Accounted'
    BY <1>1, <1>2 DEF SidecarInv, Accounted
<1> QED BY <1>3, <1>4, <1>5 DEF SidecarInv

LEMMA SidecarKept ==
    ASSUME RecordTypeInv, SidecarInv, Conserved, [RecordNext]_recordvars
    PROVE  SidecarInv'
<1>1. CASE Save
    BY <1>1, SaveKeepsLog
<1>2. CASE Bind
    BY <1>2, BindKeepsLog
<1>3. CASE Killed \/ GraceRunsOut
    BY <1>3, DeathKeepsLog
<1>4. CASE ~Save /\ ~Bind /\ ~Killed /\ ~GraceRunsOut
    BY <1>4, StepsAside, AsideKeepsLog
<1> QED BY <1>1, <1>2, <1>3, <1>4

LEMMA SidecarIsTrue ==
    ASSUME RecordTypeInv, SidecarInv
    PROVE  LogIsTrue
<1>1. \A l \in log : l.ep \in DOMAIN data
    BY DEF RecordTypeInv, RecordTypeOK
<1> QED BY <1>1 DEF SidecarInv, LinesAreTrue, SucceedsOnce, Accounted, LogIsTrue

\* A line of the sidecar names the trial its episode was recorded for, a trial succeeds
\* once over all sessions, and an episode without a line is one whose recorder died before
\* it was written or could not write it.
THEOREM SidecarTellsTheTruth == RecordSpec => []LogIsTrue
<1>1. RecordInit => SidecarInv /\ Conserved
    BY DEF RecordInit, SidecarInv, DoneIsPassed, FramesAreCurrent, SavedIsCurrent, LinesAreTrue,
       SucceedsOnce, Accounted, Done, NoBuffer, Conserved
<1> QED
    BY <1>1, RecordTypesInitially, RecordTypesKept, ConservedKept, SidecarKept, SidecarIsTrue, PTL
    DEF RecordSpec
-----------------------------------------------------------------------------
(* A stop is heard *)

LEMMA StopHeardKept ==
    ASSUME RecordTypeInv, StopIsHeard, [RecordNext]_recordvars
    PROVE  StopIsHeard'
<1>0. ctl.at = "scen" => ctl.cmd \in {"fail", "unfail", "defer"}
    BY DEF RecordTypeInv
<1>1. CASE main' \notin {"prep", "enter", "loop"}
    BY <1>1 DEF StopIsHeard
<1>2. CASE Top
    BY <1>2 DEF Top, Step, StopIsHeard
<1>3. CASE PrepEnds \/ PrepTimesOut
    BY <1>3 DEF PrepEnds, PrepTimesOut, Step, RecordTypeInv, RecordTypeOK, Events, StopIsHeard
<1>4. CASE Enter \/ AddFrame
    BY <1>4 DEF Enter, AddFrame, Step, StopIsHeard
<1>5. CASE LoopEnds \/ After \/ ResetEnds \/ Discards \/ Keeps \/ SavesNothing \/ Save \/ Bind \/ Push
    BY <1>1, <1>5 DEF LoopEnds, After, ResetEnds, Discards, Keeps, SavesNothing, Save, Bind, Push, Step
<1>6. CASE Killed \/ GraceRunsOut
    BY <1>1, <1>6 DEF Killed, GraceRunsOut, RecorderDies
<1>7. CASE Take
    <2>1. /\ main' = main /\ ctl = Idle
          /\ ev'.stop => ev.stop \/ ctl'.at = "exit"
          /\ ev'.exit = ev.exit
        BY <1>7 DEF Take, RecordTypeInv, RecordTypeOK, Events
    <2>2. ctl.at # "exit"
        BY <2>1 DEF Idle
    <2> QED BY <2>1, <2>2 DEF StopIsHeard
<1>8. CASE SetExit
    <2>1. ev'.exit
        BY <1>8 DEF SetExit, RecordTypeInv, RecordTypeOK, Events
    <2> QED BY <2>1 DEF StopIsHeard
<1>9. CASE Command
    <2>1. ctl.at = "scen" /\ UNCHANGED <<main, ev>>
        BY <1>9 DEF Command
    <2> QED BY <2>1 DEF StopIsHeard
<1>10. CASE start
    BY <1>1, <1>10 DEF start
<1>11. CASE stop \/ StopReturns \/ GatewayRestarts \/ \E cmd \in Commands : Press(cmd)
    BY <1>11 DEF stop, StopReturns, GatewayRestarts, Press, StopIsHeard
<1>12. CASE UNCHANGED recordvars
    BY <1>12 DEF recordvars, StopIsHeard
<1> QED
    BY <1>2, <1>3, <1>4, <1>5, <1>6, <1>7, <1>8, <1>9, <1>10, <1>11, <1>12
    DEF RecordNext, MainStep, ControlStep

\* However the keys fall between the steps of the main thread: a recorder that waits for an
\* episode or records one, and is to stop, has been told to leave the loop or is about to be.
THEOREM StopReachesTheLoop == RecordSpec => []StopIsHeard
<1>1. RecordInit => StopIsHeard
    BY DEF RecordInit, StopIsHeard
<1> QED
    BY <1>1, RecordTypesInitially, RecordTypesKept, StopHeardKept, PTL DEF RecordSpec
=============================================================================
