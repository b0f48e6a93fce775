---------------------------- MODULE ArmCommand ----------------------------
(***************************************************************************)
(* Who drives one arm.  The action segment of the arm is a file in         *)
(* /dev/shm; whoever wants to drive the arm creates it and publishes goals *)
(* in it, and the command loop of robotd sends what it reads there to the  *)
(* CAN bus (robot/piper_robot/publish.py).                                 *)
(*                                                                         *)
(* Two kinds of consumers open the file.  The LeRobot subprocesses         *)
(* (inference, recording) open it without looking.  The jog and the leader *)
(* relay of the gateway hold the teleop lock and check the lease first: a  *)
(* file nobody wrote to for STALE_LEASE_S is taken over                    *)
(* (backend/app/services/teleop.py).                                       *)
(*                                                                         *)
(* A file is an inode; it outlives its name for whoever has it mapped.     *)
(* Clocks are abstracted to the age of the last record of a file: younger  *)
(* than deadman_ms, older, older than STALE_LEASE_S.  What a goal says is  *)
(* left out; what is kept of it is how old it was when it was sent.        *)
(*                                                                         *)
(* A gate (require_idle) and the start behind it are one step here.  The   *)
(* code has awaits between them; what gets through there is the subject of *)
(* ActivityGate.  Here the question is what remains once the gates hold.   *)
(***************************************************************************)
EXTENDS Integers, FiniteSets

CONSTANTS
    Proxies,             \* the LeRobot subprocesses that drive the arm
    Jog, Relay,          \* the two sessions of the gateway
    NoFile,
    Cross,               \* the relay joins two arm models, so it can re-engage
    DaemonMayUnlink,     \* robotd may delete the consumers' file in /dev/shm
    MaxFiles,            \* bound: files ever created
    MaxSeq               \* bound: records one opening of a file publishes

Webs == {Jog, Relay}
Consumers == Proxies \cup Webs
Files == 1 .. MaxFiles

ASSUME ConsumersAssumption == Jog # Relay /\ Webs \cap Proxies = {}
ASSUME NoFileAssumption == NoFile \notin Nat
ASSUME FlagsAssumption == Cross \in BOOLEAN /\ DaemonMayUnlink \in BOOLEAN
ASSUME BoundsAssumption == MaxFiles \in Nat /\ MaxSeq \in Nat

VARIABLES
    path,                \* the file the name of the action segment leads to
    files,               \* files created so far
    seg,                 \* file -> its header and the age of its last record
    st,                  \* consumer -> how far it has got
    ino,                 \* consumer -> the file it has mapped
    wseq,                \* consumer -> _seq of its writer
    held,                \* teleop_session.held[iface]: the mode, "" for nobody
    paired,              \* the relay remembers its pair (RelaySession.is_running)
    loop,                \* where the command loop of robotd is
    reader,              \* the file its ActionReader has mapped
    last_seq,            \* _last_seq of that reader
    arm                  \* what was sent to the CAN bus last

fvars == <<path, files, seg>>
cvars == <<st, ino, wseq>>
lvars == <<held, paired>>
dvars == <<loop, reader, last_seq, arm>>
vars == <<path, files, seg, st, ino, wseq, held, paired,
          loop, reader, last_seq, arm>>

Ages == {"never", "fresh", "late", "expired"}
Segment == [ready : BOOLEAN, seq : Nat, age : Ages]
EmptyFile == [ready |-> FALSE, seq |-> 0, age |-> "never"]
Header == [ready |-> TRUE, seq |-> 0, age |-> "never"]
Stages == {"off", "lease", "takeover", "create", "header", "health", "live",
           "leaked"}
Modes == {"", "joint", "leader"}

Mode(w) == IF w = Jog THEN "joint" ELSE "leader"
Active(c) == st[c] # "off"
Live(c) == st[c] = "live"
Driving == \E p \in Proxies : Active(p)

\* _lease_age_s is at least STALE_LEASE_S: also for a file that cannot be
\* opened and for one without a record.
Silent(f) == ~seg[f].ready \/ seg[f].age \in {"never", "expired"}

\* ActionReader.is_stale
Stale(f) == seg[f].age # "fresh"

FilesTyped ==
    /\ path \in Files \cup {NoFile}
    /\ files \in 0 .. MaxFiles
    /\ seg \in [Files -> Segment]

\* whoever has a writer has a file mapped
ConsumersTyped ==
    /\ st \in [Consumers -> Stages]
    /\ \A p \in Proxies : st[p] \in {"off", "create", "header", "live"}
    /\ ino \in [Consumers -> Files \cup {NoFile}]
    /\ \A c \in Consumers :
          st[c] \in {"header", "health", "live", "leaked"} => ino[c] \in Files
    /\ wseq \in [Consumers -> 0 .. MaxSeq]

SessionsTyped == held \in Modes /\ paired \in BOOLEAN

LoopTyped ==
    /\ loop \in {"crashed", "down", "attach", "poll", "empty", "dead"}
    /\ reader \in Files \cup {NoFile}
    /\ loop \in {"poll", "empty"} => reader \in Files
    /\ last_seq \in Nat
    /\ arm \in [cmd : {"none", "goal", "hold"}, age : Ages]

TypeOK == FilesTyped /\ ConsumersTyped /\ SessionsTyped /\ LoopTyped

Init ==
    /\ path = NoFile
    /\ files = 0
    /\ seg = [f \in Files |-> EmptyFile]
    /\ st = [c \in Consumers |-> "off"]
    /\ ino = [c \in Consumers |-> NoFile]
    /\ wseq = [c \in Consumers |-> 0]
    /\ held = ""
    /\ paired = FALSE
    /\ loop = "down"
    /\ reader = NoFile
    /\ last_seq = 0
    /\ arm = [cmd |-> "none", age |-> "never"]

-----------------------------------------------------------------------------
(* Opening and closing the file *)

Move(c, stage) == st' = [st EXCEPT ![c] = stage]

\* the consumers in S are off: none of them has a writer any more
Leave(S) ==
    /\ st' = [c \in Consumers |-> IF c \in S THEN "off" ELSE st[c]]
    /\ ino' = [c \in Consumers |-> IF c \in S THEN NoFile ELSE ino[c]]
    /\ wseq' = [c \in Consumers |-> IF c \in S THEN 0 ELSE wseq[c]]

\* os.open(O_CREAT): the file that is there, or a new one of length zero
CreateFile(c) ==
    /\ st[c] = "create"
    /\ \/ /\ path # NoFile
          /\ ino' = [ino EXCEPT ![c] = path]
          /\ UNCHANGED fvars
       \/ /\ path = NoFile
          /\ files < MaxFiles
          /\ files' = files + 1
          /\ seg' = [seg EXCEPT ![files + 1] = EmptyFile]
          /\ path' = files + 1
          /\ ino' = [ino EXCEPT ![c] = files + 1]
    /\ Move(c, "header")
    /\ UNCHANGED <<wseq, lvars, dvars>>

\* ftruncate, mmap and the header, whether the file is new or not
WriteHeader(c) ==
    /\ st[c] = "header"
    /\ seg' = [seg EXCEPT ![ino[c]] = Header]
    /\ wseq' = [wseq EXCEPT ![c] = 0]
    /\ Move(c, IF c \in Webs THEN "health" ELSE "live")
    /\ UNCHANGED <<path, files, ino, lvars, dvars>>

\* The writer's own number and the wall clock go into the header.  set_action of
\* a proxy reads the arm's state first and fails when robotd publishes none.
Publish(c) ==
    /\ Live(c)
    /\ c \in Proxies => loop \notin {"crashed", "down"}
    /\ wseq[c] < MaxSeq
    /\ wseq' = [wseq EXCEPT ![c] = @ + 1]
    /\ seg' = [seg EXCEPT ![ino[c]] =
                  [ready |-> TRUE, seq |-> wseq[c] + 1, age |-> "fresh"]]
    /\ UNCHANGED <<path, files, st, ino, lvars, dvars>>

\* unlink goes by the name, whatever file it leads to
Unlink == path' = NoFile /\ UNCHANGED <<files, seg>>

-----------------------------------------------------------------------------
(* Inference and recording: the proxy bus in a LeRobot subprocess *)

\* Faulty variant of StartProxy: teleoperation does not block it.
StartProxyUngated(p) ==
    /\ ~Active(p)
    /\ ~Driving
    /\ loop \notin {"crashed", "down"}
    /\ Move(p, "create")
    /\ UNCHANGED <<fvars, ino, wseq, lvars, dvars>>

\* require_idle of INFERENCE and RECORDING: no teleop, not each other.
\* connect() needs the state segment, so robotd's bridge is up.
StartProxy(p) ==
    /\ ~Active(p)
    /\ held = ""
    /\ ~Driving
    /\ loop \notin {"crashed", "down"}
    /\ Move(p, "create")
    /\ UNCHANGED <<fvars, ino, wseq, lvars, dvars>>

\* disconnect() closes the writer, which removes the name
Disconnect(p) ==
    /\ Live(p)
    /\ Unlink
    /\ Leave({p})
    /\ UNCHANGED <<lvars, dvars>>

\* E-stop's SIGKILL, a crash, a failed connect: the file stays
Kill(p) ==
    /\ Active(p)
    /\ Leave({p})
    /\ UNCHANGED <<fvars, lvars, dvars>>

-----------------------------------------------------------------------------
(* The sessions of the gateway *)

\* Faulty variant of StartWeb: recording and inference do not block it.
StartWebUngated(w) ==
    /\ ~Active(w)
    /\ w = Relay => ~paired
    /\ held = ""
    /\ loop \notin {"crashed", "down"}
    /\ held' = Mode(w)
    /\ Move(w, "lease")
    /\ UNCHANGED <<fvars, ino, wseq, paired, dvars>>

\* require_idle(TELEOP), then teleop_session.start
StartWeb(w) ==
    /\ ~Active(w)
    /\ w = Relay => ~paired
    /\ ~Driving
    /\ held = ""
    /\ loop \notin {"crashed", "down"}
    /\ held' = Mode(w)
    /\ Move(w, "lease")
    /\ UNCHANGED <<fvars, ino, wseq, paired, dvars>>

\* RelaySession.engage after a disengage: no require_idle
Engage ==
    /\ Cross
    /\ paired
    /\ ~Active(Relay)
    /\ held = ""
    /\ held' = "leader"
    /\ Move(Relay, "lease")
    /\ UNCHANGED <<fvars, ino, wseq, paired, dvars>>

\* open_action_writer looks for the file and at its last record
CheckLease(w) ==
    /\ st[w] = "lease"
    /\ path # NoFile => Silent(path)
    /\ Move(w, IF path = NoFile THEN "create" ELSE "takeover")
    /\ UNCHANGED <<fvars, ino, wseq, lvars, dvars>>

\* ArmBusyError: the start is undone
Refused(w) ==
    /\ st[w] = "lease"
    /\ path # NoFile
    /\ ~Silent(path)
    /\ held' = ""
    /\ Leave({w})
    /\ UNCHANGED <<fvars, paired, dvars>>

TakeOver(w) ==
    /\ st[w] = "takeover"
    /\ Unlink
    /\ Move(w, "create")
    /\ UNCHANGED <<ino, wseq, lvars, dvars>>

\* require_healthy_bus and enable_torque went well
Ready(w) ==
    /\ st[w] = "health"
    /\ Move(w, "live")
    /\ paired' = (paired \/ w = Relay)
    /\ UNCHANGED <<fvars, ino, wseq, held, dvars>>

\* require_healthy_bus raises in RelaySession.start or engage (in engage also
\* _engage_locked): both undo all of it, engage keeps the pair
RelayUnwinds ==
    /\ st[Relay] = "health"
    /\ Unlink
    /\ held' = ""
    /\ Leave({Relay})
    /\ UNCHANGED <<paired, dvars>>

\* require_healthy_bus raises in JogSession.start: the writer is open, the
\* lock is held, _iface is still None and no thread runs
JogLeaks ==
    /\ st[Jog] = "health"
    /\ Move(Jog, "leaked")
    /\ UNCHANGED <<fvars, ino, wseq, lvars, dvars>>

\* JogSession.stop and RelaySession.stop of a session that has a writer; the
\* jog that never learned its interface releases no lock
Close(w) ==
    /\ st[w] \in {"live", "leaked"}
    /\ Unlink
    /\ held' = IF Live(w) THEN "" ELSE held
    /\ paired' = (paired /\ w # Relay)
    /\ Leave({w})
    /\ UNCHANGED dvars

\* the relay lets go of the follower and keeps the pair
Disengage ==
    /\ Live(Relay)
    /\ Unlink
    /\ held' = ""
    /\ Leave({Relay})
    /\ UNCHANGED <<paired, dvars>>

\* Faulty variant of StopReleased: release() without a look at the mode.
StopReleasesAnyLock ==
    /\ paired
    /\ ~Active(Relay)
    /\ Unlink
    /\ held' = ""
    /\ paired' = FALSE
    /\ UNCHANGED <<cvars, dvars>>

\* RelaySession.stop of a relay that has let go: there is no writer, and
\* close_action_writer removes the follower's name all the same
StopReleased ==
    /\ paired
    /\ ~Active(Relay)
    /\ Unlink
    /\ paired' = FALSE
    /\ UNCHANGED <<cvars, held, dvars>>

\* _stop_teleop of E-stop: both sessions, then the lock
StopTeleop ==
    /\ held # ""
    /\ \A w \in Webs : st[w] \in {"off", "live", "leaked"}
    /\ IF paired \/ \E w \in Webs : Active(w)
       THEN Unlink
       ELSE UNCHANGED fvars
    /\ Leave(Webs)
    /\ held' = ""
    /\ paired' = FALSE
    /\ UNCHANGED dvars

\* the gateway's container dies with everything in it
GatewayDies ==
    /\ held # "" \/ paired \/ \E c \in Consumers : Active(c)
    /\ Leave(Consumers)
    /\ held' = ""
    /\ paired' = FALSE
    /\ UNCHANGED <<fvars, dvars>>

-----------------------------------------------------------------------------
(* robotd: ArmBridge.  Its command loop is _command_loop. *)

BridgeStart ==
    /\ loop = "down"
    /\ loop' = "attach"
    /\ UNCHANGED <<fvars, cvars, lvars, reader, last_seq, arm>>

\* stop() and _declare_lost: the loop ends, the name is removed if the
\* permissions of /dev/shm let robotd do it
DaemonUnlinks == IF DaemonMayUnlink THEN Unlink ELSE UNCHANGED fvars

BridgeStop ==
    /\ loop \notin {"crashed", "down"}
    /\ loop' = "down"
    /\ reader' = NoFile
    /\ last_seq' = 0
    /\ DaemonUnlinks
    /\ UNCHANGED <<cvars, lvars, arm>>

DaemonCrash ==
    /\ loop # "crashed"
    /\ loop' = "crashed"
    /\ reader' = NoFile
    /\ last_seq' = 0
    /\ UNCHANGED <<fvars, cvars, lvars, arm>>

\* sweep_stale at startup
DaemonRestart ==
    /\ loop = "crashed"
    /\ loop' = "down"
    /\ DaemonUnlinks
    /\ UNCHANGED <<cvars, lvars, reader, last_seq, arm>>

\* Faulty variant of Attach: the reader of the last consumer is kept.
AttachToNothing ==
    /\ loop = "attach"
    /\ path # NoFile
    /\ seg[path].ready
    /\ loop' = "poll"
    /\ last_seq' = 0
    /\ UNCHANGED <<fvars, cvars, lvars, reader, arm>>

\* a new ActionReader has _last_seq 0
Attach ==
    /\ loop = "attach"
    /\ path # NoFile
    /\ seg[path].ready
    /\ loop' = "poll"
    /\ reader' = path
    /\ last_seq' = 0
    /\ UNCHANGED <<fvars, cvars, lvars, arm>>

\* mmap of a file of length zero is a ValueError, neither ArmSegmentError nor
\* OSError: nothing catches it and the thread is gone
AttachDies ==
    /\ loop = "attach"
    /\ path # NoFile
    /\ ~seg[path].ready
    /\ loop' = "dead"
    /\ UNCHANGED <<fvars, cvars, lvars, reader, last_seq, arm>>

\* read_new returns a record and _send puts it on the bus
Deliver ==
    /\ loop = "poll"
    /\ seg[reader].seq > last_seq
    /\ last_seq' = seg[reader].seq
    /\ arm' = [cmd |-> "goal", age |-> seg[reader].age]
    /\ UNCHANGED <<fvars, cvars, lvars, loop, reader>>

\* read_new returns None after DEADMAN_CHECK_S
NoRecord ==
    /\ loop = "poll"
    /\ seg[reader].seq <= last_seq
    /\ loop' = "empty"
    /\ UNCHANGED <<fvars, cvars, lvars, reader, last_seq, arm>>

\* no file of that name any more: the consumer has left
Detach ==
    /\ loop = "empty"
    /\ path = NoFile
    /\ loop' = "attach"
    /\ reader' = NoFile
    /\ last_seq' = 0
    /\ UNCHANGED <<fvars, cvars, lvars, arm>>

\* Faulty variant of Hold: no goal is sent, so the arm goes on to the last one.
HoldSendsNothing ==
    /\ loop = "empty"
    /\ path # NoFile
    /\ Stale(reader)
    /\ loop' = "poll"
    /\ UNCHANGED <<fvars, cvars, lvars, reader, last_seq, arm>>

\* is_stale: _hold sends the present pose
Hold ==
    /\ loop = "empty"
    /\ path # NoFile
    /\ Stale(reader)
    /\ arm' = [cmd |-> "hold", age |-> "never"]
    /\ loop' = "poll"
    /\ UNCHANGED <<fvars, cvars, lvars, reader, last_seq>>

StillFresh ==
    /\ loop = "empty"
    /\ path # NoFile
    /\ ~Stale(reader)
    /\ loop' = "poll"
    /\ UNCHANGED <<fvars, cvars, lvars, reader, last_seq, arm>>

-----------------------------------------------------------------------------
(* Time.  The loop polls every millisecond and attaches within 20, so a     *)
(* record does not outgrow deadman_ms while the loop is about to send it.   *)

AboutToSend(f) ==
    \/ loop = "poll" /\ reader = f /\ seg[f].seq > last_seq
    \/ loop = "attach" /\ path = f /\ seg[f].ready /\ seg[f].seq > 0

Elapse(f) ==
    /\ f \in {path, reader}
    /\ seg[f].age \in {"fresh", "late"}
    /\ ~AboutToSend(f)
    /\ seg' = [seg EXCEPT ![f].age = IF @ = "fresh" THEN "late" ELSE "expired"]
    /\ UNCHANGED <<path, files, cvars, lvars, dvars>>

-----------------------------------------------------------------------------

WebNext(w) ==
    \/ StartWeb(w) \/ CheckLease(w) \/ Refused(w) \/ TakeOver(w)
    \/ Ready(w) \/ Close(w)

GatewayNext ==
    \/ \E w \in Webs : WebNext(w)
    \/ Engage \/ RelayUnwinds \/ JogLeaks \/ Disengage \/ StopReleased
    \/ StopTeleop \/ GatewayDies

ProxyNext(p) == StartProxy(p) \/ Disconnect(p) \/ Kill(p)

WriterNext(c) == CreateFile(c) \/ WriteHeader(c) \/ Publish(c)

LoopNext == Attach \/ AttachDies \/ Deliver \/ NoRecord \/ Detach \/ Hold \/ StillFresh

BridgeNext == BridgeStart \/ BridgeStop \/ DaemonCrash \/ DaemonRestart

Next ==
    \/ \E c \in Consumers : WriterNext(c)
    \/ \E p \in Proxies : ProxyNext(p)
    \/ GatewayNext
    \/ LoopNext
    \/ BridgeNext
    \/ \E f \in Files : Elapse(f)

Spec == Init /\ [][Next]_vars

\* the thread of the command loop keeps running; nothing else has to
FairSpec == Spec /\ WF_vars(LoopNext)

\* Starting a consumer takes longer than the 50 ms after which the loop notices
\* that the one before has let go.
Prompt ==
    \A c \in Consumers :
        ~Active(c) /\ Active(c)' => ~(loop \in {"poll", "empty"} /\ path = NoFile)

PromptSpec == Init /\ [][Next /\ Prompt]_vars /\ WF_vars(LoopNext)

-----------------------------------------------------------------------------

\* A session that has got anywhere holds the teleop lock of the arm, so the
\* jog and the relay never drive it together (teleop_session.start and the
\* undoing in JogSession.start, RelaySession.start, engage and disengage).
LockCoversSession == \A w \in Webs : Active(w) => held = Mode(w)

\* One consumer at a time: the lock, the two gates and the lease together
\* (a relay that cannot engage again, see Cross).
OneAtATime == \A c, d \in Consumers : Active(c) /\ Active(d) => c = d

Mapped(c) == st[c] \in {"header", "health", "live", "leaked"}

\* No two consumers write the same file, which the segment's format takes for
\* granted (ArmSeqlock).
OneWriterPerSegment ==
    \A c, d \in Consumers :
        Mapped(c) /\ Mapped(d) /\ ino[c] = ino[d] => c = d

\* c keeps driving and its file loses its name
Evicted(c) == Live(c) /\ Live(c)' /\ path = ino[c] /\ path' # path

\* Apart from robotd, only the stop of a relay that has let go of the arm takes
\* the file from under a consumer that goes on driving: a takeover never does.
TakeOverSparesTheLiving ==
    [][ \A c \in Consumers :
          Evicted(c) => loop' # loop \/ (paired /\ ~paired') ]_vars

Attached == loop \in {"poll", "empty"}

\* The dead man's switch: when the consumer robotd listens to falls silent, for
\* whatever reason, the arm is told to stay where it is, unless the consumer
\* speaks again or robotd stops listening to it (_command_loop, _hold).
DeadmanCatches ==
    \A f \in Files :
        (Attached /\ reader = f /\ Stale(f))
            ~> (arm.cmd = "hold" \/ ~Attached \/ reader # f \/ ~Stale(f))

\* A goal goes to the arm while it is young: what a consumer that is gone said
\* last is never said again in its name (arm.py:79-80, publish.py:144-145).
SendsOnlyFresh == arm.cmd = "goal" => arm.age = "fresh"

\* robotd listens to whoever holds the name: a consumer that drives through the
\* file of that name is heard, as long as robotd's bridge runs
\* (open_action_writer: "judged here and taken over", teleop.py:143).
OwnerIsHeard ==
    \A c \in Consumers :
        (Live(c) /\ path = ino[c])
            ~> (reader = ino[c] \/ ~Live(c) \/ path # ino[c]
                  \/ loop \in {"crashed", "down", "dead"})

\* Stopping a relay that has let go of the arm leaves the arm's present user
\* alone (teleop.py:57-60).
StopSparesOthers ==
    [][ \A c \in Consumers : Evicted(c) => ~(paired /\ ~paired') ]_vars

\* An exception never ends the command loop (publish.py:313-315).
LoopSurvives == loop # "dead"

\* When the consumer lets go of the arm in the middle of a motion, the arm is
\* told to stay where it is (relay.py:363-366, routers/robots.py:1551).
ReleaseStopsArm ==
    (Attached /\ path = NoFile /\ arm.cmd = "goal")
        ~> (arm.cmd = "hold" \/ path # NoFile \/ loop \in {"crashed", "down"})

\* A relay engages again only while no recording and no inference has the arm
\* (RelaySession.engage, relay.py:328-330).
EngageRefused == \A p \in Proxies : ~(Live(Relay) /\ Live(p))

\* A lock that is held has a session that will release it.
LockHasOwner == held # "" => \E w \in Webs : Active(w)
=============================================================================
