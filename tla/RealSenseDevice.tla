-------------------------- MODULE RealSenseDevice --------------------------
(***************************************************************************)
(* One RealSense camera in the daemon rsd: the request that holds          *)
(* _op_lock, the read threads that _start_thread has made, the segments    *)
(* that publish.py opens and closes, the idle reaper, and what the gateway *)
(* believes (camera_manager.py, device_watch.py).                          *)
(*                                                                         *)
(* Requests run one after the other in rsd's serve loop and hold _op_lock. *)
(* A read thread takes no lock when it declares the camera lost: its       *)
(* _stop_pipeline runs beside that of the request, statement by statement. *)
(***************************************************************************)
EXTENDS Naturals, FiniteSets

CONSTANTS
    Streams,             \* the streams of the camera (available)
    Idles,               \* those with a time for idle closing
    Threads,             \* identities of read threads, used again once ended
    Main,                \* the serve loop
    NoOne,
    Narrow,              \* the camera hangs on USB 2
    MaxEmpty,            \* _MAX_EMPTY
    MaxRefs, MaxFaults, MaxHangs     \* bounds: connects of a stream, faults of the camera, hangs

ASSUME DeviceAssumption ==
    /\ Idles \subseteq Streams /\ Narrow \in BOOLEAN /\ MaxEmpty \in Nat \ {0}
    /\ {Main, NoOne} \cap Threads = {} /\ Main # NoOne
    /\ {MaxRefs, MaxFaults, MaxHangs} \subseteq Nat

VARIABLES
    refs, active, pipe, running, thread, lost,       \* _RSDevice
    pc,                  \* where the serve loop and each read thread are
    empty,               \* frames a thread has missed in a row
    frames,              \* what a thread is about to publish
    closing,             \* _stop_pipeline of a process: its streams and whom it joins
    req,                 \* the request: verb, stream, target streams, changed profile, temporary
    file, pub,           \* segments that exist, and those with an open publisher
    idle,                \* the reaper's entry of a stream, or the key of its idle stop
    reads,               \* segments a consumer has open
    connected,           \* CameraInfo.connected
    usb,                 \* the camera: it works, is mute, or its USB node is gone
    faults, hangs

device == <<refs, active, pipe, running, thread, lost>>
segments == <<file, pub>>
gateway == <<idle, reads, connected>>
world == <<usb, faults, hangs>>
vars == <<device, pc, empty, frames, closing, req, segments, gateway, world>>

Processes == Threads \cup {Main}
Looping(r) == pc[r] \in {"top", "wait", "publish", "hung"}
Stopping(p) == pc[p] \in {"stop", "close", "drop", "clear"}
Alive(r) == pc[r] # "ended"
Held == {s \in Streams : refs[s] > 0}
NoStop == [of |-> {}, join |-> NoOne]
NoReq == [verb |-> "none", of |-> {}, want |-> {}, other |-> FALSE, back |-> FALSE]
Quiet == pc[Main] = "idle" /\ \A r \in Threads : ~Stopping(r) /\ pc[r] # "declare"

TypeOK ==
    /\ refs \in [Streams -> 0 .. MaxRefs] /\ active \subseteq Streams
    /\ {pipe, running, lost} \subseteq BOOLEAN
    /\ thread \in Threads \cup {NoOne}
    /\ \A r \in Threads : pc[r] \in {"ended", "top", "wait", "publish", "hung", "declare",
                                     "stop", "close", "drop", "clear"}
    /\ pc[Main] \in {"idle", "ensure", "stop", "close", "drop", "clear", "start",
                     "opened", "thread", "look", "ok", "failed"}
    /\ empty \in [Threads -> 0 .. MaxEmpty] /\ frames \in [Threads -> SUBSET Streams]
    /\ {file, pub, reads, connected} \subseteq SUBSET Streams
    /\ idle \in [Idles -> {"off", "watched", "closed"}]
    /\ usb \in {"ok", "mute", "gone"}
    /\ faults \in 0 .. MaxFaults /\ hangs \in 0 .. MaxHangs
    \* whoever stops a pipeline knows what it closes; a consumer keeps what is there
    /\ req = NoReq <=> pc[Main] = "idle"
    /\ reads \subseteq file

Init ==
    /\ refs = [s \in Streams |-> 0] /\ active = {} /\ pipe = FALSE /\ running = FALSE
    /\ thread = NoOne /\ lost = FALSE
    /\ pc = [p \in Processes |-> IF p = Main THEN "idle" ELSE "ended"]
    /\ empty = [r \in Threads |-> 0] /\ frames = [r \in Threads |-> {}]
    /\ closing = [p \in Processes |-> NoStop]
    /\ req = NoReq
    /\ file = {} /\ pub = {}
    /\ idle = [s \in Idles |-> "off"] /\ reads = {} /\ connected = {}
    /\ usb = "ok" /\ faults = 0 /\ hangs = 0

Go(p, to) == pc' = [pc EXCEPT ![p] = to]
Move(p, from, to) == pc[p] = from /\ Go(p, to)

-----------------------------------------------------------------------------
(* _stop_pipeline, by the serve loop or by a read thread *)

\* Faulty variant of Joins: the thread is told to end and not waited for.
JoinsNobody(p) == NoOne

\* Faulty variant of Joins: a thread that declares the camera lost joins itself.
JoinsItself(p) == IF thread \in {r \in Threads : Alive(r)} THEN thread ELSE NoOne

\* Whom to join: the current thread, unless it is the caller or has ended.
Joins(p) == IF thread \in {r \in Threads : Alive(r)} \ {p} THEN thread ELSE NoOne

StopBegin(p) ==
    /\ Move(p, "stop", "close")
    /\ running' = FALSE
    /\ closing' = [closing EXCEPT ![p].of = active, ![p].join = Joins(p)]
    /\ UNCHANGED <<refs, active, pipe, thread, lost, empty, frames, req, segments, gateway, world>>

\* A request keeps the segments unless it lets go of the camera; a loss does not.
Unlinks(p) == p # Main \/ (req.verb \in {"disconnect", "idle", "reset"} /\ req.want = {})

\* join(timeout=2), where a thread that hangs in the driver is given up, then
\* publish.stop(): only a publisher that is open removes its file.
Close(p) ==
    /\ Move(p, "close", "drop")
    /\ closing[p].join \in {NoOne} \cup {r \in Threads : pc[r] \in {"ended", "hung"}}
    /\ thread' = NoOne
    /\ pub' = pub \ closing[p].of
    /\ file' = IF Unlinks(p) THEN file \ (closing[p].of \cap pub) ELSE file
    /\ reads' = reads \cap file'
    /\ UNCHANGED <<refs, active, pipe, running, lost, empty, frames, closing, req, idle, connected,
                   world>>

Drop(p) ==
    /\ Move(p, "drop", "clear")
    /\ pipe' = FALSE
    /\ UNCHANGED <<refs, active, running, thread, lost, empty, frames, closing, req, segments,
                   gateway, world>>

\* What the request does once its pipeline is stopped.
AfterStop == IF req.want # {} THEN "start" ELSE "ok"

Clear(p) ==
    /\ Move(p, "clear", IF p = Main THEN AfterStop ELSE "ended")
    /\ active' = {}
    /\ closing' = [closing EXCEPT ![p] = NoStop]
    /\ UNCHANGED <<refs, pipe, running, thread, lost, empty, frames, req, segments, gateway, world>>

-----------------------------------------------------------------------------
(* The read thread: _read_loop and _declare_lost *)

ThreadEnds(r) ==
    /\ Move(r, "top", "ended")
    /\ ~running \/ ~pipe
    /\ UNCHANGED <<device, empty, frames, closing, req, segments, gateway, world>>

\* Once a second the thread looks if the USB node is there.
NodeGone(r) ==
    /\ Move(r, "top", "declare")
    /\ running /\ pipe /\ usb = "gone"
    /\ UNCHANGED <<device, empty, frames, closing, req, segments, gateway, world>>

AwaitFrames(r) ==
    /\ Move(r, "top", "wait")
    /\ running /\ pipe
    /\ UNCHANGED <<device, empty, frames, closing, req, segments, gateway, world>>

FramesArrive(r) ==
    /\ Move(r, "wait", "publish")
    /\ usb = "ok" /\ pipe
    /\ empty' = [empty EXCEPT ![r] = 0]
    /\ frames' = [frames EXCEPT ![r] = active]
    /\ UNCHANGED <<device, closing, req, segments, gateway, world>>

\* An exception counts like a frame that did not come.
Missed(r) == empty[r] + 1

NoFrames(r) ==
    /\ Move(r, "wait", IF Missed(r) >= MaxEmpty THEN "declare" ELSE "top")
    /\ usb # "ok" \/ ~pipe
    /\ empty' = [empty EXCEPT ![r] = Missed(r)]
    /\ UNCHANGED <<device, frames, closing, req, segments, gateway, world>>

\* publish_frame(): opens a publisher, or opens it again when the file is gone.
Publish(r) ==
    /\ Move(r, "publish", "top")
    /\ pub' = pub \cup frames[r]
    /\ file' = file \cup frames[r]
    /\ frames' = [frames EXCEPT ![r] = {}]
    /\ UNCHANGED <<device, empty, closing, req, gateway, world>>

\* Faulty variant of DeclareLost: the pipeline is left to the next request.
DeclareOnly(r) ==
    /\ Move(r, "declare", "ended")
    /\ lost' = TRUE
    /\ running' = FALSE
    /\ UNCHANGED <<refs, active, pipe, thread, empty, frames, closing, req, segments, gateway, world>>

DeclareLost(r) ==
    /\ Move(r, "declare", "stop")
    /\ lost' = TRUE
    /\ running' = FALSE
    /\ UNCHANGED <<refs, active, pipe, thread, empty, frames, closing, req, segments, gateway, world>>

\* The driver does not come back (D-state), and later it does.
Hang(r) ==
    /\ Move(r, "wait", "hung")
    /\ hangs < MaxHangs
    /\ hangs' = hangs + 1
    /\ UNCHANGED <<device, empty, frames, closing, req, segments, gateway, usb, faults>>

Wakes(r) ==
    /\ Move(r, "hung", "wait")
    /\ UNCHANGED <<device, empty, frames, closing, req, segments, gateway, world>>

-----------------------------------------------------------------------------
(* The requests of the serve loop *)

Request(verb, s, want, other) ==
    [verb |-> verb, of |-> {s}, want |-> want, other |-> other,
     back |-> verb = "probe" /\ (~pipe \/ s \notin active)]

\* _ensure_streams(): nothing to do when the pipeline already has the streams.
HasAll == pipe /\ req.want \subseteq active /\ ~req.other /\ req.want \subseteq file

Ensure ==
    /\ Move(Main, "ensure", IF HasAll THEN IF req.verb = "probe" THEN "look" ELSE "ok" ELSE "stop")
    /\ UNCHANGED <<device, empty, frames, closing, req, segments, gateway, world>>

Opens ==
    /\ Move(Main, "start", "opened")
    /\ usb # "gone"
    /\ pipe' = TRUE
    /\ UNCHANGED <<refs, active, running, thread, lost, empty, frames, closing, req, segments,
                   gateway, world>>

\* pipeline.start() fails: no camera, or no bandwidth for all the streams.
OpenFails ==
    /\ Move(Main, "start", "failed")
    /\ usb = "gone" \/ Narrow
    /\ UNCHANGED <<device, empty, frames, closing, req, segments, gateway, world>>

Activates ==
    /\ Move(Main, "opened", "thread")
    /\ active' = req.want
    /\ UNCHANGED <<refs, pipe, running, thread, lost, empty, frames, closing, req, segments,
                   gateway, world>>

\* Bound: no more threads at a time than Threads.
StartThread ==
    LET next == CHOOSE r \in Threads : ~Alive(r)
    IN  /\ pc[Main] = "thread"
        /\ \E r \in Threads : ~Alive(r)
        /\ pc' = [pc EXCEPT ![Main] = IF req.verb = "probe" THEN "look" ELSE "ok",
                            ![next] = "top"]
        /\ running' = TRUE
        /\ thread' = next
        /\ empty' = [empty EXCEPT ![next] = 0]
        /\ UNCHANGED <<refs, active, pipe, lost, frames, closing, req, segments, gateway, world>>

\* The user connects a stream; the gateway tells the reaper first (push_idle).
Connect(s, other) ==
    /\ Move(Main, "idle", "ensure")
    /\ refs[s] < MaxRefs
    /\ refs' = [refs EXCEPT ![s] = @ + 1]
    /\ req' = Request("connect", s, Held \cup {s}, other)
    /\ idle' = [t \in Idles |-> IF t = s THEN "watched" ELSE idle[t]]
    /\ UNCHANGED <<active, pipe, running, thread, lost, empty, frames, closing, segments, reads,
                   connected, world>>

\* The references that stay: a connect for each, unless all are dropped.
Left(s, all) == IF all \/ refs[s] = 0 THEN 0 ELSE refs[s] - 1

\* disconnect_stream(): the last one stops the pipeline and removes the segments.
Releases(verb, s, all) ==
    LET rest == {t \in Streams : IF t = s THEN Left(s, all) > 0 ELSE t \in Held}
    IN  /\ Move(Main, "idle", IF rest = {} THEN "stop" ELSE "ensure")
        /\ lost' = FALSE
        /\ refs' = [refs EXCEPT ![s] = Left(s, all)]
        /\ req' = Request(verb, s, rest, FALSE)
        /\ UNCHANGED <<active, pipe, running, thread, empty, frames, closing, segments, gateway, world>>

Disconnect(s) == s \in connected /\ Releases("disconnect", s, FALSE)

\* tick_daemon(): nobody has read the segment for the time that is set.
IdleStop(s) == idle[s] = "watched" /\ s \in file \ reads /\ Releases("idle", s, TRUE)

\* hardware_reset(): force_release, then the firmware starts again.
Reset ==
    /\ Move(Main, "idle", "stop")
    /\ refs' = [s \in Streams |-> 0]
    /\ req' = [NoReq EXCEPT !.verb = "reset"]
    /\ UNCHANGED <<active, pipe, running, thread, lost, empty, frames, closing, segments, gateway,
                   world>>

\* probe_stream(): all streams at once if nobody holds one and the bus allows it.
Probe(s) ==
    /\ Move(Main, "idle", "ensure")
    /\ Held = {} \/ s \in Held \/ ~Narrow
    /\ req' = Request("probe", s, active \cup (IF Held = {} /\ ~Narrow THEN Streams ELSE {s}), FALSE)
    /\ UNCHANGED <<device, empty, frames, closing, segments, gateway, world>>

\* The probe has its frame, or has waited long enough; extra streams are folded away.
ProbeLooked ==
    /\ Move(Main, "look", IF req.back THEN "stop" ELSE "ok")
    /\ req' = [req EXCEPT !.verb = "fold", !.want = Held, !.back = FALSE]
    /\ UNCHANGED <<device, empty, frames, closing, segments, gateway, world>>

\* The reply, and what the gateway makes of it (CameraInfo.connect, disconnect).
Reply ==
    /\ Move(Main, "ok", "idle")
    /\ lost' = (lost /\ req.verb # "connect")
    /\ connected' = CASE req.verb = "connect" -> connected \cup req.of
                      [] req.verb = "disconnect" -> connected \ req.of
                      [] OTHER -> connected
    /\ idle' = [s \in Idles |-> IF req.verb = "idle" /\ s \in req.of THEN "closed" ELSE idle[s]]
    /\ req' = NoReq
    /\ UNCHANGED <<refs, active, pipe, running, thread, empty, frames, closing, segments, reads, world>>

\* Faulty variant of ReplyFailed: only a connect expects that it can fail.
ReplyFailedConnect ==
    /\ Move(Main, "failed", "idle")
    /\ req.verb = "connect"
    /\ refs' = [s \in Streams |-> IF s \in req.of THEN refs[s] - 1 ELSE refs[s]]
    /\ connected' = connected \ req.of
    /\ req' = NoReq
    /\ UNCHANGED <<active, pipe, running, thread, lost, empty, frames, closing, segments, idle,
                   reads, world>>

\* A pipeline that does not start fails a connect and a probe, and nothing else.
ReplyFailed ==
    /\ pc[Main] = "failed"
    /\ IF req.verb = "connect"
       THEN /\ Go(Main, "idle")
            /\ refs' = [s \in Streams |-> IF s \in req.of THEN refs[s] - 1 ELSE refs[s]]
            /\ connected' = connected \ req.of
            /\ req' = NoReq
       ELSE /\ Go(Main, "ok")
            /\ UNCHANGED <<refs, connected, req>>
    /\ UNCHANGED <<active, pipe, running, thread, lost, empty, frames, closing, segments, idle,
                   reads, world>>

\* hub.scan() and what CameraManager.scan makes of it: seen again, or absent.
Scan ==
    /\ pc[Main] = "idle"
    /\ lost' = (lost /\ usb = "gone")
    /\ connected' = IF usb = "gone" THEN {} ELSE connected
    /\ UNCHANGED <<refs, active, pipe, running, thread, pc, empty, frames, closing, req, segments,
                   idle, reads, world>>

-----------------------------------------------------------------------------
(* The gateway's watch, the consumers, the camera *)

\* hub.lost(): the streams of the pipeline, or all that the camera has.
Reported == IF ~lost THEN {} ELSE IF active = {} THEN Streams ELSE active

\* device_watch.check(), every two seconds: idle stops first, then what is lost.
Watch ==
    /\ pc[Main] = "idle"
    /\ connected' = connected \ (Reported \cup {s \in Idles : idle[s] = "closed"})
    /\ UNCHANGED <<device, pc, empty, frames, closing, req, segments, idle, reads, world>>

\* A consumer opens a segment; only that of a stream with an idle time matters.
Attach(s) ==
    /\ s \in (connected \cap file) \ reads
    /\ reads' = reads \cup {s}
    /\ UNCHANGED <<device, pc, empty, frames, closing, req, segments, idle, connected, world>>

Detach(s) ==
    /\ s \in reads
    /\ reads' = reads \ {s}
    /\ UNCHANGED <<device, pc, empty, frames, closing, req, segments, idle, connected, world>>

Faulty(state) ==
    /\ usb = "ok" /\ faults < MaxFaults
    /\ usb' = state
    /\ faults' = faults + 1
    /\ UNCHANGED <<device, pc, empty, frames, closing, req, segments, gateway, hangs>>

Mended ==
    /\ usb # "ok"
    /\ usb' = "ok"
    /\ UNCHANGED <<device, pc, empty, frames, closing, req, segments, gateway, faults, hangs>>

-----------------------------------------------------------------------------

StopSteps(p) == StopBegin(p) \/ Close(p) \/ Drop(p) \/ Clear(p)

ThreadSteps(r) ==
    \/ ThreadEnds(r) \/ NodeGone(r) \/ AwaitFrames(r) \/ FramesArrive(r) \/ NoFrames(r)
    \/ Publish(r) \/ DeclareLost(r) \/ StopSteps(r)

\* What the serve loop does with a request it has taken.
Serves ==
    \/ Ensure \/ Opens \/ OpenFails \/ Activates \/ StartThread \/ ProbeLooked
    \/ Reply \/ ReplyFailed \/ StopSteps(Main)

Requests ==
    \/ \E s \in Streams :
        \/ \E other \in BOOLEAN : Connect(s, other)
        \/ Disconnect(s) \/ Probe(s)
    \/ Reset \/ Scan

Next ==
    \/ Requests \/ Serves \/ Watch \/ Mended
    \/ \E r \in Threads : ThreadSteps(r)
    \/ \E s \in Idles : IdleStop(s) \/ Attach(s) \/ Detach(s)
    \/ \E state \in {"mute", "gone"} : Faulty(state)

Spec == Init /\ [][Next]_vars

\* With a driver that does not come back in time.
HangingSpec == Init /\ [][Next \/ \E r \in Threads : Hang(r) \/ Wakes(r)]_vars

\* Threads and the serve loop run.
FairSpec ==
    /\ Spec
    /\ WF_vars(Serves)
    /\ \A r \in Threads : WF_vars(ThreadSteps(r))

-----------------------------------------------------------------------------
(* What must hold *)

\* The order that the comment of _stop_pipeline insists on: one thread at most
\* reads the camera, and while segments are closed by a request nobody can
\* publish, so that no frame brings one back.
NothingComesBack ==
    /\ \A r, q \in Threads : Looping(r) /\ Looping(q) => r = q
    /\ pc[Main] \in {"drop", "clear", "start", "opened", "thread"} => \A r \in Threads : ~Looping(r)

\* A pipeline that is open is read: a thread that declares the camera lost
\* takes it down with itself, whatever request runs beside it.
NoDeafPipeline == pipe /\ Quiet => \E r \in Threads : Looping(r) /\ thread = r

\* NothingComesBack and NoDeafPipeline: an open pipeline has one reader, a closed one none.
OneReader == NothingComesBack /\ NoDeafPipeline

\* A camera that left the bus, or that sends nothing, is given up, so that the
\* gateway can hear of it: by the thread, or by the request that comes between.
GoneIsGivenUp == usb # "ok" /\ pipe ~> usb = "ok" \/ ~pipe

\* The serve loop answers every request: it may wait for a read thread, and a
\* read thread for a newer one, but never the one for the other.
RequestEnds == pc[Main] # "idle" ~> pc[Main] = "idle"

-----------------------------------------------------------------------------
(* What does not hold *)

\* A stream that nobody holds is closed.
UnheldIsClosed == Quiet => \A s \in active : refs[s] > 0

\* The last release of a stream removes its segment.
ReleaseUnlinks ==
    [][pc[Main] = "clear" /\ req.verb \in {"disconnect", "idle"} /\ req.want = {}
        => req.of \cap file' = {}]_vars

\* A stream that the gateway holds for connected is open, or a loss is told.
ConnectedIsOpen == Quiet /\ ~lost => \A s \in connected \ active : s \in Idles /\ idle[s] = "closed"

\* Opening a second stream does not cost the first.
HeldStaysOpen == Quiet /\ ~lost => Held \subseteq active
=============================================================================
