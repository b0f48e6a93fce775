----------------------- MODULE RealSenseDeviceProofs -----------------------
(***************************************************************************)
(* Types of RealSenseDevice and OneReader, for any streams, any number of  *)
(* read threads and any bounds, as long as the driver answers (Spec).      *)
(*                                                                         *)
(* OneReader holds because a thread that may still publish is the one that *)
(* _thread refers to (ReaderIsCurrent), because whoever is about to close  *)
(* has joined that one (JoinsCurrent), and because nobody but the serve    *)
(* loop ever sets _thread, after it has taken it away (NobodyReads).       *)
(***************************************************************************)
EXTENDS RealSenseDevice, TLAPS

Verbs == {"none", "connect", "disconnect", "idle", "reset", "probe", "fold"}
RequestRec == [verb : Verbs, of : SUBSET Streams, want : SUBSET Streams,
               other : BOOLEAN, back : BOOLEAN]
StopRec == [of : SUBSET Streams, join : Threads \cup {NoOne}]

\* where a thread still has something to do with the pipeline
Reading(r) == pc[r] \in {"top", "wait", "publish"}
InCharge(r) == Reading(r) \/ pc[r] \in {"declare", "stop", "close"}
GivingUp(r) == pc[r] \in {"stop", "close", "drop"}

Stages == {"ended", "top", "wait", "publish", "declare", "idle", "ensure", "stop", "close",
           "drop", "clear", "start", "opened", "thread", "look", "ok", "failed"}

Flags == {pipe, running, lost} \subseteq BOOLEAN

Records ==
    /\ pc \in [Processes -> Stages]
    /\ closing \in [Processes -> StopRec] /\ req \in RequestRec

Places ==
    /\ \A r \in Threads : pc[r] \in {"ended", "top", "wait", "publish", "declare",
                                     "stop", "close", "drop", "clear"}
    /\ pc[Main] \in {"idle", "ensure", "stop", "close", "drop", "clear", "start",
                     "opened", "thread", "look", "ok", "failed"}
    /\ req = NoReq <=> pc[Main] = "idle"

Counts ==
    /\ refs \in [Streams -> 0 .. MaxRefs] /\ empty \in [Threads -> 0 .. MaxEmpty]
    /\ usb \in {"ok", "mute", "gone"} /\ faults \in 0 .. MaxFaults /\ hangs \in 0 .. MaxHangs

Sets ==
    /\ active \subseteq Streams /\ thread \in Threads \cup {NoOne}
    /\ frames \in [Threads -> SUBSET Streams]
    /\ {file, pub, reads, connected} \subseteq SUBSET Streams /\ reads \subseteq file
    /\ idle \in [Idles -> {"off", "watched", "closed"}]

\* a connect in progress has counted itself
ConnectCounts == req.verb = "connect" => \A s \in req.of : refs[s] > 0
\* a thread that has missed too many frames declares the camera lost at once
MissedFew == \A r \in Threads : Reading(r) => empty[r] < MaxEmpty
TypeInv == Flags /\ Records /\ Places /\ Counts /\ Sets /\ ConnectCounts /\ MissedFew

ReaderIsCurrent == \A r \in Threads : InCharge(r) => thread = r

JoinsCurrent ==
    pc[Main] = "close" /\ thread \in Threads /\ pc[thread] # "ended"
        => closing[Main].join = thread

NobodyReads ==
    pc[Main] \in {"drop", "clear", "start", "opened", "thread"} => thread = NoOne

\* an open pipeline that nobody reads any more is about to be closed
ClosesSoon ==
    pipe /\ ~running =>
        \/ pc[Main] \in {"close", "drop", "opened", "thread"}
        \/ \E r \in Threads : GivingUp(r)

\* an open pipeline has a thread, or its thread is just coming or going
PipeIsServed ==
    pipe => \/ pc[Main] \in {"close", "drop", "opened", "thread"}
            \/ \E r \in Threads : InCharge(r) \/ pc[r] = "drop"

ReaderInv == ReaderIsCurrent /\ JoinsCurrent /\ NobodyReads /\ ClosesSoon /\ PipeIsServed

-----------------------------------------------------------------------------
(* Types *)

LEMMA Names ==
    /\ Main \in Processes /\ Main \notin Threads /\ NoOne \notin Threads
    /\ Processes = Threads \cup {Main}
  BY DeviceAssumption DEF Processes

LEMMA Nothing == NoReq \in RequestRec /\ NoStop \in StopRec /\ NoReq.verb = "none" /\ NoReq.of = {}
  BY Zenon DEF NoReq, RequestRec, Verbs, NoStop, StopRec

LEMMA Asked ==
    ASSUME NEW verb \in Verbs \ {"none"}, NEW s \in Streams, NEW want \in SUBSET Streams,
           NEW other \in BOOLEAN
    PROVE  LET q == Request(verb, s, want, other)
           IN  q \in RequestRec /\ q.verb = verb /\ q.of = {s} /\ q # NoReq
<1> DEFINE q == Request(verb, s, want, other)
<1>1. q \in RequestRec /\ q.verb = verb /\ q.of = {s}
  BY Zenon DEF Request, RequestRec
<1>. QED
  BY <1>1, Nothing

LEMMA ConnectAsks ==
    ASSUME NEW s \in Streams, NEW other \in BOOLEAN, Connect(s, other)
    PROVE  req' \in RequestRec /\ req'.verb = "connect" /\ req'.of = {s} /\ req' # NoReq
<1>1. req' = Request("connect", s, Held \cup {s}, other)
  BY DEF Connect
<1>2. Held \cup {s} \in SUBSET Streams /\ "connect" \in Verbs \ {"none"}
  BY DEF Held, Verbs
<1>. QED
  BY <1>1, <1>2, Asked

LEMMA ReleaseAsks ==
    ASSUME NEW s \in Streams, NEW verb \in {"disconnect", "idle"}, NEW all \in BOOLEAN,
           Releases(verb, s, all)
    PROVE  req' \in RequestRec /\ req'.verb = verb /\ req'.of = {s} /\ req' # NoReq
<1> DEFINE rest == {t \in Streams : IF t = s THEN Left(s, all) > 0 ELSE t \in Held}
<1>1. req' = Request(verb, s, rest, FALSE)
  BY Zenon DEF Releases
<1>2. rest \in SUBSET Streams /\ verb \in Verbs \ {"none"} /\ FALSE \in BOOLEAN
  BY DEF Verbs
<1>. HIDE DEF rest
<1>3. LET q == Request(verb, s, rest, FALSE)
      IN  q \in RequestRec /\ q.verb = verb /\ q.of = {s} /\ q # NoReq
  BY <1>2, Asked
<1>. QED
  BY <1>1, <1>3

LEMMA ProbeAsks ==
    ASSUME active \subseteq Streams, NEW s \in Streams, Probe(s)
    PROVE  req' \in RequestRec /\ req'.verb = "probe" /\ req'.of = {s} /\ req' # NoReq
<1> DEFINE want == active \cup (IF Held = {} /\ ~Narrow THEN Streams ELSE {s})
<1>1. req' = Request("probe", s, want, FALSE)
  BY Zenon DEF Probe
<1>2. want \in SUBSET Streams /\ "probe" \in Verbs \ {"none"} /\ FALSE \in BOOLEAN
  BY DEF Verbs
<1>. HIDE DEF want
<1>3. LET q == Request("probe", s, want, FALSE)
      IN  q \in RequestRec /\ q.verb = "probe" /\ q.of = {s} /\ q # NoReq
  BY <1>2, Asked
<1>. QED
  BY <1>1, <1>3

LEMMA AskedToReset ==
    LET q == [NoReq EXCEPT !.verb = "reset"]
    IN  q \in RequestRec /\ q.verb = "reset" /\ q # NoReq
<1> DEFINE q == [NoReq EXCEPT !.verb = "reset"]
<1>1. q \in RequestRec /\ q.verb = "reset"
  BY Zenon DEF NoReq, RequestRec, Verbs
<1>. QED
  BY <1>1, Nothing

LEMMA Folded ==
    ASSUME NEW q0 \in RequestRec
    PROVE  LET q == [q0 EXCEPT !.verb = "fold", !.want = Held, !.back = FALSE]
           IN  q \in RequestRec /\ q.verb = "fold" /\ q # NoReq
<1> DEFINE q == [q0 EXCEPT !.verb = "fold", !.want = Held, !.back = FALSE]
<1>1. q \in RequestRec /\ q.verb = "fold"
  BY Zenon DEF RequestRec, Verbs, Held
<1>. QED
  BY <1>1, Nothing

LEMMA Closes ==
    ASSUME Records, Sets, NEW p \in Processes, NEW join \in Threads \cup {NoOne}
    PROVE  [closing EXCEPT ![p].of = active, ![p].join = join] \in [Processes -> StopRec]
  BY Zenon DEF Records, Sets, StopRec

LEMMA NextCases ==
    ASSUME [Next]_vars
    PROVE  \/ \E s \in Streams, other \in BOOLEAN : Connect(s, other)
           \/ \E s \in Streams, verb \in {"disconnect", "idle"}, all \in BOOLEAN : Releases(verb, s, all)
           \/ \E s \in Streams : Probe(s)
           \/ Reset \/ Scan \/ Ensure \/ Opens \/ OpenFails \/ Activates \/ StartThread
           \/ ProbeLooked \/ Reply \/ ReplyFailed
           \/ \E p \in Processes : StopBegin(p) \/ Close(p) \/ Drop(p) \/ Clear(p)
           \/ Watch \/ Mended
           \/ \E r \in Threads :
                 \/ ThreadEnds(r) \/ NodeGone(r) \/ AwaitFrames(r) \/ FramesArrive(r)
                 \/ NoFrames(r) \/ Publish(r) \/ DeclareLost(r)
           \/ \E s \in Idles : Attach(s) \/ Detach(s)
           \/ \E state \in {"mute", "gone"} : Faulty(state)
           \/ UNCHANGED vars
  BY DeviceAssumption, Names, Zenon
  DEF Next, Requests, Serves, ThreadSteps, StopSteps, Disconnect, IdleStop

LEMMA ReqFields ==
    ASSUME NEW q \in RequestRec
    PROVE  /\ q.verb \in Verbs /\ q.of \in SUBSET Streams /\ q.want \in SUBSET Streams
           /\ q.other \in BOOLEAN /\ q.back \in BOOLEAN
  BY Zenon DEF RequestRec

LEMMA FlagsStep == ASSUME TypeInv, [Next]_vars PROVE Flags'
<1> USE DEF TypeInv, Flags, device, segments, gateway, world
<1>1. ASSUME NEW s \in Streams, NEW other \in BOOLEAN, Connect(s, other) PROVE Flags'
  BY <1>1, Zenon DEF Connect
<1>2. ASSUME NEW s \in Streams, NEW verb \in {"disconnect", "idle"}, NEW all \in BOOLEAN,
           Releases(verb, s, all) PROVE Flags'
  BY <1>2, Zenon DEF Releases
<1>3. ASSUME NEW s \in Streams, Probe(s) PROVE Flags'
  BY <1>3, Zenon DEF Probe
<1>4. ASSUME Reset PROVE Flags'
  BY <1>4, Zenon DEF Reset
<1>5. ASSUME Scan PROVE Flags'
  BY <1>5, Zenon DEF Scan
<1>6. ASSUME Ensure PROVE Flags'
  BY <1>6, Zenon DEF Ensure
<1>7. ASSUME Opens PROVE Flags'
  BY <1>7, Zenon DEF Opens
<1>8. ASSUME OpenFails PROVE Flags'
  BY <1>8, Zenon DEF OpenFails
<1>9. ASSUME Activates PROVE Flags'
  BY <1>9, Zenon DEF Activates
<1>10. ASSUME StartThread PROVE Flags'
  BY <1>10, Zenon DEF StartThread
<1>11. ASSUME ProbeLooked PROVE Flags'
  BY <1>11, Zenon DEF ProbeLooked
<1>12. ASSUME Reply PROVE Flags'
  BY <1>12, Zenon DEF Reply
<1>13. ASSUME ReplyFailed PROVE Flags'
  BY <1>13, Zenon DEF ReplyFailed
<1>14. ASSUME NEW p \in Processes, StopBegin(p) PROVE Flags'
  BY <1>14, Zenon DEF StopBegin
<1>15. ASSUME NEW p \in Processes, Close(p) PROVE Flags'
  BY <1>15, Zenon DEF Close
<1>16. ASSUME NEW p \in Processes, Drop(p) PROVE Flags'
  BY <1>16, Zenon DEF Drop
<1>17. ASSUME NEW p \in Processes, Clear(p) PROVE Flags'
  BY <1>17, Zenon DEF Clear
<1>18. ASSUME Watch PROVE Flags'
  BY <1>18, Zenon DEF Watch
<1>19. ASSUME Mended PROVE Flags'
  BY <1>19, Zenon DEF Mended
<1>20. ASSUME NEW r \in Threads, ThreadEnds(r) PROVE Flags'
  BY <1>20, Zenon DEF ThreadEnds
<1>21. ASSUME NEW r \in Threads, NodeGone(r) PROVE Flags'
  BY <1>21, Zenon DEF NodeGone
<1>22. ASSUME NEW r \in Threads, AwaitFrames(r) PROVE Flags'
  BY <1>22, Zenon DEF AwaitFrames
<1>23. ASSUME NEW r \in Threads, FramesArrive(r) PROVE Flags'
  BY <1>23, Zenon DEF FramesArrive
<1>24. ASSUME NEW r \in Threads, NoFrames(r) PROVE Flags'
  BY <1>24, Zenon DEF NoFrames
<1>25. ASSUME NEW r \in Threads, Publish(r) PROVE Flags'
  BY <1>25, Zenon DEF Publish
<1>26. ASSUME NEW r \in Threads, DeclareLost(r) PROVE Flags'
  BY <1>26, Zenon DEF DeclareLost
<1>27. ASSUME NEW s \in Idles, Attach(s) PROVE Flags'
  BY <1>27, Zenon DEF Attach
<1>28. ASSUME NEW s \in Idles, Detach(s) PROVE Flags'
  BY <1>28, Zenon DEF Detach
<1>29. ASSUME NEW state \in {"mute", "gone"}, Faulty(state) PROVE Flags'
  BY <1>29, Zenon DEF Faulty
<1>30. CASE UNCHANGED vars
  BY <1>30, Zenon DEF vars
<1>. QED
  BY NextCases, <1>1, <1>2, <1>3, <1>4, <1>5, <1>6, <1>7, <1>8, <1>9, <1>10, <1>11, <1>12, <1>13, <1>14, <1>15,
     <1>16, <1>17, <1>18, <1>19, <1>20, <1>21, <1>22, <1>23, <1>24, <1>25, <1>26, <1>27, <1>28, <1>29, <1>30

LEMMA PcStep == ASSUME TypeInv, [Next]_vars PROVE pc' \in [Processes -> Stages]
<1> USE Names DEF TypeInv, Records, Stages, Move, Go
<1>1. ASSUME NEW s \in Streams, NEW other \in BOOLEAN, Connect(s, other) PROVE pc' \in [Processes -> Stages]
  BY <1>1 DEF Connect
<1>2. ASSUME NEW s \in Streams, NEW verb \in {"disconnect", "idle"}, NEW all \in BOOLEAN,
           Releases(verb, s, all) PROVE pc' \in [Processes -> Stages]
  BY <1>2 DEF Releases
<1>3. ASSUME NEW s \in Streams, Probe(s) PROVE pc' \in [Processes -> Stages]
  BY <1>3 DEF Probe
<1>4. ASSUME Reset PROVE pc' \in [Processes -> Stages]
  BY <1>4 DEF Reset
<1>5. ASSUME Scan PROVE pc' \in [Processes -> Stages]
  BY <1>5 DEF Scan
<1>6. ASSUME Ensure PROVE pc' \in [Processes -> Stages]
  BY <1>6 DEF Ensure
<1>7. ASSUME Opens PROVE pc' \in [Processes -> Stages]
  BY <1>7 DEF Opens
<1>8. ASSUME OpenFails PROVE pc' \in [Processes -> Stages]
  BY <1>8 DEF OpenFails
<1>9. ASSUME Activates PROVE pc' \in [Processes -> Stages]
  BY <1>9 DEF Activates
<1>10. ASSUME StartThread PROVE pc' \in [Processes -> Stages]
  BY <1>10 DEF StartThread
<1>11. ASSUME ProbeLooked PROVE pc' \in [Processes -> Stages]
  BY <1>11 DEF ProbeLooked
<1>12. ASSUME Reply PROVE pc' \in [Processes -> Stages]
  BY <1>12 DEF Reply
<1>13. ASSUME ReplyFailed PROVE pc' \in [Processes -> Stages]
  BY <1>13 DEF ReplyFailed
<1>14. ASSUME NEW p \in Processes, StopBegin(p) PROVE pc' \in [Processes -> Stages]
  BY <1>14 DEF StopBegin
<1>15. ASSUME NEW p \in Processes, Close(p) PROVE pc' \in [Processes -> Stages]
  BY <1>15 DEF Close
<1>16. ASSUME NEW p \in Processes, Drop(p) PROVE pc' \in [Processes -> Stages]
  BY <1>16 DEF Drop
<1>17. ASSUME NEW p \in Processes, Clear(p) PROVE pc' \in [Processes -> Stages]
  BY <1>17 DEF Clear, AfterStop
<1>18. ASSUME Watch PROVE pc' \in [Processes -> Stages]
  BY <1>18 DEF Watch
<1>19. ASSUME Mended PROVE pc' \in [Processes -> Stages]
  BY <1>19 DEF Mended
<1>20. ASSUME NEW r \in Threads, ThreadEnds(r) PROVE pc' \in [Processes -> Stages]
  BY <1>20 DEF ThreadEnds
<1>21. ASSUME NEW r \in Threads, NodeGone(r) PROVE pc' \in [Processes -> Stages]
  BY <1>21 DEF NodeGone
<1>22. ASSUME NEW r \in Threads, AwaitFrames(r) PROVE pc' \in [Processes -> Stages]
  BY <1>22 DEF AwaitFrames
<1>23. ASSUME NEW r \in Threads, FramesArrive(r) PROVE pc' \in [Processes -> Stages]
  BY <1>23 DEF FramesArrive
<1>24. ASSUME NEW r \in Threads, NoFrames(r) PROVE pc' \in [Processes -> Stages]
  BY <1>24 DEF NoFrames
<1>25. ASSUME NEW r \in Threads, Publish(r) PROVE pc' \in [Processes -> Stages]
  BY <1>25 DEF Publish
<1>26. ASSUME NEW r \in Threads, DeclareLost(r) PROVE pc' \in [Processes -> Stages]
  BY <1>26 DEF DeclareLost
<1>27. ASSUME NEW s \in Idles, Attach(s) PROVE pc' \in [Processes -> Stages]
  BY <1>27 DEF Attach
<1>28. ASSUME NEW s \in Idles, Detach(s) PROVE pc' \in [Processes -> Stages]
  BY <1>28 DEF Detach
<1>29. ASSUME NEW state \in {"mute", "gone"}, Faulty(state) PROVE pc' \in [Processes -> Stages]
  BY <1>29 DEF Faulty
<1>30. CASE UNCHANGED vars
  BY <1>30 DEF vars
<1>. QED
  BY NextCases, <1>1, <1>2, <1>3, <1>4, <1>5, <1>6, <1>7, <1>8, <1>9, <1>10, <1>11, <1>12, <1>13, <1>14, <1>15,
     <1>16, <1>17, <1>18, <1>19, <1>20, <1>21, <1>22, <1>23, <1>24, <1>25, <1>26, <1>27, <1>28, <1>29, <1>30

LEMMA CountsStep == ASSUME TypeInv, [Next]_vars PROVE Counts' /\ ConnectCounts' /\ MissedFew'
<1> USE Names, DeviceAssumption, Nothing, ReqFields
    DEF TypeInv, Records, Counts, ConnectCounts, MissedFew, Reading, Move, Go, device, segments, gateway, world, Verbs
<1>1. ASSUME NEW s \in Streams, NEW other \in BOOLEAN, Connect(s, other) PROVE Counts' /\ ConnectCounts' /\ MissedFew'
  <2>1. refs' = [refs EXCEPT ![s] = @ + 1] /\ refs[s] < MaxRefs
    BY <1>1 DEF Connect
  <2>2. refs' \in [Streams -> 0 .. MaxRefs] /\ refs'[s] > 0
    BY <2>1
  <2>3. Counts'
    BY <1>1, <2>2 DEF Connect
  <2>4. ConnectCounts'
    BY <1>1, <2>2, ConnectAsks
  <2>5. MissedFew'
    BY <1>1 DEF Connect
  <2>. QED
    BY <2>3, <2>4, <2>5
<1>2. ASSUME NEW s \in Streams, NEW verb \in {"disconnect", "idle"}, NEW all \in BOOLEAN,
           Releases(verb, s, all) PROVE Counts' /\ ConnectCounts' /\ MissedFew'
  <2>1. refs' = [refs EXCEPT ![s] = Left(s, all)] /\ Left(s, all) \in 0 .. MaxRefs
    BY <1>2 DEF Releases, Left
  <2>2. refs' \in [Streams -> 0 .. MaxRefs]
    BY <2>1
  <2>3. Counts'
    BY <1>2, <2>2 DEF Releases
  <2>4. ConnectCounts'
    BY <1>2, ReleaseAsks
  <2>5. MissedFew'
    BY <1>2 DEF Releases
  <2>. QED
    BY <2>3, <2>4, <2>5
<1>3. ASSUME NEW s \in Streams, Probe(s) PROVE Counts' /\ ConnectCounts' /\ MissedFew'
  BY <1>3, ProbeAsks DEF Probe, Sets
<1>4. ASSUME Reset PROVE Counts' /\ ConnectCounts' /\ MissedFew'
  BY <1>4 DEF Reset
<1>5. ASSUME Scan PROVE Counts' /\ ConnectCounts' /\ MissedFew'
  BY <1>5 DEF Scan
<1>6. ASSUME Ensure PROVE Counts' /\ ConnectCounts' /\ MissedFew'
  BY <1>6 DEF Ensure
<1>7. ASSUME Opens PROVE Counts' /\ ConnectCounts' /\ MissedFew'
  BY <1>7 DEF Opens
<1>8. ASSUME OpenFails PROVE Counts' /\ ConnectCounts' /\ MissedFew'
  BY <1>8 DEF OpenFails
<1>9. ASSUME Activates PROVE Counts' /\ ConnectCounts' /\ MissedFew'
  BY <1>9 DEF Activates
<1>10. ASSUME StartThread PROVE Counts' /\ ConnectCounts' /\ MissedFew'
  BY <1>10 DEF StartThread
<1>11. ASSUME ProbeLooked PROVE Counts' /\ ConnectCounts' /\ MissedFew'
  BY <1>11 DEF ProbeLooked
<1>12. ASSUME Reply PROVE Counts' /\ ConnectCounts' /\ MissedFew'
  BY <1>12 DEF Reply
<1>13. ASSUME ReplyFailed PROVE Counts' /\ ConnectCounts' /\ MissedFew'
  BY <1>13 DEF ReplyFailed
<1>14. ASSUME NEW p \in Processes, StopBegin(p) PROVE Counts' /\ ConnectCounts' /\ MissedFew'
  BY <1>14 DEF StopBegin
<1>15. ASSUME NEW p \in Processes, Close(p) PROVE Counts' /\ ConnectCounts' /\ MissedFew'
  BY <1>15 DEF Close
<1>16. ASSUME NEW p \in Processes, Drop(p) PROVE Counts' /\ ConnectCounts' /\ MissedFew'
  BY <1>16 DEF Drop
<1>17. ASSUME NEW p \in Processes, Clear(p) PROVE Counts' /\ ConnectCounts' /\ MissedFew'
  BY <1>17 DEF Clear
<1>18. ASSUME Watch PROVE Counts' /\ ConnectCounts' /\ MissedFew'
  BY <1>18 DEF Watch
<1>19. ASSUME Mended PROVE Counts' /\ ConnectCounts' /\ MissedFew'
  BY <1>19 DEF Mended
<1>20. ASSUME NEW r \in Threads, ThreadEnds(r) PROVE Counts' /\ ConnectCounts' /\ MissedFew'
  BY <1>20 DEF ThreadEnds
<1>21. ASSUME NEW r \in Threads, NodeGone(r) PROVE Counts' /\ ConnectCounts' /\ MissedFew'
  BY <1>21 DEF NodeGone
<1>22. ASSUME NEW r \in Threads, AwaitFrames(r) PROVE Counts' /\ ConnectCounts' /\ MissedFew'
  BY <1>22 DEF AwaitFrames
<1>23. ASSUME NEW r \in Threads, FramesArrive(r) PROVE Counts' /\ ConnectCounts' /\ MissedFew'
  BY <1>23 DEF FramesArrive
<1>24. ASSUME NEW r \in Threads, NoFrames(r) PROVE Counts' /\ ConnectCounts' /\ MissedFew'
  BY <1>24 DEF NoFrames, Missed
<1>25. ASSUME NEW r \in Threads, Publish(r) PROVE Counts' /\ ConnectCounts' /\ MissedFew'
  BY <1>25 DEF Publish
<1>26. ASSUME NEW r \in Threads, DeclareLost(r) PROVE Counts' /\ ConnectCounts' /\ MissedFew'
  BY <1>26 DEF DeclareLost
<1>27. ASSUME NEW s \in Idles, Attach(s) PROVE Counts' /\ ConnectCounts' /\ MissedFew'
  BY <1>27 DEF Attach
<1>28. ASSUME NEW s \in Idles, Detach(s) PROVE Counts' /\ ConnectCounts' /\ MissedFew'
  BY <1>28 DEF Detach
<1>29. ASSUME NEW state \in {"mute", "gone"}, Faulty(state) PROVE Counts' /\ ConnectCounts' /\ MissedFew'
  BY <1>29 DEF Faulty
<1>30. CASE UNCHANGED vars
  BY <1>30 DEF vars
<1>. QED
  BY NextCases, <1>1, <1>2, <1>3, <1>4, <1>5, <1>6, <1>7, <1>8, <1>9, <1>10, <1>11, <1>12, <1>13, <1>14, <1>15,
     <1>16, <1>17, <1>18, <1>19, <1>20, <1>21, <1>22, <1>23, <1>24, <1>25, <1>26, <1>27, <1>28, <1>29, <1>30

LEMMA SetsStep == ASSUME TypeInv, [Next]_vars PROVE Sets'
<1> USE DeviceAssumption, ReqFields DEF TypeInv, Records, Sets, device, segments, gateway, world
<1>1. ASSUME NEW s \in Streams, NEW other \in BOOLEAN, Connect(s, other) PROVE Sets'
  BY <1>1 DEF Connect
<1>2. ASSUME NEW s \in Streams, NEW verb \in {"disconnect", "idle"}, NEW all \in BOOLEAN,
           Releases(verb, s, all) PROVE Sets'
  BY <1>2 DEF Releases
<1>3. ASSUME NEW s \in Streams, Probe(s) PROVE Sets'
  BY <1>3 DEF Probe
<1>4. ASSUME Reset PROVE Sets'
  BY <1>4 DEF Reset
<1>5. ASSUME Scan PROVE Sets'
  BY <1>5 DEF Scan
<1>6. ASSUME Ensure PROVE Sets'
  BY <1>6 DEF Ensure
<1>7. ASSUME Opens PROVE Sets'
  BY <1>7 DEF Opens
<1>8. ASSUME OpenFails PROVE Sets'
  BY <1>8 DEF OpenFails
<1>9. ASSUME Activates PROVE Sets'
  BY <1>9 DEF Activates
<1>10. ASSUME StartThread PROVE Sets'
  BY <1>10 DEF StartThread
<1>11. ASSUME ProbeLooked PROVE Sets'
  BY <1>11 DEF ProbeLooked
<1>12. ASSUME Reply PROVE Sets'
  BY <1>12 DEF Reply
<1>13. ASSUME ReplyFailed PROVE Sets'
  BY <1>13 DEF ReplyFailed
<1>14. ASSUME NEW p \in Processes, StopBegin(p) PROVE Sets'
  BY <1>14 DEF StopBegin
<1>15. ASSUME NEW p \in Processes, Close(p) PROVE Sets'
  BY <1>15 DEF Close
<1>16. ASSUME NEW p \in Processes, Drop(p) PROVE Sets'
  BY <1>16 DEF Drop
<1>17. ASSUME NEW p \in Processes, Clear(p) PROVE Sets'
  BY <1>17 DEF Clear
<1>18. ASSUME Watch PROVE Sets'
  BY <1>18 DEF Watch
<1>19. ASSUME Mended PROVE Sets'
  BY <1>19 DEF Mended
<1>20. ASSUME NEW r \in Threads, ThreadEnds(r) PROVE Sets'
  BY <1>20 DEF ThreadEnds
<1>21. ASSUME NEW r \in Threads, NodeGone(r) PROVE Sets'
  BY <1>21 DEF NodeGone
<1>22. ASSUME NEW r \in Threads, AwaitFrames(r) PROVE Sets'
  BY <1>22 DEF AwaitFrames
<1>23. ASSUME NEW r \in Threads, FramesArrive(r) PROVE Sets'
  BY <1>23 DEF FramesArrive
<1>24. ASSUME NEW r \in Threads, NoFrames(r) PROVE Sets'
  BY <1>24 DEF NoFrames
<1>25. ASSUME NEW r \in Threads, Publish(r) PROVE Sets'
  BY <1>25 DEF Publish
<1>26. ASSUME NEW r \in Threads, DeclareLost(r) PROVE Sets'
  BY <1>26 DEF DeclareLost
<1>27. ASSUME NEW s \in Idles, Attach(s) PROVE Sets'
  BY <1>27 DEF Attach
<1>28. ASSUME NEW s \in Idles, Detach(s) PROVE Sets'
  BY <1>28 DEF Detach
<1>29. ASSUME NEW state \in {"mute", "gone"}, Faulty(state) PROVE Sets'
  BY <1>29 DEF Faulty
<1>30. CASE UNCHANGED vars
  BY <1>30 DEF vars
<1>. QED
  BY NextCases, <1>1, <1>2, <1>3, <1>4, <1>5, <1>6, <1>7, <1>8, <1>9, <1>10, <1>11, <1>12, <1>13, <1>14, <1>15,
     <1>16, <1>17, <1>18, <1>19, <1>20, <1>21, <1>22, <1>23, <1>24, <1>25, <1>26, <1>27, <1>28, <1>29, <1>30

LEMMA PlacesStep == ASSUME TypeInv, [Next]_vars PROVE Places'
<1> USE Names, Nothing, AskedToReset, Folded
    DEF TypeInv, Records, Places, Move, Go, Verbs
<1>1. ASSUME NEW s \in Streams, NEW other \in BOOLEAN, Connect(s, other) PROVE Places'
  BY <1>1, ConnectAsks DEF Connect
<1>2. ASSUME NEW s \in Streams, NEW verb \in {"disconnect", "idle"}, NEW all \in BOOLEAN,
           Releases(verb, s, all) PROVE Places'
  BY <1>2, ReleaseAsks DEF Releases
<1>3. ASSUME NEW s \in Streams, Probe(s) PROVE Places'
  BY <1>3, ProbeAsks DEF Probe, Sets
<1>4. ASSUME Reset PROVE Places'
  BY <1>4 DEF Reset
<1>5. ASSUME Scan PROVE Places'
  BY <1>5 DEF Scan
<1>6. ASSUME Ensure PROVE Places'
  BY <1>6 DEF Ensure
<1>7. ASSUME Opens PROVE Places'
  BY <1>7 DEF Opens
<1>8. ASSUME OpenFails PROVE Places'
  BY <1>8 DEF OpenFails
<1>9. ASSUME Activates PROVE Places'
  BY <1>9 DEF Activates
<1>10. ASSUME StartThread PROVE Places'
  BY <1>10 DEF StartThread
<1>11. ASSUME ProbeLooked PROVE Places'
  BY <1>11 DEF ProbeLooked
<1>12. ASSUME Reply PROVE Places'
  BY <1>12 DEF Reply
<1>13. ASSUME ReplyFailed PROVE Places'
  BY <1>13 DEF ReplyFailed
<1>14. ASSUME NEW p \in Processes, StopBegin(p) PROVE Places'
  BY <1>14 DEF StopBegin
<1>15. ASSUME NEW p \in Processes, Close(p) PROVE Places'
  BY <1>15 DEF Close
<1>16. ASSUME NEW p \in Processes, Drop(p) PROVE Places'
  BY <1>16 DEF Drop
<1>17. ASSUME NEW p \in Processes, Clear(p) PROVE Places'
  BY <1>17 DEF Clear, AfterStop
<1>18. ASSUME Watch PROVE Places'
  BY <1>18 DEF Watch
<1>19. ASSUME Mended PROVE Places'
  BY <1>19 DEF Mended
<1>20. ASSUME NEW r \in Threads, ThreadEnds(r) PROVE Places'
  BY <1>20 DEF ThreadEnds
<1>21. ASSUME NEW r \in Threads, NodeGone(r) PROVE Places'
  BY <1>21 DEF NodeGone
<1>22. ASSUME NEW r \in Threads, AwaitFrames(r) PROVE Places'
  BY <1>22 DEF AwaitFrames
<1>23. ASSUME NEW r \in Threads, FramesArrive(r) PROVE Places'
  BY <1>23 DEF FramesArrive
<1>24. ASSUME NEW r \in Threads, NoFrames(r) PROVE Places'
  BY <1>24 DEF NoFrames, Missed
<1>25. ASSUME NEW r \in Threads, Publish(r) PROVE Places'
  BY <1>25 DEF Publish
<1>26. ASSUME NEW r \in Threads, DeclareLost(r) PROVE Places'
  BY <1>26 DEF DeclareLost
<1>27. ASSUME NEW s \in Idles, Attach(s) PROVE Places'
  BY <1>27 DEF Attach
<1>28. ASSUME NEW s \in Idles, Detach(s) PROVE Places'
  BY <1>28 DEF Detach
<1>29. ASSUME NEW state \in {"mute", "gone"}, Faulty(state) PROVE Places'
  BY <1>29 DEF Faulty
<1>30. CASE UNCHANGED vars
  BY <1>30 DEF vars
<1>. QED
  BY NextCases, <1>1, <1>2, <1>3, <1>4, <1>5, <1>6, <1>7, <1>8, <1>9, <1>10, <1>11, <1>12, <1>13, <1>14, <1>15,
     <1>16, <1>17, <1>18, <1>19, <1>20, <1>21, <1>22, <1>23, <1>24, <1>25, <1>26, <1>27, <1>28, <1>29, <1>30

LEMMA RecordsStep == ASSUME TypeInv, [Next]_vars PROVE req' \in RequestRec /\ closing' \in [Processes -> StopRec]
<1> USE Nothing, AskedToReset, Folded, Closes DEF TypeInv, Records, Verbs, Held, Joins, device, segments, gateway, world
<1>1. ASSUME NEW s \in Streams, NEW other \in BOOLEAN, Connect(s, other) PROVE req' \in RequestRec /\ closing' \in [Processes -> StopRec]
  BY <1>1, ConnectAsks DEF Connect
<1>2. ASSUME NEW s \in Streams, NEW verb \in {"disconnect", "idle"}, NEW all \in BOOLEAN,
           Releases(verb, s, all) PROVE req' \in RequestRec /\ closing' \in [Processes -> StopRec]
  BY <1>2, ReleaseAsks DEF Releases
<1>3. ASSUME NEW s \in Streams, Probe(s) PROVE req' \in RequestRec /\ closing' \in [Processes -> StopRec]
  BY <1>3, ProbeAsks DEF Probe, Sets
<1>4. ASSUME Reset PROVE req' \in RequestRec /\ closing' \in [Processes -> StopRec]
  BY <1>4 DEF Reset
<1>5. ASSUME Scan PROVE req' \in RequestRec /\ closing' \in [Processes -> StopRec]
  BY <1>5 DEF Scan
<1>6. ASSUME Ensure PROVE req' \in RequestRec /\ closing' \in [Processes -> StopRec]
  BY <1>6 DEF Ensure
<1>7. ASSUME Opens PROVE req' \in RequestRec /\ closing' \in [Processes -> StopRec]
  BY <1>7 DEF Opens
<1>8. ASSUME OpenFails PROVE req' \in RequestRec /\ closing' \in [Processes -> StopRec]
  BY <1>8 DEF OpenFails
<1>9. ASSUME Activates PROVE req' \in RequestRec /\ closing' \in [Processes -> StopRec]
  BY <1>9 DEF Activates
<1>10. ASSUME StartThread PROVE req' \in RequestRec /\ closing' \in [Processes -> StopRec]
  BY <1>10 DEF StartThread
<1>11. ASSUME ProbeLooked PROVE req' \in RequestRec /\ closing' \in [Processes -> StopRec]
  BY <1>11 DEF ProbeLooked
<1>12. ASSUME Reply PROVE req' \in RequestRec /\ closing' \in [Processes -> StopRec]
  BY <1>12 DEF Reply
<1>13. ASSUME ReplyFailed PROVE req' \in RequestRec /\ closing' \in [Processes -> StopRec]
  BY <1>13 DEF ReplyFailed
<1>14. ASSUME NEW p \in Processes, StopBegin(p) PROVE req' \in RequestRec /\ closing' \in [Processes -> StopRec]
  BY <1>14 DEF StopBegin
<1>15. ASSUME NEW p \in Processes, Close(p) PROVE req' \in RequestRec /\ closing' \in [Processes -> StopRec]
  BY <1>15 DEF Close
<1>16. ASSUME NEW p \in Processes, Drop(p) PROVE req' \in RequestRec /\ closing' \in [Processes -> StopRec]
  BY <1>16 DEF Drop
<1>17. ASSUME NEW p \in Processes, Clear(p) PROVE req' \in RequestRec /\ closing' \in [Processes -> StopRec]
  BY <1>17 DEF Clear
<1>18. ASSUME Watch PROVE req' \in RequestRec /\ closing' \in [Processes -> StopRec]
  BY <1>18 DEF Watch
<1>19. ASSUME Mended PROVE req' \in RequestRec /\ closing' \in [Processes -> StopRec]
  BY <1>19 DEF Mended
<1>20. ASSUME NEW r \in Threads, ThreadEnds(r) PROVE req' \in RequestRec /\ closing' \in [Processes -> StopRec]
  BY <1>20 DEF ThreadEnds
<1>21. ASSUME NEW r \in Threads, NodeGone(r) PROVE req' \in RequestRec /\ closing' \in [Processes -> StopRec]
  BY <1>21 DEF NodeGone
<1>22. ASSUME NEW r \in Threads, AwaitFrames(r) PROVE req' \in RequestRec /\ closing' \in [Processes -> StopRec]
  BY <1>22 DEF AwaitFrames
<1>23. ASSUME NEW r \in Threads, FramesArrive(r) PROVE req' \in RequestRec /\ closing' \in [Processes -> StopRec]
  BY <1>23 DEF FramesArrive
<1>24. ASSUME NEW r \in Threads, NoFrames(r) PROVE req' \in RequestRec /\ closing' \in [Processes -> StopRec]
  BY <1>24 DEF NoFrames
<1>25. ASSUME NEW r \in Threads, Publish(r) PROVE req' \in RequestRec /\ closing' \in [Processes -> StopRec]
  BY <1>25 DEF Publish
<1>26. ASSUME NEW r \in Threads, DeclareLost(r) PROVE req' \in RequestRec /\ closing' \in [Processes -> StopRec]
  BY <1>26 DEF DeclareLost
<1>27. ASSUME NEW s \in Idles, Attach(s) PROVE req' \in RequestRec /\ closing' \in [Processes -> StopRec]
  BY <1>27 DEF Attach
<1>28. ASSUME NEW s \in Idles, Detach(s) PROVE req' \in RequestRec /\ closing' \in [Processes -> StopRec]
  BY <1>28 DEF Detach
<1>29. ASSUME NEW state \in {"mute", "gone"}, Faulty(state) PROVE req' \in RequestRec /\ closing' \in [Processes -> StopRec]
  BY <1>29 DEF Faulty
<1>30. CASE UNCHANGED vars
  BY <1>30 DEF vars
<1>. QED
  BY NextCases, <1>1, <1>2, <1>3, <1>4, <1>5, <1>6, <1>7, <1>8, <1>9, <1>10, <1>11, <1>12, <1>13, <1>14, <1>15,
     <1>16, <1>17, <1>18, <1>19, <1>20, <1>21, <1>22, <1>23, <1>24, <1>25, <1>26, <1>27, <1>28, <1>29, <1>30


-----------------------------------------------------------------------------
(* One reader *)

LEMMA ReaderStep == ASSUME TypeInv, ReaderInv, [Next]_vars PROVE ReaderInv'
<1> USE Names DEF TypeInv, Records, Places, Sets, ReaderInv, ReaderIsCurrent, JoinsCurrent, NobodyReads, ClosesSoon,
           PipeIsServed, InCharge, Reading, GivingUp, Move, Go, device
<1>1. ASSUME NEW s \in Streams, NEW other \in BOOLEAN, Connect(s, other) PROVE ReaderInv'
  BY <1>1 DEF Connect
<1>2. ASSUME NEW s \in Streams, NEW verb \in {"disconnect", "idle"}, NEW all \in BOOLEAN,
           Releases(verb, s, all) PROVE ReaderInv'
  BY <1>2 DEF Releases
<1>3. ASSUME NEW s \in Streams, Probe(s) PROVE ReaderInv'
  BY <1>3 DEF Probe
<1>4. ASSUME Reset PROVE ReaderInv'
  BY <1>4 DEF Reset
<1>5. ASSUME Scan PROVE ReaderInv'
  BY <1>5 DEF Scan
<1>6. ASSUME Ensure PROVE ReaderInv'
  BY <1>6 DEF Ensure
<1>7. ASSUME Opens PROVE ReaderInv'
  BY <1>7 DEF Opens
<1>8. ASSUME OpenFails PROVE ReaderInv'
  BY <1>8 DEF OpenFails
<1>9. ASSUME Activates PROVE ReaderInv'
  BY <1>9 DEF Activates
<1>10. ASSUME StartThread PROVE ReaderInv'
  BY <1>10 DEF StartThread, Alive
<1>11. ASSUME ProbeLooked PROVE ReaderInv'
  BY <1>11 DEF ProbeLooked
<1>12. ASSUME Reply PROVE ReaderInv'
  BY <1>12 DEF Reply
<1>13. ASSUME ReplyFailed PROVE ReaderInv'
  BY <1>13 DEF ReplyFailed
<1>14. ASSUME NEW p \in Processes, StopBegin(p) PROVE ReaderInv'
  BY <1>14 DEF StopBegin, Joins, Alive
<1>15. ASSUME NEW p \in Processes, Close(p) PROVE ReaderInv'
  BY <1>15 DEF Close
<1>16. ASSUME NEW p \in Processes, Drop(p) PROVE ReaderInv'
  BY <1>16 DEF Drop
<1>17. ASSUME NEW p \in Processes, Clear(p) PROVE ReaderInv'
  BY <1>17 DEF Clear, AfterStop
<1>18. ASSUME Watch PROVE ReaderInv'
  BY <1>18 DEF Watch
<1>19. ASSUME Mended PROVE ReaderInv'
  BY <1>19 DEF Mended
<1>20. ASSUME NEW r \in Threads, ThreadEnds(r) PROVE ReaderInv'
  BY <1>20 DEF ThreadEnds
<1>21. ASSUME NEW r \in Threads, NodeGone(r) PROVE ReaderInv'
  BY <1>21 DEF NodeGone
<1>22. ASSUME NEW r \in Threads, AwaitFrames(r) PROVE ReaderInv'
  BY <1>22 DEF AwaitFrames
<1>23. ASSUME NEW r \in Threads, FramesArrive(r) PROVE ReaderInv'
  BY <1>23 DEF FramesArrive
<1>24. ASSUME NEW r \in Threads, NoFrames(r) PROVE ReaderInv'
  BY <1>24 DEF NoFrames
<1>25. ASSUME NEW r \in Threads, Publish(r) PROVE ReaderInv'
  BY <1>25 DEF Publish
<1>26. ASSUME NEW r \in Threads, DeclareLost(r) PROVE ReaderInv'
  BY <1>26 DEF DeclareLost
<1>27. ASSUME NEW s \in Idles, Attach(s) PROVE ReaderInv'
  BY <1>27 DEF Attach
<1>28. ASSUME NEW s \in Idles, Detach(s) PROVE ReaderInv'
  BY <1>28 DEF Detach
<1>29. ASSUME NEW state \in {"mute", "gone"}, Faulty(state) PROVE ReaderInv'
  BY <1>29 DEF Faulty
<1>30. CASE UNCHANGED vars
  BY <1>30 DEF vars
<1>. QED
  BY NextCases, <1>1, <1>2, <1>3, <1>4, <1>5, <1>6, <1>7, <1>8, <1>9, <1>10, <1>11, <1>12, <1>13, <1>14, <1>15,
     <1>16, <1>17, <1>18, <1>19, <1>20, <1>21, <1>22, <1>23, <1>24, <1>25, <1>26, <1>27, <1>28, <1>29, <1>30

-----------------------------------------------------------------------------
(* The theorems *)

LEMMA Starts == Init => TypeInv /\ ReaderInv
<1> SUFFICES ASSUME Init PROVE TypeInv /\ ReaderInv
  OBVIOUS
<1> USE Names, Nothing, DeviceAssumption DEF Init
<1>1. Flags
  BY Zenon DEF Flags
<1>2. Records
  BY DEF Records, Stages
<1>3. Places
  BY DEF Places
<1>4. Counts
  BY DEF Counts
<1>5. Sets
  BY DEF Sets
<1>6. ConnectCounts /\ MissedFew
  BY <1>3 DEF ConnectCounts, MissedFew, Reading
<1>7. ReaderInv
  BY <1>3 DEF ReaderInv, ReaderIsCurrent, JoinsCurrent, NobodyReads, ClosesSoon, PipeIsServed,
              InCharge, Reading
<1>. QED
  BY <1>1, <1>2, <1>3, <1>4, <1>5, <1>6, <1>7 DEF TypeInv

LEMMA TypesStep == ASSUME TypeInv, [Next]_vars PROVE TypeInv'
  BY FlagsStep, PcStep, CountsStep, SetsStep, PlacesStep, RecordsStep, Zenon DEF TypeInv, Records

\* Every variable keeps its type: the references and the missed frames stay
\* within their bounds, a request is there exactly while the serve loop is busy,
\* and no consumer holds a segment that has been removed.
THEOREM TypeCorrect == Spec => []TypeOK
<1>1. TypeInv => TypeOK
  BY Zenon DEF TypeInv, Flags, Places, Counts, Sets, TypeOK
<1>. QED
  BY Starts, TypesStep, <1>1, PTL DEF Spec

\* One thread at most reads the camera, nobody can publish while a request
\* closes segments, and an open pipeline has its thread: _stop_pipeline joins
\* the thread before it closes, and one that declares the camera lost takes the
\* pipeline down itself, even beside a request that opens it again.
THEOREM OneReaderAtATime == Spec => []OneReader
<1>1. TypeInv /\ ReaderInv => NothingComesBack
  BY Names DEF TypeInv, Places, ReaderInv, ReaderIsCurrent, NobodyReads, NothingComesBack,
               Looping, InCharge, Reading
<1>2. TypeInv /\ ReaderInv => NoDeafPipeline
  BY DEF TypeInv, Places, ReaderInv, ReaderIsCurrent, PipeIsServed, NoDeafPipeline,
         Looping, InCharge, Reading, Quiet, Stopping
<1>3. TypeInv /\ ReaderInv => OneReader
  BY <1>1, <1>2 DEF OneReader
<1>. QED
  BY Starts, TypesStep, ReaderStep, <1>3, PTL DEF Spec
=============================================================================
