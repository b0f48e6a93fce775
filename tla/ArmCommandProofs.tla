------------------------- MODULE ArmCommandProofs -------------------------
(***************************************************************************)
(* What holds of ArmCommand for every set of LeRobot processes and every   *)
(* bound: its types; that a session of the gateway which has got anywhere  *)
(* holds the teleop lock; and, of an arm whose relay cannot engage again   *)
(* (Cross), that one consumer at a time has it, that no two map the same   *)
(* file, and that a takeover never takes the file of one that goes on.     *)
(*                                                                         *)
(* The argument: LockCoversSession is inductive by itself, because every   *)
(* start needs a free lock and every release is the last step of its       *)
(* session.  With it, "held is empty" in the gate of a subprocess means    *)
(* that no session is active, which is what OneAtATime needs.              *)
(*                                                                         *)
(* Further down: RobotLink, the requests by which the gateway lets robotd  *)
(* take and give back that arm.                                            *)
(***************************************************************************)
EXTENDS ArmCommand, RobotLink, TLAPS

\* The consumers of an arm, and what each of them is.
LEMMA WebsAndProxies ==
    /\ Webs \subseteq Consumers
    /\ Proxies \subseteq Consumers
    /\ Jog \in Webs /\ Relay \in Webs
    /\ \A c \in Consumers : c \in Webs \/ c \in Proxies
    /\ \A w \in Webs : w \notin Proxies /\ Mode(w) \in Modes /\ Mode(w) # ""
    /\ \A v, w \in Webs : Mode(v) = Mode(w) => v = w
  BY ConsumersAssumption DEF Webs, Consumers, Mode, Modes

-----------------------------------------------------------------------------

LEMMA TypesInit == Init => TypeOK
<1> SUFFICES ASSUME Init PROVE TypeOK
  OBVIOUS
<1>0. /\ path = NoFile /\ files = 0 /\ seg = [f \in Files |-> EmptyFile]
      /\ st = [c \in Consumers |-> "off"]
      /\ ino = [c \in Consumers |-> NoFile]
      /\ wseq = [c \in Consumers |-> 0]
  BY DEF Init
<1>1. FilesTyped
  <2>1. EmptyFile \in Segment
    BY DEF EmptyFile, Segment, Ages
  <2>2. seg \in [Files -> Segment]
    BY <1>0, <2>1
  <2>3. files \in 0 .. MaxFiles
    BY <1>0, BoundsAssumption
  <2>4. QED
    BY <1>0, <2>2, <2>3 DEF FilesTyped
<1>2. ConsumersTyped
  <2>1. st \in [Consumers -> Stages] /\ \A c \in Consumers : st[c] = "off"
    BY <1>0 DEF Stages
  <2>2. ino \in [Consumers -> Files \cup {NoFile}]
    BY <1>0
  <2>3. 0 \in 0 .. MaxSeq
    BY BoundsAssumption
  <2>4. wseq \in [Consumers -> 0 .. MaxSeq]
    BY <1>0, <2>3
  <2>5. QED
    BY <2>1, <2>2, <2>4, WebsAndProxies DEF ConsumersTyped
<1>3. SessionsTyped
  BY DEF Init, SessionsTyped, Modes
<1>4. LoopTyped
  <2>1. arm \in [cmd : {"none", "goal", "hold"}, age : Ages]
    BY DEF Init, Ages
  <2>2. QED
    BY <2>1 DEF Init, LoopTyped
<1>5. QED
  BY <1>1, <1>2, <1>3, <1>4 DEF TypeOK

\* A consumer's own steps keep the types of the files and of the consumers.
LEMMA WriterTypes ==
    ASSUME FilesTyped, ConsumersTyped, NEW c \in Consumers, WriterNext(c)
    PROVE  FilesTyped' /\ ConsumersTyped'
<1>0. /\ path \in Files \cup {NoFile}
      /\ files \in 0 .. MaxFiles
      /\ seg \in [Files -> Segment]
      /\ st \in [Consumers -> Stages]
      /\ \A p \in Proxies : st[p] \in {"off", "create", "header", "live"}
      /\ ino \in [Consumers -> Files \cup {NoFile}]
      /\ \A d \in Consumers :
            st[d] \in {"header", "health", "live", "leaked"} => ino[d] \in Files
      /\ wseq \in [Consumers -> 0 .. MaxSeq]
  BY DEF FilesTyped, ConsumersTyped
<1>1. CASE CreateFile(c)
  <2>0. UNCHANGED wseq /\ Move(c, "header")
    BY <1>1 DEF CreateFile
  <2>1. FilesTyped' /\ \E f \in Files : ino' = [ino EXCEPT ![c] = f]
    <3>1. CASE path # NoFile
      <4>1. UNCHANGED fvars /\ ino' = [ino EXCEPT ![c] = path]
        BY <1>1, <3>1 DEF CreateFile
      <4>2. path \in Files
        BY <1>0, <3>1
      <4>3. QED
        BY <4>1, <4>2 DEF FilesTyped, fvars
    <3>2. CASE path = NoFile
      <4>1. /\ files < MaxFiles
            /\ files' = files + 1
            /\ seg' = [seg EXCEPT ![files + 1] = EmptyFile]
            /\ path' = files + 1
            /\ ino' = [ino EXCEPT ![c] = files + 1]
        BY <1>1, <3>2 DEF CreateFile
      <4>2. EmptyFile \in Segment
        BY DEF EmptyFile, Segment, Ages
      <4>3. files' \in Files /\ files' \in 0 .. MaxFiles
        BY <4>1, <1>0, BoundsAssumption DEF Files
      <4>4. seg' \in [Files -> Segment]
        BY <4>1, <4>2, <1>0
      <4>5. QED
        BY <4>1, <4>3, <4>4 DEF FilesTyped
    <3>3. QED
      BY <3>1, <3>2
  <2>2. PICK f \in Files : ino' = [ino EXCEPT ![c] = f]
    BY <2>1
  <2>3. ino' \in [Consumers -> Files \cup {NoFile}] /\ ino'[c] \in Files
        /\ \A d \in Consumers : d # c => ino'[d] = ino[d]
    BY <2>2, <1>0
  <2>4. /\ st' \in [Consumers -> Stages]
        /\ st'[c] = "header"
        /\ \A d \in Consumers : d # c => st'[d] = st[d]
    BY <1>0, <2>0 DEF Move, Stages
  <2>5. \A p \in Proxies : p \in Consumers
    BY WebsAndProxies
  <2>6. ConsumersTyped'
    BY <1>0, <2>0, <2>3, <2>4, <2>5 DEF ConsumersTyped
  <2>7. QED
    BY <2>1, <2>6
<1>2. CASE WriteHeader(c)
  <2>0. /\ st[c] = "header"
        /\ seg' = [seg EXCEPT ![ino[c]] = Header]
        /\ wseq' = [wseq EXCEPT ![c] = 0]
        /\ Move(c, IF c \in Webs THEN "health" ELSE "live")
        /\ UNCHANGED <<path, files, ino>>
    BY <1>2 DEF WriteHeader
  <2>1. Header \in Segment
    BY DEF Header, Segment, Ages
  <2>2. FilesTyped'
    BY <1>0, <2>0, <2>1 DEF FilesTyped
  <2>3. 0 \in 0 .. MaxSeq
    BY BoundsAssumption
  <2>4. wseq' \in [Consumers -> 0 .. MaxSeq]
    BY <1>0, <2>0, <2>3
  <2>5. \A p \in Proxies : p \in Consumers /\ p \notin Webs
    BY WebsAndProxies
  <2>6. ConsumersTyped'
    BY <1>0, <2>0, <2>4, <2>5 DEF ConsumersTyped, Move, Stages
  <2>7. QED
    BY <2>2, <2>6
<1>3. CASE Publish(c)
  <2>0. /\ st[c] = "live"
        /\ wseq[c] < MaxSeq
        /\ wseq' = [wseq EXCEPT ![c] = @ + 1]
        /\ seg' = [seg EXCEPT ![ino[c]] =
                      [ready |-> TRUE, seq |-> wseq[c] + 1, age |-> "fresh"]]
        /\ UNCHANGED <<path, files, st, ino>>
    BY <1>3 DEF Publish, Live
  <2>1. PICK n : n = wseq[c] + 1
    OBVIOUS
  <2>2. n \in Nat /\ n \in 0 .. MaxSeq
    BY <1>0, <2>0, <2>1, BoundsAssumption
  <2>3. [ready |-> TRUE, seq |-> n, age |-> "fresh"] \in Segment
    BY <2>2 DEF Segment, Ages
  <2>4. FilesTyped'
    BY <1>0, <2>0, <2>1, <2>3 DEF FilesTyped
  <2>5. wseq' = [wseq EXCEPT ![c] = n]
    BY <2>0, <2>1
  <2>6. wseq' \in [Consumers -> 0 .. MaxSeq]
    BY <1>0, <2>2, <2>5
  <2>7. ConsumersTyped'
    BY <1>0, <2>0, <2>6 DEF ConsumersTyped
  <2>8. QED
    BY <2>4, <2>7
<1>4. QED
  BY <1>1, <1>2, <1>3 DEF WriterNext

\* Consumers that leave give up their writer and nothing else.
LEMMA LeaveTypes ==
    ASSUME ConsumersTyped, NEW S, Leave(S)
    PROVE  ConsumersTyped'
<1>1. 0 \in 0 .. MaxSeq
  BY BoundsAssumption
<1>2. \A p \in Proxies : p \in Consumers
  BY WebsAndProxies
<1>3. /\ st' \in [Consumers -> Stages]
      /\ \A c \in Consumers :
            (st'[c] = st[c] /\ ino'[c] = ino[c]) \/ st'[c] = "off"
  BY DEF ConsumersTyped, Leave, Stages
<1>4. ino' \in [Consumers -> Files \cup {NoFile}]
  BY DEF ConsumersTyped, Leave
<1>5. wseq' \in [Consumers -> 0 .. MaxSeq]
  BY <1>1 DEF ConsumersTyped, Leave
<1>6. QED
  BY <1>2, <1>3, <1>4, <1>5 DEF ConsumersTyped

\* The name of the segment is removed or kept.
LEMMA UnlinkTypes ==
    ASSUME FilesTyped, Unlink \/ UNCHANGED fvars
    PROVE  FilesTyped'
  BY DEF FilesTyped, Unlink, fvars

\* A session that moves on without touching a writer.
LEMMA MoveTypes ==
    ASSUME ConsumersTyped, NEW w \in Webs, NEW stage \in Stages, Move(w, stage),
           UNCHANGED <<ino, wseq>>,
           stage \in {"health", "live", "leaked"} => st[w] = "health",
           stage # "header"
    PROVE  ConsumersTyped'
  BY WebsAndProxies DEF ConsumersTyped, Move

\* Nothing happens to a part of the state.
LEMMA Untouched ==
    /\ FilesTyped /\ UNCHANGED fvars => FilesTyped'
    /\ ConsumersTyped /\ UNCHANGED cvars => ConsumersTyped'
    /\ SessionsTyped /\ UNCHANGED lvars => SessionsTyped'
    /\ LoopTyped /\ UNCHANGED dvars => LoopTyped'
<1>1. FilesTyped /\ UNCHANGED fvars => FilesTyped'
  BY DEF FilesTyped, fvars
<1>2. ConsumersTyped /\ UNCHANGED cvars => ConsumersTyped'
  BY DEF ConsumersTyped, cvars
<1>3. SessionsTyped /\ UNCHANGED lvars => SessionsTyped'
  BY DEF SessionsTyped, lvars
<1>4. LoopTyped /\ UNCHANGED dvars => LoopTyped'
  BY DEF LoopTyped, dvars
<1>5. QED
  BY <1>1, <1>2, <1>3, <1>4

\* The steps of the subprocesses other than those of their writers.
LEMMA ProxyTypes ==
    ASSUME TypeOK, NEW p \in Proxies, ProxyNext(p)
    PROVE  TypeOK'
<1>0. FilesTyped /\ ConsumersTyped /\ SessionsTyped /\ LoopTyped
  BY DEF TypeOK
<1>1. CASE StartProxy(p)
  <2>1. Move(p, "create") /\ UNCHANGED <<ino, wseq>> /\ p \in Consumers
    BY <1>1, WebsAndProxies DEF StartProxy
  <2>2. st' \in [Consumers -> Stages] /\ st'[p] = "create"
        /\ \A d \in Consumers : d # p => st'[d] = st[d]
    BY <1>0, <2>1 DEF ConsumersTyped, Move, Stages
  <2>3. \A q \in Proxies : q \in Consumers
    BY WebsAndProxies
  <2>4. ConsumersTyped'
    BY <1>0, <2>1, <2>2, <2>3 DEF ConsumersTyped
  <2>5. UNCHANGED <<fvars, lvars, dvars>>
    BY <1>1 DEF StartProxy
  <2>6. QED
    BY <1>0, <2>4, <2>5, Untouched DEF TypeOK
<1>2. CASE Disconnect(p)
  <2>1. Unlink /\ Leave({p}) /\ UNCHANGED <<lvars, dvars>>
    BY <1>2 DEF Disconnect
  <2>2. QED
    BY <1>0, <2>1, LeaveTypes, UnlinkTypes, Untouched DEF TypeOK
<1>3. CASE Kill(p)
  <2>1. Leave({p}) /\ UNCHANGED <<fvars, lvars, dvars>>
    BY <1>3 DEF Kill
  <2>2. QED
    BY <1>0, <2>1, LeaveTypes, Untouched DEF TypeOK
<1>4. QED
  BY <1>1, <1>2, <1>3 DEF ProxyNext

\* The steps of the two sessions of the gateway.
LEMMA GatewayTypes ==
    ASSUME TypeOK, GatewayNext
    PROVE  TypeOK'
<1>0. FilesTyped /\ ConsumersTyped /\ SessionsTyped /\ LoopTyped
  BY DEF TypeOK
<1>1. ASSUME NEW w \in Webs, WebNext(w)
      PROVE  TypeOK'
  <2>0. Mode(w) \in Modes /\ "" \in Modes
    BY WebsAndProxies DEF Modes
  <2>1. CASE StartWeb(w)
    <3>1. Move(w, "lease") /\ UNCHANGED <<ino, wseq>> /\ "lease" \in Stages
      BY <2>1 DEF StartWeb, Stages
    <3>2. ConsumersTyped'
      BY <1>0, <3>1, MoveTypes
    <3>3. SessionsTyped' /\ UNCHANGED <<fvars, dvars>>
      BY <1>0, <2>0, <2>1 DEF StartWeb, SessionsTyped
    <3>4. QED
      BY <1>0, <3>2, <3>3, Untouched DEF TypeOK
  <2>2. CASE CheckLease(w)
    <3>1. PICK stage \in {"create", "takeover"} : Move(w, stage)
      BY <2>2 DEF CheckLease
    <3>2. UNCHANGED <<ino, wseq>> /\ stage \in Stages /\ stage # "header"
          /\ stage \notin {"health", "live", "leaked"}
      BY <2>2 DEF CheckLease, Stages
    <3>3. ConsumersTyped'
      BY <1>0, <3>1, <3>2, MoveTypes
    <3>4. UNCHANGED <<fvars, lvars, dvars>>
      BY <2>2 DEF CheckLease
    <3>5. QED
      BY <1>0, <3>3, <3>4, Untouched DEF TypeOK
  <2>3. CASE Refused(w)
    <3>1. Leave({w}) /\ UNCHANGED <<fvars, dvars>>
      BY <2>3 DEF Refused
    <3>2. SessionsTyped'
      BY <1>0, <2>0, <2>3 DEF Refused, SessionsTyped
    <3>3. QED
      BY <1>0, <3>1, <3>2, LeaveTypes, Untouched DEF TypeOK
  <2>4. CASE TakeOver(w)
    <3>1. Unlink /\ Move(w, "create") /\ UNCHANGED <<ino, wseq, lvars, dvars>>
          /\ "create" \in Stages
      BY <2>4 DEF TakeOver, Stages
    <3>2. ConsumersTyped'
      BY <1>0, <3>1, MoveTypes
    <3>3. QED
      BY <1>0, <3>1, <3>2, UnlinkTypes, Untouched DEF TypeOK
  <2>5. CASE Ready(w)
    <3>1. /\ Move(w, "live") /\ st[w] = "health" /\ UNCHANGED <<ino, wseq>>
          /\ "live" \in Stages
      BY <2>5 DEF Ready, Stages
    <3>2. ConsumersTyped'
      BY <1>0, <3>1, MoveTypes
    <3>3. SessionsTyped' /\ UNCHANGED <<fvars, dvars>>
      BY <1>0, <2>5 DEF Ready, SessionsTyped
    <3>4. QED
      BY <1>0, <3>2, <3>3, Untouched DEF TypeOK
  <2>6. CASE Close(w)
    <3>1. Unlink /\ Leave({w}) /\ UNCHANGED dvars
      BY <2>6 DEF Close
    <3>2. SessionsTyped'
      BY <1>0, <2>0, <2>6 DEF Close, SessionsTyped
    <3>3. QED
      BY <1>0, <3>1, <3>2, LeaveTypes, UnlinkTypes, Untouched DEF TypeOK
  <2>7. QED
    BY <1>1, <2>1, <2>2, <2>3, <2>4, <2>5, <2>6 DEF WebNext
<1>2. CASE Engage
  <2>1. Move(Relay, "lease") /\ UNCHANGED <<ino, wseq>> /\ "lease" \in Stages
    BY <1>2 DEF Engage, Stages
  <2>2. ConsumersTyped'
    BY <1>0, <2>1, MoveTypes, WebsAndProxies
  <2>3. SessionsTyped' /\ UNCHANGED <<fvars, dvars>>
    BY <1>0, <1>2 DEF Engage, SessionsTyped, Modes
  <2>4. QED
    BY <1>0, <2>2, <2>3, Untouched DEF TypeOK
<1>3. CASE RelayUnwinds
  <2>1. Unlink /\ Leave({Relay}) /\ UNCHANGED dvars
    BY <1>3 DEF RelayUnwinds
  <2>2. SessionsTyped'
    BY <1>0, <1>3 DEF RelayUnwinds, SessionsTyped, Modes
  <2>3. QED
    BY <1>0, <2>1, <2>2, LeaveTypes, UnlinkTypes, Untouched DEF TypeOK
<1>4. CASE JogLeaks
  <2>1. /\ Move(Jog, "leaked") /\ st[Jog] = "health" /\ UNCHANGED <<ino, wseq>>
        /\ "leaked" \in Stages /\ UNCHANGED <<fvars, lvars, dvars>>
    BY <1>4 DEF JogLeaks, Stages
  <2>2. ConsumersTyped'
    BY <1>0, <2>1, MoveTypes, WebsAndProxies
  <2>3. QED
    BY <1>0, <2>1, <2>2, Untouched DEF TypeOK
<1>5. CASE Disengage
  <2>1. Unlink /\ Leave({Relay}) /\ UNCHANGED dvars
    BY <1>5 DEF Disengage
  <2>2. SessionsTyped'
    BY <1>0, <1>5 DEF Disengage, SessionsTyped, Modes
  <2>3. QED
    BY <1>0, <2>1, <2>2, LeaveTypes, UnlinkTypes, Untouched DEF TypeOK
<1>6. CASE StopReleased
  <2>1. Unlink /\ UNCHANGED <<cvars, dvars>>
    BY <1>6 DEF StopReleased
  <2>2. SessionsTyped'
    BY <1>0, <1>6 DEF StopReleased, SessionsTyped
  <2>3. QED
    BY <1>0, <2>1, <2>2, UnlinkTypes, Untouched DEF TypeOK
<1>7. CASE StopTeleop
  <2>1. (Unlink \/ UNCHANGED fvars) /\ Leave(Webs) /\ UNCHANGED dvars
    BY <1>7 DEF StopTeleop
  <2>2. SessionsTyped'
    BY <1>7 DEF StopTeleop, SessionsTyped, Modes
  <2>3. QED
    BY <1>0, <2>1, <2>2, LeaveTypes, UnlinkTypes, Untouched DEF TypeOK
<1>8. CASE GatewayDies
  <2>1. Leave(Consumers) /\ UNCHANGED <<fvars, dvars>>
    BY <1>8 DEF GatewayDies
  <2>2. SessionsTyped'
    BY <1>8 DEF GatewayDies, SessionsTyped, Modes
  <2>3. QED
    BY <1>0, <2>1, <2>2, LeaveTypes, Untouched DEF TypeOK
<1>9. QED
  BY <1>1, <1>2, <1>3, <1>4, <1>5, <1>6, <1>7, <1>8 DEF GatewayNext

\* The steps of robotd, and of time.
LEMMA DaemonTypes ==
    ASSUME TypeOK, LoopNext \/ BridgeNext \/ \E f \in Files : Elapse(f)
    PROVE  TypeOK'
<1>0. FilesTyped /\ ConsumersTyped /\ SessionsTyped /\ LoopTyped
  BY DEF TypeOK
<1>1. CASE LoopNext
  <2>1. UNCHANGED <<fvars, cvars, lvars>>
    BY <1>1 DEF LoopNext, Attach, AttachDies, Deliver, NoRecord, Detach, Hold,
                StillFresh
  <2>2. LoopTyped'
    <3>1. CASE Deliver
      <4>1. loop = "poll" /\ reader \in Files
        BY <1>0, <3>1 DEF Deliver, LoopTyped
      <4>2. seg[reader] \in Segment
        BY <1>0, <4>1 DEF FilesTyped
      <4>3. seg[reader].seq \in Nat /\ seg[reader].age \in Ages
        BY <4>2 DEF Segment
      <4>4. QED
        BY <1>0, <3>1, <4>3 DEF Deliver, LoopTyped
    <3>2. CASE Hold
      <4>1. [cmd |-> "hold", age |-> "never"]
                \in [cmd : {"none", "goal", "hold"}, age : Ages]
        BY DEF Ages
      <4>2. QED
        BY <1>0, <3>2, <4>1 DEF Hold, LoopTyped
    <3>3. CASE Attach
      <4>1. path \in Files
        BY <1>0, <3>3 DEF Attach, FilesTyped
      <4>2. QED
        BY <1>0, <3>3, <4>1 DEF Attach, LoopTyped
    <3>4. CASE AttachDies \/ NoRecord \/ Detach \/ StillFresh
      BY <1>0, <3>4 DEF AttachDies, NoRecord, Detach, StillFresh, LoopTyped
    <3>5. QED
      BY <1>1, <3>1, <3>2, <3>3, <3>4 DEF LoopNext
  <2>3. QED
    BY <1>0, <2>1, <2>2, Untouched DEF TypeOK
<1>2. CASE BridgeNext
  <2>1. (Unlink \/ UNCHANGED fvars) /\ UNCHANGED <<cvars, lvars>>
    BY <1>2 DEF BridgeNext, BridgeStart, BridgeStop, DaemonCrash, DaemonRestart,
                DaemonUnlinks
  <2>2. LoopTyped'
    BY <1>0, <1>2 DEF BridgeNext, BridgeStart, BridgeStop, DaemonCrash,
                      DaemonRestart, LoopTyped
  <2>3. QED
    BY <1>0, <2>1, <2>2, UnlinkTypes, Untouched DEF TypeOK
<1>3. ASSUME NEW f \in Files, Elapse(f)
      PROVE  TypeOK'
  <2>1. PICK a \in {"late", "expired"} : seg' = [seg EXCEPT ![f].age = a]
    BY <1>3 DEF Elapse
  <2>2. [seg[f] EXCEPT !.age = a] \in Segment
    BY <1>0 DEF FilesTyped, Segment, Ages
  <2>3. FilesTyped'
    BY <1>0, <1>3, <2>1, <2>2 DEF Elapse, FilesTyped
  <2>4. UNCHANGED <<cvars, lvars, dvars>>
    BY <1>3 DEF Elapse
  <2>5. QED
    BY <1>0, <2>3, <2>4, Untouched DEF TypeOK
<1>4. QED
  BY <1>1, <1>2, <1>3

LEMMA TypesNext == TypeOK /\ [Next]_vars => TypeOK'
<1> SUFFICES ASSUME TypeOK, [Next]_vars PROVE TypeOK'
  OBVIOUS
<1>0. FilesTyped /\ ConsumersTyped /\ SessionsTyped /\ LoopTyped
  BY DEF TypeOK
<1>1. ASSUME NEW c \in Consumers, WriterNext(c)
      PROVE  TypeOK'
  <2>1. FilesTyped' /\ ConsumersTyped'
    BY <1>0, <1>1, WriterTypes
  <2>2. UNCHANGED <<lvars, dvars>>
    BY <1>1 DEF WriterNext, CreateFile, WriteHeader, Publish
  <2>3. QED
    BY <1>0, <2>1, <2>2, Untouched DEF TypeOK
<1>2. CASE UNCHANGED vars
  <2>1. UNCHANGED <<fvars, cvars, lvars, dvars>>
    BY <1>2 DEF vars, fvars, cvars, lvars, dvars
  <2>2. QED
    BY <1>0, <2>1, Untouched DEF TypeOK
<1>3. QED
  BY <1>1, <1>2, ProxyTypes, GatewayTypes, DaemonTypes DEF Next

\* Every variable stays in its type, whatever the consumers do to each other's
\* file; a consumer that has a writer has a file mapped.
THEOREM TypeCorrect == Spec => []TypeOK
<1>1. QED
  BY TypesInit, TypesNext, PTL DEF Spec

-----------------------------------------------------------------------------
(* Who is active, and what a step does to that.                            *)

\* A consumer that moves to another stage is active; nobody else changes.
LEMMA MoveActive ==
    ASSUME ConsumersTyped, NEW c \in Consumers, NEW stage, stage # "off",
           Move(c, stage)
    PROVE  Active(c)' /\ \A d \in Consumers : d # c => (Active(d)' <=> Active(d))
  BY DEF ConsumersTyped, Move, Active

\* Those who leave are not active any more; nobody else changes.
LEMMA LeaveActive ==
    ASSUME NEW S, Leave(S)
    PROVE  \A c \in Consumers : /\ c \in S => ~Active(c)'
                                /\ c \notin S => (Active(c)' <=> Active(c))
  BY DEF Leave, Active

Started(c) == ~Active(c) /\ Active(c)'

\* The steps of writers, of robotd and of time start and end nobody, and leave
\* the lock as it is.
LEMMA OthersKeepActive ==
    ASSUME ConsumersTyped,
           \/ \E c \in Consumers : WriterNext(c)
           \/ LoopNext \/ BridgeNext \/ \E f \in Files : Elapse(f)
           \/ UNCHANGED vars
    PROVE  held' = held /\ \A c \in Consumers : Active(c)' <=> Active(c)
<1>1. ASSUME NEW c \in Consumers, WriterNext(c)
      PROVE  held' = held /\ \A d \in Consumers : Active(d)' <=> Active(d)
  <2>1. CASE CreateFile(c)
    <3>1. Move(c, "header") /\ Active(c) /\ held' = held
      BY <2>1 DEF CreateFile, Active, lvars
    <3>2. QED
      BY <3>1, MoveActive
  <2>2. CASE WriteHeader(c)
    <3>1. PICK stage \in {"health", "live"} : Move(c, stage)
      BY <2>2 DEF WriteHeader
    <3>2. Active(c) /\ held' = held
      BY <2>2 DEF WriteHeader, Active, lvars
    <3>3. QED
      BY <3>1, <3>2, MoveActive
  <2>3. CASE Publish(c)
    BY <2>3 DEF Publish, Active, lvars
  <2>4. QED
    BY <1>1, <2>1, <2>2, <2>3 DEF WriterNext
<1>2. CASE LoopNext \/ BridgeNext \/ (\E f \in Files : Elapse(f)) \/ UNCHANGED vars
  <2>1. UNCHANGED <<st, held>>
    BY <1>2 DEF LoopNext, Attach, AttachDies, Deliver, NoRecord, Detach, Hold,
                StillFresh, BridgeNext, BridgeStart, BridgeStop, DaemonCrash,
                DaemonRestart, Elapse, vars, cvars, lvars
  <2>2. QED
    BY <2>1 DEF Active
<1>3. QED
  BY <1>1, <1>2

\* A step of a LeRobot subprocess leaves the lock and the sessions alone, and
\* starts it only when the lock is free and no other one drives.
LEMMA ProxyActive ==
    ASSUME ConsumersTyped, NEW p \in Proxies, ProxyNext(p)
    PROVE  /\ held' = held
           /\ \A c \in Consumers : c # p => (Active(c)' <=> Active(c))
           /\ Started(p) => held = "" /\ ~Driving
<1>0. p \in Consumers
  BY WebsAndProxies
<1>1. CASE StartProxy(p)
  <2>1. Move(p, "create") /\ held' = held /\ held = "" /\ ~Driving
    BY <1>1 DEF StartProxy, lvars
  <2>2. QED
    BY <1>0, <2>1, MoveActive
<1>2. CASE Disconnect(p) \/ Kill(p)
  <2>1. Leave({p}) /\ held' = held
    BY <1>2 DEF Disconnect, Kill, lvars
  <2>2. \A c \in Consumers : /\ c \in {p} => ~Active(c)'
                             /\ c \notin {p} => (Active(c)' <=> Active(c))
    BY <2>1, LeaveActive
  <2>3. ~Active(p)'
    BY <1>0, <2>2
  <2>4. QED
    BY <2>1, <2>2, <2>3 DEF Started
<1>3. QED
  BY <1>1, <1>2 DEF ProxyNext

\* A step of the gateway starts at most one session, with a free lock; without
\* engage, only while no subprocess drives.  Every release of the lock is the
\* last step of the session that held it.
LEMMA GatewayActive ==
    ASSUME ConsumersTyped, LockCoversSession, GatewayNext
    PROVE  /\ LockCoversSession'
           /\ \A c, d \in Consumers :
                Started(c) => /\ c \in Webs /\ held = "" /\ (Cross \/ ~Driving)
                              /\ (Started(d) => d = c)
<1> DEFINE Goal ==
      /\ LockCoversSession'
      /\ \A c, d \in Consumers :
            Started(c) => /\ c \in Webs /\ held = "" /\ (Cross \/ ~Driving)
                          /\ (Started(d) => d = c)
<1> SUFFICES Goal
  OBVIOUS
<1>0. /\ \A w \in Webs : w \in Consumers /\ Mode(w) # ""
      /\ \A v, w \in Webs : Mode(v) = Mode(w) => v = w
      /\ Jog \in Webs /\ Relay \in Webs
  BY WebsAndProxies
<1>1. ASSUME NEW w \in Webs, ~Active(w), held = "", held' = Mode(w),
             Move(w, "lease"), Cross \/ ~Driving
      PROVE  Goal
  <2>1. Active(w)' /\ \A c \in Consumers : c # w => (Active(c)' <=> Active(c))
    BY <1>0, <1>1, MoveActive
  <2>2. \A v \in Webs : ~Active(v)
    BY <1>0, <1>1 DEF LockCoversSession
  <2>3. LockCoversSession'
    BY <1>0, <1>1, <2>1, <2>2 DEF LockCoversSession, Mode
  <2>4. QED
    BY <1>1, <2>1, <2>3 DEF Started
<1>2. ASSUME held' = held, \A c \in Consumers : Active(c)' => Active(c)
      PROVE  Goal
  BY <1>0, <1>2 DEF LockCoversSession, Started, Mode
<1>3. ASSUME NEW w \in Webs, NEW stage, stage # "off", Active(w), Move(w, stage),
             held' = held
      PROVE  Goal
  <2>1. \A c \in Consumers : Active(c)' => Active(c)
    BY <1>0, <1>3, MoveActive
  <2>2. QED
    BY <1>2, <1>3, <2>1
<1>4. ASSUME NEW w \in Webs, Active(w), Leave({w}), held' = ""
      PROVE  Goal
  <2>1. held = Mode(w)
    BY <1>4 DEF LockCoversSession
  <2>2. \A v \in Webs : v # w => ~Active(v)
    BY <1>0, <2>1 DEF LockCoversSession
  <2>3. \A c \in Consumers : Active(c)' => Active(c) /\ c # w
    BY <1>4, LeaveActive
  <2>4. QED
    BY <1>0, <2>2, <2>3 DEF LockCoversSession, Started
<1>5. ASSUME NEW w \in Webs, WebNext(w)
      PROVE  Goal
  <2>1. CASE StartWeb(w)
    <3>1. ~Active(w) /\ held = "" /\ held' = Mode(w) /\ Move(w, "lease") /\ ~Driving
      BY <2>1 DEF StartWeb
    <3>2. QED
      BY <1>1, <3>1
  <2>2. CASE CheckLease(w)
    <3>1. PICK stage \in {"create", "takeover"} : Move(w, stage)
      BY <2>2 DEF CheckLease
    <3>2. Active(w) /\ held' = held
      BY <2>2 DEF CheckLease, Active, lvars
    <3>3. QED
      BY <1>3, <3>1, <3>2
  <2>3. CASE Refused(w)
    <3>1. Active(w) /\ Leave({w}) /\ held' = ""
      BY <2>3 DEF Refused, Active
    <3>2. QED
      BY <1>4, <3>1
  <2>4. CASE TakeOver(w) \/ Ready(w)
    <3>1. PICK stage \in {"create", "live"} : Move(w, stage)
      BY <2>4 DEF TakeOver, Ready
    <3>2. Active(w) /\ held' = held
      BY <2>4 DEF TakeOver, Ready, Active, lvars
    <3>3. QED
      BY <1>3, <3>1, <3>2
  <2>5. CASE Close(w)
    <3>1. Active(w) /\ Leave({w}) /\ held' \in {"", held}
      BY <2>5 DEF Close, Active
    <3>2. CASE held' = ""
      BY <1>4, <3>1, <3>2
    <3>3. CASE held' = held
      <4>1. \A c \in Consumers : Active(c)' => Active(c)
        BY <3>1, LeaveActive
      <4>2. QED
        BY <1>2, <3>3, <4>1
    <3>4. QED
      BY <3>1, <3>2, <3>3
  <2>6. QED
    BY <1>5, <2>1, <2>2, <2>3, <2>4, <2>5 DEF WebNext
<1>6. CASE Engage
  <2>1. /\ ~Active(Relay) /\ held = "" /\ held' = Mode(Relay)
        /\ Move(Relay, "lease") /\ Cross
    BY <1>6, ConsumersAssumption DEF Engage, Mode
  <2>2. QED
    BY <1>0, <1>1, <2>1
<1>7. CASE RelayUnwinds \/ Disengage
  <2>1. Active(Relay) /\ Leave({Relay}) /\ held' = ""
    BY <1>7 DEF RelayUnwinds, Disengage, Active, Live
  <2>2. QED
    BY <1>0, <1>4, <2>1
<1>8. CASE JogLeaks
  <2>1. Active(Jog) /\ Move(Jog, "leaked") /\ held' = held
    BY <1>8 DEF JogLeaks, Active, lvars
  <2>2. QED
    BY <1>0, <1>3, <2>1
<1>9. CASE StopReleased
  <2>1. held' = held /\ st' = st
    BY <1>9 DEF StopReleased, cvars
  <2>2. QED
    BY <1>2, <2>1 DEF Active
<1>10. CASE StopTeleop \/ GatewayDies
  <2>1. PICK S : Leave(S) /\ Webs \subseteq S
    BY <1>10, WebsAndProxies DEF StopTeleop, GatewayDies
  <2>2. \A c \in Consumers : Active(c)' => Active(c) /\ c \notin Webs
    BY <2>1, LeaveActive
  <2>3. QED
    BY <1>0, <2>2 DEF LockCoversSession, Started
<1>11. QED
  BY <1>5, <1>6, <1>7, <1>8, <1>9, <1>10 DEF GatewayNext

LEMMA LockNext == TypeOK /\ LockCoversSession /\ [Next]_vars => LockCoversSession'
<1> SUFFICES ASSUME TypeOK, LockCoversSession, [Next]_vars
             PROVE  LockCoversSession'
  OBVIOUS
<1>0. ConsumersTyped /\ \A w \in Webs : w \in Consumers
  BY WebsAndProxies DEF TypeOK
<1>1. ASSUME held' = held, \A w \in Webs : Active(w)' <=> Active(w)
      PROVE  LockCoversSession'
  BY <1>1 DEF LockCoversSession, Mode
<1>2. ASSUME NEW p \in Proxies, ProxyNext(p)
      PROVE  LockCoversSession'
  <2>1. \A w \in Webs : w # p
    BY WebsAndProxies
  <2>2. QED
    BY <1>0, <1>1, <1>2, <2>1, ProxyActive
<1>3. CASE GatewayNext
  BY <1>0, <1>3, GatewayActive
<1>4. QED
  BY <1>0, <1>1, <1>2, <1>3, OthersKeepActive DEF Next

\* A session of the gateway that has got anywhere holds the teleop lock in its
\* own mode, so the jog and the relay are never active together.
THEOREM LockCovers == Spec => []LockCoversSession
<1>1. Init => LockCoversSession
  BY WebsAndProxies DEF Init, LockCoversSession, Active
<1>2. QED
  BY <1>1, TypesInit, TypesNext, LockNext, PTL DEF Spec

-----------------------------------------------------------------------------
(* An arm whose relay cannot engage again.                                 *)

\* Whoever starts finds the arm free, and starts alone.
LEMMA StartsAlone ==
    ASSUME TypeOK, LockCoversSession, ~Cross, [Next]_vars,
           NEW c \in Consumers, NEW d \in Consumers, Started(c)
    PROVE  ~Active(d) /\ (Active(d)' => d = c)
<1>0. ConsumersTyped
  BY DEF TypeOK
<1>1. held = "" => \A w \in Webs : ~Active(w)
  BY WebsAndProxies DEF LockCoversSession
<1>2. ~Driving => \A p \in Proxies : ~Active(p)
  BY DEF Driving
<1>3. \A e \in Consumers : e \in Webs \/ e \in Proxies
  BY WebsAndProxies
<1>4. CASE GatewayNext
  <2>1. held = "" /\ ~Driving /\ (Started(d) => d = c)
    BY <1>0, <1>4, GatewayActive
  <2>2. QED
    BY <1>1, <1>2, <1>3, <2>1 DEF Started
<1>5. ASSUME NEW p \in Proxies, ProxyNext(p)
      PROVE  ~Active(d) /\ (Active(d)' => d = c)
  <2>1. c = p
    BY <1>0, <1>5, ProxyActive DEF Started
  <2>2. held = "" /\ ~Driving /\ (d # p => (Active(d)' <=> Active(d)))
    BY <1>0, <1>5, <2>1, ProxyActive
  <2>3. QED
    BY <1>1, <1>2, <1>3, <2>1, <2>2
<1>6. QED
  BY <1>0, <1>4, <1>5, OthersKeepActive DEF Next, Started

LEMMA OneNext ==
    TypeOK /\ LockCoversSession /\ OneAtATime /\ ~Cross /\ [Next]_vars => OneAtATime'
<1> SUFFICES ASSUME TypeOK, LockCoversSession, OneAtATime, ~Cross, [Next]_vars,
                    NEW c \in Consumers, NEW d \in Consumers, Active(c)', Active(d)'
             PROVE  c = d
  BY DEF OneAtATime
<1>1. CASE Started(c)
  BY <1>1, StartsAlone
<1>2. CASE Started(d)
  BY <1>2, StartsAlone
<1>3. CASE ~Started(c) /\ ~Started(d)
  BY <1>3 DEF Started, OneAtATime
<1>4. QED
  BY <1>1, <1>2, <1>3

\* One consumer at a time drives the arm: the gates of the starts and the
\* teleop lock leave no interleaving in which two do.
THEOREM OneConsumer == ASSUME ~Cross PROVE Spec => []OneAtATime
<1>1. Init => LockCoversSession /\ OneAtATime
  BY WebsAndProxies DEF Init, LockCoversSession, OneAtATime, Active
<1>2. TypeOK /\ LockCoversSession /\ OneAtATime /\ [Next]_vars => OneAtATime'
  BY OneNext
<1>3. QED
  BY <1>1, <1>2, TypesInit, TypesNext, LockNext, PTL DEF Spec

\* What ArmSeqlock takes for granted: one process at a time has the segment
\* mapped for writing.
THEOREM OneWriter == ASSUME ~Cross PROVE Spec => []OneWriterPerSegment
<1>1. OneAtATime => OneWriterPerSegment
  BY DEF OneAtATime, OneWriterPerSegment, Mapped, Active
<1>2. QED
  BY <1>1, OneConsumer, PTL

-----------------------------------------------------------------------------

\* A consumer that goes on driving loses its file only to robotd or to the stop
\* of a relay that has let go: the step for TakeOverSparesTheLiving.
LEMMA WhoEvicts ==
    ASSUME OneAtATime, Next, NEW c \in Consumers, Evicted(c)
    PROVE  loop' # loop \/ (paired /\ ~paired')
<1>0. /\ st[c] = "live" /\ st'[c] = "live" /\ path' # path /\ Active(c)
      /\ \A d \in Consumers : Active(d) => d = c
  BY DEF Evicted, Live, Active, OneAtATime
<1>1. ASSUME NEW S, Leave(S)
      PROVE  c \notin S
  BY <1>0, <1>1 DEF Leave
<1>2. ASSUME NEW d \in Consumers, WriterNext(d)
      PROVE  FALSE
  <2>1. d # c => ~Active(d)
    BY <1>0
  <2>2. CASE CreateFile(d)
    BY <1>0, <2>1, <2>2 DEF CreateFile, Active
  <2>3. CASE WriteHeader(d) \/ Publish(d)
    BY <1>0, <2>3 DEF WriteHeader, Publish
  <2>4. QED
    BY <1>2, <2>2, <2>3 DEF WriterNext
<1>3. ASSUME NEW p \in Proxies, ProxyNext(p)
      PROVE  FALSE
  <2>1. CASE StartProxy(p) \/ Kill(p)
    BY <1>0, <2>1 DEF StartProxy, Kill, fvars
  <2>2. CASE Disconnect(p)
    <3>1. p = c
      BY <1>0, <2>2, WebsAndProxies DEF Disconnect, Live, Active
    <3>2. QED
      BY <1>1, <2>2, <3>1 DEF Disconnect
  <2>3. QED
    BY <1>3, <2>1, <2>2 DEF ProxyNext
<1>4. ASSUME NEW w \in Webs, WebNext(w)
      PROVE  FALSE
  <2>1. CASE StartWeb(w) \/ CheckLease(w) \/ Refused(w) \/ Ready(w)
    BY <1>0, <2>1 DEF StartWeb, CheckLease, Refused, Ready, fvars
  <2>2. CASE TakeOver(w)
    BY <1>0, <2>2, WebsAndProxies DEF TakeOver, Active
  <2>3. CASE Close(w)
    <3>1. w = c
      BY <1>0, <2>3, WebsAndProxies DEF Close, Active
    <3>2. QED
      BY <1>1, <2>3, <3>1 DEF Close
  <2>4. QED
    BY <1>4, <2>1, <2>2, <2>3 DEF WebNext
<1>5. CASE Engage \/ JogLeaks \/ GatewayDies
  BY <1>0, <1>5 DEF Engage, JogLeaks, GatewayDies, fvars
<1>6. CASE RelayUnwinds \/ Disengage
  <2>1. Relay = c
    BY <1>0, <1>6, WebsAndProxies DEF RelayUnwinds, Disengage, Live, Active
  <2>2. QED
    BY <1>1, <1>6, <2>1 DEF RelayUnwinds, Disengage
<1>7. CASE StopReleased
  BY <1>7 DEF StopReleased
<1>8. CASE StopTeleop
  <2>1. c \notin Webs
    BY <1>1, <1>8 DEF StopTeleop
  <2>2. \A w \in Webs : ~Active(w)
    BY <1>0, <2>1, WebsAndProxies
  <2>3. QED
    BY <1>0, <1>8, <2>2 DEF StopTeleop, fvars
<1>9. CASE LoopNext \/ \E f \in Files : Elapse(f)
  BY <1>0, <1>9 DEF LoopNext, Attach, AttachDies, Deliver, NoRecord, Detach, Hold,
                    StillFresh, Elapse, fvars
<1>10. CASE BridgeNext
  BY <1>0, <1>10 DEF BridgeNext, BridgeStart, BridgeStop, DaemonCrash, DaemonRestart,
                     fvars
<1>11. QED
  BY <1>2, <1>3, <1>4, <1>5, <1>6, <1>7, <1>8, <1>9, <1>10 DEF Next, GatewayNext

\* Taking over a silent file never hits a consumer that goes on driving, in any
\* interleaving of starts, kills, restarts of robotd and engagements.
THEOREM TakeOverSpares == ASSUME ~Cross PROVE Spec => TakeOverSparesTheLiving
<1>1. OneAtATime /\ [Next]_vars
        => [\A c \in Consumers :
              Evicted(c) => loop' # loop \/ (paired /\ ~paired')]_vars
  BY WhoEvicts
<1>2. QED
  BY <1>1, OneConsumer, PTL DEF Spec, TakeOverSparesTheLiving

-----------------------------------------------------------------------------
(* The link of robotd to the gateway (RobotLink).                            *)
(*                                                                           *)
(* The argument: a question is known by its identity, which nobody uses      *)
(* again while a caller, a request or an answer has it (AnswersApart,        *)
(* RequestsMatch); so an answer is the one to the question, and what robotd  *)
(* says of a connect is true of that one (YesIsTrue).  Requests are served   *)
(* in their order, so that the word is the last one that waits, or the one   *)
(* that is served (WordIsWaiting, WordIsServed).                             *)

\* What a caller may ask for.
AskedBy(c) == IF c = Poll THEN {"refresh_mode"}
              ELSE IF c = Watch THEN {"lost"} ELSE Methods \ {"lost"}

\* A caller waits for the answer to a question of its own, or for none.
CallsAreTheirs == \A c \in Callers : IF Waits(c) THEN call[c].m \in AskedBy(c) ELSE call[c] = AtRest

\* Whoever may come to show the arm as connected does it in an arm that is listed.
ListedForThem ==
    /\ call[Loop].m \in {"connect", "refresh_mode"} => listed
    /\ Waits(Poll) /\ Mine(Poll) => listed
    /\ call[Loop].op = "restore" /\ call[Loop].m = "scan" => ~listed

\* An answer waits for one caller, and its request is neither waiting nor being served.
AnswersApart ==
    /\ \A c, d \in Callers : Waits(c) /\ call[c].id = call[d].id => c = d
    /\ \A i \in Ids : reply[i] # NoAnswer =>
          /\ \E c \in Callers : call[c].id = i
          /\ serving.id # i /\ \A k \in DOMAIN queue : queue[k].id # i

\* What robotd works at under the identity of a caller is what that caller has asked for.
RequestsMatch ==
    \A c \in Callers : Waits(c) =>
        /\ serving.id = call[c].id => serving.m = call[c].m
        /\ \A k \in DOMAIN queue : queue[k].id = call[c].id => queue[k].m = call[c].m

\* The word is that of the last connect, disconnect or reset that waits ...
WordIsWaiting ==
    \A k \in DOMAIN queue :
        queue[k].m \in Words /\ (\A j \in DOMAIN queue : j > k => queue[j].m \notin Words)
            => word = AsWord(queue[k].m)

\* ... or, where none waits, of the one that robotd is about to execute.
WordIsServed ==
    LastWord /\ serving.m \in Words /\ serving.out = NoAnswer => word = AsWord(serving.m)

\* The answer to the event loop's connect says yes only where the arm was held.
YesIsTrue ==
    call[Loop].m = "connect" =>
        /\ serving.id = call[Loop].id /\ serving.out = "yes" => since
        /\ reply[call[Loop].id] = "yes" => since

LinkTypeInv == LinkTypeOK /\ CallsAreTheirs /\ ListedForThem /\ AnswersApart /\ RequestsMatch
WordInv == LastWordWins /\ WordIsWaiting /\ WordIsServed
TruthInv == ToldTheTruth /\ YesIsTrue
LinkInv == LinkTypeInv /\ WordInv /\ TruthInv

Requests == [id : Ids, m : Methods]
Operations == {"none", "connect", "disconnect", "scan", "reset", "down", "clear", "restore",
               "poll", "watch"}
CallRec == [op : Operations, m : Methods \cup {"none"}, id : Ids \cup {0}, mine : BOOLEAN]

\* What the gateway shows as connected is an arm that it lists.
Shown == listed \in BOOLEAN /\ mirror \in BOOLEAN /\ (mirror => listed)

\* Nothing refers to the identity but the caller itself.
FreeFor(c, i) ==
    /\ \A d \in Callers \ {c} : call[d].id # i
    /\ serving.id # i /\ \A k \in DOMAIN queue : queue[k].id # i

\* A thread of the gateway sends a request: a first one, or the next of its operation
\* under the same identity.
Sends(c) ==
    \E op \in Operations, m \in AskedBy(c), i \in Ids :
        /\ Push(c, op, m, i) /\ FreeFor(c, i) /\ reply'[i] = NoAnswer
        /\ c = Loop /\ m = "refresh_mode" =>
               Waits(c) /\ call[c].m = "connect" /\ reply[call[c].id] = "yes"

\* What any step of a thread of the gateway does.
ThreadStep(c) ==
    /\ reply' \in {reply, [reply EXCEPT ![call[c].id] = NoAnswer]}
    /\ Waits(c) => reply'[call[c].id] = NoAnswer
    /\ Sends(c) \/ Rest(c) \/ (c = Loop /\ Forget)
    /\ Shown' /\ ListedForThem'
    /\ faults' \in 0 .. MaxFaults
    /\ UNCHANGED <<alive, daemon, serving, hub, link>>

-----------------------------------------------------------------------------

LEMMA TheCallers ==
    /\ Callers = {Loop, Poll, Watch} /\ Loop # Poll /\ Loop # Watch /\ Poll # Watch
    /\ 0 \notin Ids
    /\ AskedBy(Loop) = Methods \ {"lost"}
    /\ AskedBy(Poll) = {"refresh_mode"} /\ AskedBy(Watch) = {"lost"}
    /\ \A c \in Callers : AskedBy(c) \subseteq Methods
  BY IdsAssumption, CallersAssumption DEF Callers, AskedBy, Methods

LEMMA LinkTypes ==
    LinkTypeOK <=>
      /\ queue \in Seq(Requests) /\ reply \in [Ids -> Answers \cup {NoAnswer}]
      /\ alive \in BOOLEAN /\ daemon \in {"down", "fresh", "up"}
      /\ serving \in {NoRequest} \cup [id : Ids, m : Methods, out : Answers \cup {NoAnswer}]
      /\ known \in BOOLEAN /\ handle \in {"none", "good", "stale"}
      /\ bridge \in {"none", "runs", "lost", "orphan"} /\ link \in {"up", "down", "gone"}
      /\ Shown /\ call \in [Callers -> CallRec]
      /\ faults \in 0 .. MaxFaults
      /\ word \in {"none", "connect", "disconnect"} /\ since \in BOOLEAN
      /\ daemon = "down" => /\ serving = NoRequest /\ handle = "none" /\ ~known
                            /\ bridge \in {"none", "orphan"}
      /\ \A j, k \in DOMAIN queue : /\ queue[k].id # serving.id
                                    /\ queue[j].id = queue[k].id => j = k
  BY DEF LinkTypeOK, Shown, Requests, CallRec, Operations

LEMMA Unused ==
    (\E i \in Ids : ~Used(i)) => FreshId \in Ids /\ ~Used(FreshId)
  BY DEF FreshId

\* An identity that nothing refers to has no answer either.
LEMMA UnusedIsFree ==
    ASSUME LinkTypeInv, NEW c \in Callers, NEW i \in Ids, ~Used(i)
    PROVE  FreeFor(c, i) /\ reply[i] = NoAnswer
  BY DEF LinkTypeInv, LinkTypeOK, AnswersApart, Used, FreeFor

LEMMA CallerTypes ==
    ASSUME LinkTypeInv, NEW c \in Callers
    PROVE  /\ call[c] \in CallRec
           /\ Waits(c) => /\ call[c].id \in Ids /\ call[c].m \in AskedBy(c)
                          /\ call[c].op \in Operations
           /\ ~Waits(c) => call[c] = AtRest
  BY LinkTypes, TheCallers DEF LinkTypeInv, CallsAreTheirs, CallRec, Waits
-----------------------------------------------------------------------------

\* What is shown as connected, where nothing changes, where it is taken back, and where
\* an answer of a listed arm decides.
LEMMA ShownStays ==
    ASSUME Shown, listed' = listed, mirror' = mirror \/ mirror' = FALSE
    PROVE  Shown'
<1>1. listed' \in BOOLEAN
  BY DEF Shown
<1>2. mirror' \in BOOLEAN
  BY DEF Shown
<1>3. mirror' => listed'
  BY DEF Shown
<1>4. QED
  BY <1>1, <1>2, <1>3 DEF Shown

LEMMA ShownAsTold ==
    ASSUME NEW got, listed', listed' \in BOOLEAN, mirror' = (got = "yes")
    PROVE  Shown'
<1>1. mirror' \in BOOLEAN
  OBVIOUS
<1>2. QED
  BY <1>1 DEF Shown

\* clear_all leaves nothing that is shown, and the other threads with an arm of the past.
LEMMA Forgotten ==
    ASSUME LinkTypeInv, Forget
    PROVE  Shown' /\ ListedForThem'
<1>1. listed' = FALSE /\ mirror' = FALSE
  BY DEF Forget
<1>2. \A d \in Callers : call'[d] = IF d # Loop /\ Waits(d) THEN [call[d] EXCEPT !.mine = FALSE]
                                    ELSE AtRest
  BY DEF Forget
<1>3. Poll \in Callers /\ call[Poll] \in CallRec
  BY TheCallers, CallerTypes
<1>4. call'[Poll] = AtRest \/ call'[Poll].mine = FALSE
  BY <1>2, <1>3 DEF CallRec
<1>5. call'[Loop] = AtRest
  BY <1>2, TheCallers
<1>6. ListedForThem'
  BY <1>1, <1>4, <1>5 DEF ListedForThem, AtRest, Waits, Mine
<1>7. QED
  BY <1>1, <1>6 DEF Shown

\* What a thread makes of an answer, or of none.
LEMMA UseStep ==
    ASSUME LinkTypeInv, NEW c \in Callers, NEW op \in Operations, NEW m \in AskedBy(c),
           NEW got \in Answers \cup {"fail"}, Use(c, op, m, got),
           IF Waits(c)
             THEN /\ op = call[c].op /\ m = call[c].m /\ reply'[call[c].id] = NoAnswer
                  /\ got = "fail" \/ got = reply[call[c].id]
             ELSE got = "fail" /\ ~alive /\ op # "restore",
           got # "fail" => FreeFor(c, call[c].id)
    PROVE  /\ Sends(c) \/ Rest(c) \/ (c = Loop /\ Forget)
           /\ Shown' /\ ListedForThem'
<1>0. Shown /\ ListedForThem /\ call \in [Callers -> CallRec]
  BY LinkTypes DEF LinkTypeInv
<1>1. /\ call[c] \in CallRec
      /\ Waits(c) => call[c].id \in Ids
      /\ ~Waits(c) => call[c] = AtRest
  BY CallerTypes
<1>2. ASSUME Rest(c), listed => listed', c = Loop \/ listed' = listed
      PROVE  ListedForThem'
  <2>1. /\ call'[c] = AtRest
        /\ \A d \in Callers : d # c => call'[d] = call[d]
    BY <1>2, <1>0 DEF Rest
  <2>2. CASE c = Loop
    BY <2>1, <2>2, <1>0, <1>2, TheCallers DEF ListedForThem, AtRest, Waits, Mine
  <2>3. CASE c # Loop
    BY <2>1, <2>3, <1>0, <1>2, TheCallers DEF ListedForThem, AtRest, Waits, Mine
  <2>4. QED
    BY <2>2, <2>3
<1>3. ASSUME Rest(c), listed' = listed
      PROVE  ListedForThem'
  BY <1>3, <1>2
<1>4. ASSUME NEW n \in Methods, Push(c, op, n, call[c].id), c = Loop, n # "scan", listed'
      PROVE  ListedForThem'
  <2>1. /\ call'[Loop].m = n
        /\ \A d \in Callers : d # c => call'[d] = call[d]
    BY <1>4, <1>0, TheCallers DEF Push
  <2>2. QED
    BY <2>1, <1>4, TheCallers DEF ListedForThem
<1>5. CASE m = "connect" /\ got = "yes" /\ Then(c, op, "refresh_mode")
  <2>1. /\ Waits(c) /\ c = Loop /\ FreeFor(c, call[c].id)
        /\ listed' = listed /\ mirror' = mirror
    BY <1>5, TheCallers DEF Then
  <2>2. listed /\ "refresh_mode" \in AskedBy(c) /\ "refresh_mode" \in Methods
    BY <2>1, <1>0, <1>5, TheCallers DEF ListedForThem, Methods
  <2>3. Shown'
    BY <2>1, <1>0, ShownStays
  <2>4. CASE alive
    <3>1. Push(c, op, "refresh_mode", call[c].id)
      BY <2>4, <1>5 DEF Then
    <3>2. Sends(c)
      BY <3>1, <2>1, <2>2, <1>1, <1>5 DEF Sends
    <3>3. ListedForThem'
      BY <3>1, <2>1, <2>2, <1>4
    <3>4. QED
      BY <3>2, <3>3, <2>3
  <2>5. CASE ~alive
    <3>1. Rest(c)
      BY <2>5, <1>5 DEF Then
    <3>2. QED
      BY <3>1, <2>1, <2>3, <1>3
  <2>6. QED
    BY <2>4, <2>5
<1>6. CASE Rest(c) /\ UNCHANGED <<listed, mirror>>
  BY <1>6, <1>3, <1>0, ShownStays
<1>7. CASE m = "refresh_mode" /\ c = Poll /\ UsePoll(c, got)
  <2>1. Rest(c) /\ listed' = listed
    BY <1>7 DEF UsePoll
  <2>2. CASE ~Mine(c) \/ Failed(got)
    <3>1. mirror' = mirror \/ mirror' = FALSE
      BY <2>2, <1>7 DEF UsePoll, Absent
    <3>2. Shown'
      BY <3>1, <2>1, <1>0, ShownStays
    <3>3. QED
      BY <3>2, <2>1, <1>3
  <2>3. CASE Mine(c) /\ ~Failed(got)
    <3>1. Waits(c)
      BY <2>3 DEF Failed
    <3>2. listed /\ mirror' = (got = "yes")
      BY <3>1, <2>3, <1>7, <1>0 DEF UsePoll, ListedForThem
    <3>3. listed' \in BOOLEAN
      BY <2>1, <1>0 DEF Shown
    <3>4. Shown'
      BY <3>2, <3>3, <2>1, ShownAsTold
    <3>5. QED
      BY <3>4, <2>1, <1>3
  <2>4. QED
    BY <2>2, <2>3
<1>8. CASE m = "refresh_mode" /\ c = Loop /\ Absorb(c, got)
  <2>1. Rest(c) /\ listed' = listed
    BY <1>8 DEF Absorb
  <2>2. CASE Failed(got)
    <3>1. mirror' = mirror
      BY <2>2, <1>8 DEF Absorb
    <3>2. Shown'
      BY <3>1, <2>1, <1>0, ShownStays
    <3>3. QED
      BY <3>2, <2>1, <1>3
  <2>3. CASE ~Failed(got)
    <3>1. Waits(c)
      BY <2>3 DEF Failed
    <3>2. listed /\ mirror' = (got = "yes")
      BY <3>1, <2>3, <1>8, <1>0 DEF Absorb, ListedForThem
    <3>3. listed' \in BOOLEAN
      BY <2>1, <1>0 DEF Shown
    <3>4. Shown'
      BY <3>2, <3>3, <2>1, ShownAsTold
    <3>5. QED
      BY <3>4, <2>1, <1>3
  <2>4. QED
    BY <2>2, <2>3
<1>9. CASE m = "disconnect" /\ UseDisconnect(op)
  <2>0. c = Loop
    BY <1>9, TheCallers
  <2>1. CASE op = "clear"
    <3>1. Forget
      BY <2>1, <1>9 DEF UseDisconnect
    <3>2. QED
      BY <3>1, <2>0, Forgotten
  <2>2. CASE op # "clear"
    <3>1. Rest(c) /\ listed' = listed /\ mirror' = FALSE
      BY <2>2, <2>0, <1>9 DEF UseDisconnect
    <3>2. QED
      BY <3>1, <1>3, <1>0, ShownStays
  <2>3. QED
    BY <2>1, <2>2
<1>10. CASE m = "scan" /\ UseScan(op, got)
  <2>0. c = Loop
    BY <1>10, TheCallers
  <2>1. /\ listed' = (listed \/ ~Failed(got))
        /\ mirror' = IF Failed(got) THEN FALSE ELSE got = "yes"
    BY <1>10 DEF UseScan, Absent
  <2>2. Shown'
    <3>1. CASE Failed(got)
      <4>1. mirror' = FALSE /\ listed' \in BOOLEAN
        BY <3>1, <2>1
      <4>2. QED
        BY <4>1 DEF Shown
    <3>2. CASE ~Failed(got)
      <4>1. listed' /\ listed' \in BOOLEAN /\ mirror' = (got = "yes")
        BY <3>2, <2>1
      <4>2. QED
        BY <4>1, ShownAsTold
    <3>3. QED
      BY <3>1, <3>2
  <2>3. CASE op = "restore" /\ listed' /\ ~mirror' /\ alive
    <3>1. Push(c, op, "connect", call[c].id)
      BY <2>3, <2>0, <1>10 DEF UseScan
    <3>2. Waits(c) /\ call[Loop].op = "restore" /\ call[Loop].m = "scan"
      BY <2>3, <2>0, <1>10
    <3>3. ~listed
      BY <3>2, <1>0 DEF ListedForThem
    <3>4. got # "fail"
      BY <3>3, <2>1, <2>3 DEF Failed
    <3>5. "connect" \in AskedBy(c) /\ "connect" \in Methods
      BY <2>0, TheCallers DEF Methods
    <3>6. Sends(c)
      BY <3>1, <3>2, <3>4, <3>5, <1>1 DEF Sends
    <3>7. ListedForThem'
      BY <3>1, <3>5, <2>0, <2>3, <1>4
    <3>8. QED
      BY <3>6, <3>7, <2>2
  <2>4. CASE ~(op = "restore" /\ listed' /\ ~mirror' /\ alive)
    <3>1. Rest(c)
      BY <2>4, <2>0, <1>10 DEF UseScan
    <3>2. listed => listed'
      BY <2>1
    <3>3. QED
      BY <3>1, <3>2, <2>0, <2>2, <1>2
  <2>5. QED
    BY <2>3, <2>4
<1>11. CASE m = "lost" /\ UseLost(c, got)
  <2>1. Rest(c) /\ listed' = listed /\ (mirror' = mirror \/ mirror' = FALSE)
    BY <1>11 DEF UseLost, Absent
  <2>2. QED
    BY <2>1, <1>0, <1>3, ShownStays
<1>12. QED
  BY <1>5, <1>6, <1>7, <1>8, <1>9, <1>10, <1>11 DEF Use

LEMMA ReceiveStep ==
    ASSUME LinkTypeInv, NEW c \in Callers, Receive(c)
    PROVE  ThreadStep(c)
<1>1. /\ Waits(c) /\ reply[call[c].id] # NoAnswer
      /\ Use(c, call[c].op, call[c].m, reply[call[c].id])
      /\ reply' = [reply EXCEPT ![call[c].id] = NoAnswer]
      /\ UNCHANGED <<alive, daemon, serving, hub, link, faults>>
  BY DEF Receive, ReplyKey
<1>2. /\ call[c].id \in Ids /\ call[c].m \in AskedBy(c) /\ call[c].op \in Operations
  BY <1>1, CallerTypes
<1>3. /\ reply \in [Ids -> Answers \cup {NoAnswer}] /\ faults' \in 0 .. MaxFaults
      /\ AnswersApart
  BY <1>1, LinkTypes DEF LinkTypeInv
<1>4. reply[call[c].id] \in Answers /\ reply'[call[c].id] = NoAnswer
  BY <1>1, <1>2, <1>3
<1>5. FreeFor(c, call[c].id)
  BY <1>1, <1>2, <1>3 DEF AnswersApart, FreeFor
<1>6. /\ Sends(c) \/ Rest(c) \/ (c = Loop /\ Forget)
      /\ Shown' /\ ListedForThem'
  BY <1>1, <1>2, <1>4, <1>5, UseStep
<1>7. QED
  BY <1>1, <1>3, <1>4, <1>6 DEF ThreadStep

LEMMA GiveUpStep ==
    ASSUME LinkTypeInv, NEW c \in Callers, GiveUp(c)
    PROVE  ThreadStep(c)
<1>1. /\ Waits(c) /\ reply[call[c].id] = NoAnswer
      /\ OnItsWay(call[c].id) => faults < MaxFaults
      /\ faults' = IF OnItsWay(call[c].id) THEN faults + 1 ELSE faults
      /\ Use(c, call[c].op, call[c].m, "fail")
      /\ UNCHANGED <<reply, alive, daemon, serving, hub, link>>
  BY DEF GiveUp, ReplyKey
<1>2. call[c].m \in AskedBy(c) /\ call[c].op \in Operations
  BY <1>1, CallerTypes
<1>3. faults \in 0 .. MaxFaults
  BY LinkTypes DEF LinkTypeInv
<1>4. faults' \in 0 .. MaxFaults
  BY <1>1, <1>3, SwitchAssumption
<1>5. /\ Sends(c) \/ Rest(c) \/ (c = Loop /\ Forget)
      /\ Shown' /\ ListedForThem'
  BY <1>1, <1>2, UseStep
<1>6. QED
  BY <1>1, <1>4, <1>5 DEF ThreadStep

LEMMA BeginStep ==
    ASSUME LinkTypeInv, NEW c \in Callers, NEW op \in Operations, NEW m \in AskedBy(c),
           Begin(c, op, m), op # "restore", c = Loop => m # "refresh_mode",
           m \in {"connect", "refresh_mode"} => listed
    PROVE  ThreadStep(c)
<1>1. ~Waits(c) /\ UNCHANGED <<reply, alive, daemon, serving, hub, link, faults>>
  BY DEF Begin
<1>2. Shown /\ ListedForThem /\ call \in [Callers -> CallRec] /\ faults' \in 0 .. MaxFaults
  BY <1>1, LinkTypes DEF LinkTypeInv
<1>3. CASE alive
  <2>1. (\E i \in Ids : ~Used(i)) /\ Push(c, op, m, FreshId) /\ UNCHANGED <<listed, mirror>>
    BY <1>3 DEF Begin
  <2>2. FreshId \in Ids /\ FreeFor(c, FreshId) /\ reply[FreshId] = NoAnswer
    BY <2>1, Unused, UnusedIsFree
  <2>3. Sends(c)
    BY <2>1, <2>2, <1>1 DEF Sends
  <2>4. Shown'
    BY <2>1, <1>2, ShownStays
  <2>5. /\ call'[c].op = op /\ call'[c].m = m
        /\ \A d \in Callers : d # c => call'[d] = call[d]
    BY <2>1, <1>2 DEF Push
  <2>6. ListedForThem'
    <3>1. CASE c = Loop
      BY <3>1, <2>1, <2>5, <1>2, TheCallers DEF ListedForThem, Waits, Mine
    <3>2. CASE c = Poll
      BY <3>2, <2>1, <2>5, <1>2, TheCallers DEF ListedForThem, Waits, Mine
    <3>3. CASE c = Watch
      BY <3>3, <2>1, <2>5, <1>2, TheCallers DEF ListedForThem, Waits, Mine
    <3>4. QED
      BY <3>1, <3>2, <3>3, TheCallers
  <2>7. QED
    BY <2>3, <2>4, <2>6, <1>1, <1>2 DEF ThreadStep
<1>4. CASE ~alive
  <2>1. Use(c, op, m, "fail")
    BY <1>4 DEF Begin
  <2>2. /\ Sends(c) \/ Rest(c) \/ (c = Loop /\ Forget)
        /\ Shown' /\ ListedForThem'
    BY <2>1, <1>1, <1>4, UseStep
  <2>3. QED
    BY <2>2, <1>1, <1>2 DEF ThreadStep
<1>5. QED
  BY <1>3, <1>4

\* The threads of the gateway: its operations, and what they make of answers.
GatewayThreads == Ops \/ PollArms \/ WatchArms \/ \E c \in Callers : Receive(c) \/ GiveUp(c)

LEMMA GatewayStep ==
    ASSUME LinkTypeInv, GatewayThreads
    PROVE  \E c \in Callers : ThreadStep(c)
<1>0. Loop \in Callers /\ Poll \in Callers /\ Watch \in Callers
  BY TheCallers
<1>1. CASE ConnectArm
  BY <1>1, <1>0, BeginStep, TheCallers DEF ConnectArm, Operations, Methods
<1>2. CASE DisconnectArm
  BY <1>2, <1>0, BeginStep, TheCallers DEF DisconnectArm, Operations, Methods
<1>3. CASE ScanArms
  BY <1>3, <1>0, BeginStep, TheCallers DEF ScanArms, Operations, Methods
<1>4. CASE ResetBus
  BY <1>4, <1>0, BeginStep, TheCallers DEF ResetBus, Operations, Methods
<1>5. CASE CanDown
  BY <1>5, <1>0, BeginStep, TheCallers DEF CanDown, Operations, Methods
<1>6. CASE ClearAll
  <2>1. CASE Begin(Loop, "clear", "disconnect")
    BY <2>1, <1>0, BeginStep, TheCallers DEF Operations, Methods
  <2>2. CASE /\ ~Waits(Loop) /\ Forget
             /\ UNCHANGED <<reply, alive, daemon, serving, hub, link, faults>>
    <3>1. faults' \in 0 .. MaxFaults
      BY <2>2, LinkTypes DEF LinkTypeInv
    <3>2. ThreadStep(Loop)
      BY <2>2, <3>1, Forgotten DEF ThreadStep
    <3>3. QED
      BY <3>2, <1>0
  <2>3. QED
    BY <2>1, <2>2, <1>6 DEF ClearAll
<1>7. CASE PollArms
  BY <1>7, <1>0, BeginStep, TheCallers DEF PollArms, Operations
<1>8. CASE WatchArms
  BY <1>8, <1>0, BeginStep, TheCallers DEF WatchArms, Operations
<1>9. CASE \E c \in Callers : Receive(c) \/ GiveUp(c)
  BY <1>9, ReceiveStep, GiveUpStep
<1>10. QED
  BY <1>1, <1>2, <1>3, <1>4, <1>5, <1>6, <1>7, <1>8, <1>9 DEF GatewayThreads, Ops
-----------------------------------------------------------------------------

\* A request that is added goes behind the others.
LEMMA Appended ==
    ASSUME queue \in Seq(Requests), NEW r \in Requests, queue' = Append(queue, r)
    PROVE  /\ queue' \in Seq(Requests)
           /\ DOMAIN queue' = DOMAIN queue \cup {Len(queue) + 1}
           /\ Len(queue) + 1 \notin DOMAIN queue /\ queue'[Len(queue) + 1] = r
           /\ \A k \in DOMAIN queue : k < Len(queue) + 1 /\ queue'[k] = queue[k]
  OBVIOUS

\* What the three outcomes of a thread's step make of the calls and the requests.
LEMMA SendsEffect ==
    ASSUME LinkTypeInv, NEW c \in Callers, Sends(c)
    PROVE  \E op \in Operations, m \in AskedBy(c), i \in Ids :
              /\ Push(c, op, m, i) /\ FreeFor(c, i) /\ reply'[i] = NoAnswer
              /\ call' \in [Callers -> CallRec]
              /\ call'[c] = [op |-> op, m |-> m, id |-> i, mine |-> TRUE]
              /\ \A d \in Callers : d # c => call'[d] = call[d]
              /\ [id |-> i, m |-> m] \in Requests
              /\ queue \in Seq(Requests) /\ queue' = Append(queue, [id |-> i, m |-> m])
<1>1. PICK op \in Operations, m \in AskedBy(c), i \in Ids :
         Push(c, op, m, i) /\ FreeFor(c, i) /\ reply'[i] = NoAnswer
  BY DEF Sends
<1>2. call \in [Callers -> CallRec] /\ queue \in Seq(Requests)
  BY LinkTypes DEF LinkTypeInv
<1>3. [op |-> op, m |-> m, id |-> i, mine |-> TRUE] \in CallRec /\ [id |-> i, m |-> m] \in Requests
  BY TheCallers DEF CallRec, Requests
<1>4. /\ call' = [call EXCEPT ![c] = [op |-> op, m |-> m, id |-> i, mine |-> TRUE]]
      /\ queue' = Append(queue, [id |-> i, m |-> m])
  BY <1>1 DEF Push
<1>5. QED
  BY <1>1, <1>2, <1>3, <1>4

LEMMA RestEffect ==
    ASSUME LinkTypeInv, NEW c \in Callers, Rest(c)
    PROVE  /\ call' \in [Callers -> CallRec] /\ call'[c] = AtRest /\ queue' = queue
           /\ \A d \in Callers : d # c => call'[d] = call[d]
<1>1. call \in [Callers -> CallRec] /\ AtRest \in CallRec
  BY LinkTypes DEF LinkTypeInv, AtRest, CallRec, Operations
<1>2. QED
  BY <1>1 DEF Rest

LEMMA ForgetEffect ==
    ASSUME LinkTypeInv, Forget
    PROVE  /\ call' \in [Callers -> CallRec] /\ call'[Loop] = AtRest /\ queue' = queue
           /\ \A d \in Callers : d # Loop =>
                 call'[d].id = call[d].id /\ call'[d].m = call[d].m /\ (~Waits(d) => call'[d] = AtRest)
<1>1. call \in [Callers -> CallRec] /\ AtRest \in CallRec
  BY LinkTypes DEF LinkTypeInv, AtRest, CallRec, Operations
<1>2. \A d \in Callers : call[d] \in CallRec /\ (~Waits(d) => call[d] = AtRest)
  BY CallerTypes
<1>3. /\ call' = [d \in Callers |-> IF d # Loop /\ Waits(d) THEN [call[d] EXCEPT !.mine = FALSE] ELSE AtRest]
      /\ queue' = queue
  BY DEF Forget
<1>4. \A d \in Callers : [call[d] EXCEPT !.mine = FALSE] \in CallRec
  BY <1>2 DEF CallRec
<1>5. call' \in [Callers -> CallRec]
  BY <1>1, <1>3, <1>4
<1>6. \A d \in Callers : d # Loop =>
         call'[d].id = call[d].id /\ call'[d].m = call[d].m /\ (~Waits(d) => call'[d] = AtRest)
  BY <1>2, <1>3 DEF CallRec
<1>7. QED
  BY <1>3, <1>5, <1>6, TheCallers

\* The records of a step of a thread, whatever its outcome.
LEMMA ThreadRecords ==
    ASSUME LinkTypeInv, NEW c \in Callers, ThreadStep(c)
    PROVE  LinkTypeOK'
<1>0. /\ queue \in Seq(Requests) /\ reply \in [Ids -> Answers \cup {NoAnswer}]
      /\ word \in {"none", "connect", "disconnect"} /\ since \in BOOLEAN
      /\ \A j, k \in DOMAIN queue : /\ queue[k].id # serving.id
                                    /\ queue[j].id = queue[k].id => j = k
  BY LinkTypes DEF LinkTypeInv
<1>1. reply' \in [Ids -> Answers \cup {NoAnswer}]
  BY <1>0 DEF ThreadStep
<1>2. /\ call' \in [Callers -> CallRec] /\ queue' \in Seq(Requests)
      /\ \A j, k \in DOMAIN queue' : /\ queue'[k].id # serving.id
                                     /\ queue'[j].id = queue'[k].id => j = k
  <2>1. CASE Sends(c)
    <3>1. PICK op \in Operations, m \in AskedBy(c), i \in Ids :
              /\ FreeFor(c, i) /\ call' \in [Callers -> CallRec]
              /\ [id |-> i, m |-> m] \in Requests
              /\ queue' = Append(queue, [id |-> i, m |-> m])
      BY <2>1, SendsEffect
    <3>2. /\ queue' \in Seq(Requests)
          /\ DOMAIN queue' = DOMAIN queue \cup {Len(queue) + 1}
          /\ queue'[Len(queue) + 1].id = i
          /\ \A k \in DOMAIN queue : queue'[k] = queue[k]
      BY <3>1, <1>0, Appended
    <3>3. serving.id # i /\ \A k \in DOMAIN queue : queue[k].id # i
      BY <3>1 DEF FreeFor
    <3>4. QED
      BY <3>1, <3>2, <3>3, <1>0
  <2>2. CASE Rest(c)
    BY <2>2, <1>0, RestEffect
  <2>3. CASE c = Loop /\ Forget
    BY <2>3, <1>0, ForgetEffect
  <2>4. QED
    BY <2>1, <2>2, <2>3 DEF ThreadStep
<1>3. word' \in {"none", "connect", "disconnect"}
  BY <1>0 DEF ThreadStep, Sends, Rest, Forget, Push, AsWord
<1>4. since' \in BOOLEAN
  <2>1. CASE Sends(c)
    <3>1. since' = Usable \/ since' = since
      BY <2>1 DEF Sends, Push
    <3>2. Usable \in BOOLEAN
      BY DEF Usable
    <3>3. QED
      BY <3>1, <3>2, <1>0
  <2>2. CASE Rest(c)
    BY <2>2 DEF Rest
  <2>3. CASE c = Loop /\ Forget
    BY <2>3 DEF Forget
  <2>4. QED
    BY <2>1, <2>2, <2>3 DEF ThreadStep
<1>5. /\ UNCHANGED <<alive, daemon, serving, known, handle, bridge, link>>
      /\ Shown' /\ faults' \in 0 .. MaxFaults
  BY DEF ThreadStep, hub
<1>6. /\ alive' \in BOOLEAN /\ daemon' \in {"down", "fresh", "up"}
      /\ serving' \in {NoRequest} \cup [id : Ids, m : Methods, out : Answers \cup {NoAnswer}]
      /\ handle' \in {"none", "good", "stale"}
      /\ bridge' \in {"none", "runs", "lost", "orphan"} /\ link' \in {"up", "down", "gone"}
      /\ known' \in BOOLEAN
  BY <1>5, LinkTypes DEF LinkTypeInv
<1>7. daemon' = "down" => /\ serving' = NoRequest /\ handle' = "none" /\ ~known'
                          /\ bridge' \in {"none", "orphan"}
  BY <1>5, LinkTypes DEF LinkTypeInv
<1>8. QED
  BY <1>1, <1>2, <1>3, <1>4, <1>5, <1>6, <1>7 DEF LinkTypeOK, Shown, Requests, CallRec, Operations

\* A step of a thread keeps whose question is whose.
LEMMA ThreadTypes ==
    ASSUME LinkTypeInv, NEW c \in Callers, ThreadStep(c)
    PROVE  LinkTypeInv'
<1>0. /\ CallsAreTheirs /\ AnswersApart /\ RequestsMatch
      /\ queue \in Seq(Requests) /\ reply \in [Ids -> Answers \cup {NoAnswer}]
      /\ call \in [Callers -> CallRec] /\ 0 \notin Ids
  BY LinkTypes, TheCallers DEF LinkTypeInv
<1>1. /\ serving' = serving /\ reply' \in {reply, [reply EXCEPT ![call[c].id] = NoAnswer]}
      /\ Waits(c) => reply'[call[c].id] = NoAnswer
  BY DEF ThreadStep
<1>2. \A i \in Ids : reply'[i] # NoAnswer => reply[i] # NoAnswer /\ (Waits(c) => i # call[c].id)
  BY <1>0, <1>1
<1>3. ASSUME Sends(c) PROVE CallsAreTheirs' /\ AnswersApart' /\ RequestsMatch'
  <2>1. PICK op \in Operations, m \in AskedBy(c), i \in Ids :
            /\ FreeFor(c, i) /\ reply'[i] = NoAnswer
            /\ call' \in [Callers -> CallRec]
            /\ call'[c] = [op |-> op, m |-> m, id |-> i, mine |-> TRUE]
            /\ \A d \in Callers : d # c => call'[d] = call[d]
            /\ [id |-> i, m |-> m] \in Requests
            /\ queue' = Append(queue, [id |-> i, m |-> m])
    BY <1>3, SendsEffect
  <2>2. /\ DOMAIN queue' = DOMAIN queue \cup {Len(queue) + 1}
        /\ queue'[Len(queue) + 1] = [id |-> i, m |-> m]
        /\ \A k \in DOMAIN queue : queue'[k] = queue[k]
    BY <2>1, <1>0, Appended
  <2>3. /\ \A d \in Callers \ {c} : call[d].id # i
        /\ serving.id # i /\ \A k \in DOMAIN queue : queue[k].id # i
    BY <2>1 DEF FreeFor
  <2>4. call'[c].id = i /\ call'[c].m = m /\ i # 0
    BY <2>1, <1>0
  <2>5. CallsAreTheirs'
    BY <2>1, <2>4, <1>0 DEF CallsAreTheirs, Waits
  <2>6. AnswersApart'
    <3>1. \A d, e \in Callers : Waits(d)' /\ call'[d].id = call'[e].id => d = e
      BY <2>1, <2>3, <2>4, <1>0 DEF AnswersApart, Waits
    <3>2. ASSUME NEW j \in Ids, reply'[j] # NoAnswer
          PROVE  /\ \E d \in Callers : call'[d].id = j
                 /\ serving'.id # j /\ \A k \in DOMAIN queue' : queue'[k].id # j
      <4>1. /\ j # i /\ serving.id # j /\ \A k \in DOMAIN queue : queue[k].id # j
        BY <3>2, <2>1, <1>2, <1>0 DEF AnswersApart
      <4>2. PICK d \in Callers : call[d].id = j
        BY <3>2, <1>2, <1>0 DEF AnswersApart
      <4>3. d # c
        BY <4>2, <3>2, <1>2, <1>0 DEF Waits
      <4>4. call'[d].id = j
        BY <4>2, <4>3, <2>1
      <4>5. QED
        BY <4>1, <4>4, <2>2, <1>1
    <3>3. QED
      BY <3>1, <3>2 DEF AnswersApart
  <2>7. RequestsMatch'
    <3>1. SUFFICES ASSUME NEW d \in Callers, Waits(d)'
                   PROVE  /\ serving'.id = call'[d].id => serving'.m = call'[d].m
                          /\ \A k \in DOMAIN queue' : queue'[k].id = call'[d].id =>
                                queue'[k].m = call'[d].m
      BY DEF RequestsMatch
    <3>2. CASE d = c
      BY <3>2, <2>2, <2>3, <2>4, <1>1
    <3>3. CASE d # c
      <4>1. call'[d] = call[d] /\ Waits(d) /\ call[d].id # i
        BY <3>1, <3>3, <2>1, <2>3 DEF Waits
      <4>2. QED
        BY <4>1, <2>2, <1>0, <1>1 DEF RequestsMatch
    <3>4. QED
      BY <3>2, <3>3
  <2>8. QED
    BY <2>5, <2>6, <2>7
<1>4. ASSUME queue' = queue, call' \in [Callers -> CallRec], call'[c] = AtRest,
             \A d \in Callers : d # c =>
                call'[d].id = call[d].id /\ call'[d].m = call[d].m /\ (~Waits(d) => call'[d] = AtRest)
      PROVE  CallsAreTheirs' /\ AnswersApart' /\ RequestsMatch'
  <2>1. call'[c].id = 0
    BY <1>4 DEF AtRest
  <2>2. CallsAreTheirs'
    BY <2>1, <1>4, <1>0 DEF CallsAreTheirs, Waits
  <2>3. AnswersApart'
    <3>1. \A d, e \in Callers : Waits(d)' /\ call'[d].id = call'[e].id => d = e
      BY <2>1, <1>4, <1>0 DEF AnswersApart, Waits
    <3>2. ASSUME NEW j \in Ids, reply'[j] # NoAnswer
          PROVE  /\ \E d \in Callers : call'[d].id = j
                 /\ serving'.id # j /\ \A k \in DOMAIN queue' : queue'[k].id # j
      <4>1. /\ serving.id # j /\ \A k \in DOMAIN queue : queue[k].id # j
        BY <3>2, <1>2, <1>0 DEF AnswersApart
      <4>2. PICK d \in Callers : call[d].id = j
        BY <3>2, <1>2, <1>0 DEF AnswersApart
      <4>3. d # c
        BY <4>2, <3>2, <1>2, <1>0 DEF Waits
      <4>4. QED
        BY <4>1, <4>2, <4>3, <1>1, <1>4
    <3>3. QED
      BY <3>1, <3>2 DEF AnswersApart
  <2>4. RequestsMatch'
    <3>1. SUFFICES ASSUME NEW d \in Callers, Waits(d)'
                   PROVE  /\ serving'.id = call'[d].id => serving'.m = call'[d].m
                          /\ \A k \in DOMAIN queue' : queue'[k].id = call'[d].id =>
                                queue'[k].m = call'[d].m
      BY DEF RequestsMatch
    <3>2. d # c
      BY <3>1, <2>1 DEF Waits
    <3>3. Waits(d) /\ call'[d].id = call[d].id /\ call'[d].m = call[d].m
      BY <3>1, <3>2, <1>4 DEF Waits
    <3>4. QED
      BY <3>3, <1>0, <1>1, <1>4 DEF RequestsMatch
  <2>5. QED
    BY <2>2, <2>3, <2>4
<1>5. CASE Rest(c)
  <2>1. \A d \in Callers : ~Waits(d) => call[d] = AtRest
    BY CallerTypes
  <2>2. QED
    BY <1>5, <2>1, <1>4, RestEffect, ThreadRecords DEF LinkTypeInv, ThreadStep
<1>6. CASE c = Loop /\ Forget
  BY <1>6, <1>4, ForgetEffect, ThreadRecords DEF LinkTypeInv, ThreadStep
<1>7. CASE Sends(c)
  BY <1>7, <1>3, ThreadRecords DEF LinkTypeInv, ThreadStep
<1>8. QED
  BY <1>5, <1>6, <1>7 DEF ThreadStep

-----------------------------------------------------------------------------

\* The word is that of the last request that carries one, with a request more or not.
LEMMA ThreadWords ==
    ASSUME LinkTypeInv, WordInv, NEW c \in Callers, ThreadStep(c)
    PROVE  WordInv'
<1>0. queue \in Seq(Requests) /\ UNCHANGED <<serving, handle>>
  BY LinkTypes DEF LinkTypeInv, ThreadStep, hub
<1>1. CASE UNCHANGED <<queue, word>>
  BY <1>0, <1>1 DEF WordInv, LastWordWins, WordIsWaiting, WordIsServed, LastWord
<1>2. CASE Sends(c)
  <2>1. PICK op \in Operations, m \in AskedBy(c), i \in Ids :
            /\ Push(c, op, m, i) /\ [id |-> i, m |-> m] \in Requests
            /\ queue' = Append(queue, [id |-> i, m |-> m])
    BY <1>2, SendsEffect
  <2>2. /\ DOMAIN queue' = DOMAIN queue \cup {Len(queue) + 1}
        /\ Len(queue) + 1 \notin DOMAIN queue /\ queue'[Len(queue) + 1].m = m
        /\ \A k \in DOMAIN queue : k < Len(queue) + 1 /\ queue'[k] = queue[k]
    BY <2>1, <1>0, Appended
  <2>3. word' = IF m \in Words THEN AsWord(m) ELSE word
    BY <2>1 DEF Push
  <2>4. CASE m \in Words
    <3>1. ~LastWord'
      BY <2>2, <2>4 DEF LastWord
    <3>2. WordIsWaiting'
      BY <2>2, <2>3, <2>4 DEF WordIsWaiting
    <3>3. QED
      BY <3>1, <3>2 DEF WordInv, LastWordWins, WordIsServed
  <2>5. CASE m \notin Words
    <3>1. LastWord' <=> LastWord
      BY <2>2, <2>5 DEF LastWord
    <3>2. WordIsWaiting'
      BY <2>2, <2>3, <2>5 DEF WordIsWaiting, WordInv
    <3>3. QED
      BY <3>1, <3>2, <2>3, <2>5, <1>0 DEF WordInv, LastWordWins, WordIsServed
  <2>6. QED
    BY <2>4, <2>5
<1>3. QED
  BY <1>1, <1>2 DEF ThreadStep, Rest, Forget

\* The event loop goes on from its connect only with a yes.
LEMMA ThreadTruth ==
    ASSUME LinkTypeInv, TruthInv, NEW c \in Callers, ThreadStep(c)
    PROVE  TruthInv'
<1>0. /\ serving' = serving /\ reply \in [Ids -> Answers \cup {NoAnswer}]
      /\ reply' \in {reply, [reply EXCEPT ![call[c].id] = NoAnswer]}
      /\ \A d \in Callers : call[d] \in CallRec /\ (Waits(d) => call[d].id \in Ids)
                            /\ (~Waits(d) => call[d] = AtRest)
  BY LinkTypes, CallerTypes DEF LinkTypeInv, ThreadStep
<1>1. \A i \in Ids : reply'[i] = "yes" => reply[i] = "yes"
  BY <1>0 DEF NoAnswer
<1>2. call[Loop].m = "connect" => call[Loop].id \in Ids
  BY <1>0, TheCallers DEF AtRest
<1>3. ASSUME call'[Loop] = call[Loop], since' = since
      PROVE  TruthInv'
  BY <1>0, <1>1, <1>2, <1>3 DEF TruthInv, ToldTheTruth, YesIsTrue
<1>4. ASSUME call'[Loop] = AtRest
      PROVE  TruthInv'
  BY <1>4 DEF TruthInv, ToldTheTruth, YesIsTrue, AtRest
<1>5. CASE Sends(c)
  <2>1. PICK op \in Operations, m \in AskedBy(c), i \in Ids :
            /\ Push(c, op, m, i) /\ FreeFor(c, i) /\ reply'[i] = NoAnswer
            /\ c = Loop /\ m = "refresh_mode" =>
                   Waits(c) /\ call[c].m = "connect" /\ reply[call[c].id] = "yes"
    BY <1>5 DEF Sends
  <2>2. call' = [call EXCEPT ![c] = [op |-> op, m |-> m, id |-> i, mine |-> TRUE]]
        /\ since' = IF m = "connect" THEN Usable ELSE since
    BY <2>1 DEF Push
  <2>3. call \in [Callers -> CallRec]
    BY LinkTypes DEF LinkTypeInv
  <2>4. CASE c = Loop
    <3>1. call'[Loop].m = m /\ call'[Loop].id = i
      BY <2>2, <2>3, <2>4, TheCallers
    <3>2. CASE m = "connect"
      BY <3>1, <3>2, <2>1, <1>0 DEF TruthInv, ToldTheTruth, YesIsTrue, FreeFor, NoAnswer
    <3>3. CASE m = "refresh_mode"
      <4>1. since'
        BY <3>3, <2>1, <2>2, <2>4 DEF TruthInv, YesIsTrue
      <4>2. QED
        BY <4>1, <3>1, <3>3 DEF TruthInv, ToldTheTruth, YesIsTrue
    <3>4. CASE m \notin {"connect", "refresh_mode"}
      BY <3>1, <3>4 DEF TruthInv, ToldTheTruth, YesIsTrue
    <3>5. QED
      BY <3>2, <3>3, <3>4
  <2>5. CASE c # Loop
    <3>1. call'[Loop] = call[Loop] /\ m # "connect"
      BY <2>2, <2>3, <2>5, TheCallers
    <3>2. QED
      BY <3>1, <2>2, <1>3
  <2>6. QED
    BY <2>4, <2>5
<1>6. CASE Rest(c)
  <2>1. CASE c = Loop
    BY <2>1, <1>6, <1>4, RestEffect
  <2>2. CASE c # Loop
    <3>1. call'[Loop] = call[Loop]
      BY <2>2, <1>6, RestEffect, TheCallers
    <3>2. since' = (since /\ TRUE)
      BY <2>2, <1>6 DEF Rest
    <3>3. since \in BOOLEAN
      BY LinkTypes DEF LinkTypeInv
    <3>4. since' = since
      BY <3>2, <3>3
    <3>5. QED
      BY <3>1, <3>4, <1>3
  <2>3. QED
    BY <2>1, <2>2
<1>7. CASE c = Loop /\ Forget
  BY <1>7, <1>4, ForgetEffect
<1>8. QED
  BY <1>5, <1>6, <1>7 DEF ThreadStep

LEMMA GatewayKeeps ==
    ASSUME LinkInv, GatewayThreads
    PROVE  LinkInv'
  BY GatewayStep, ThreadTypes, ThreadWords, ThreadTruth DEF LinkInv

-----------------------------------------------------------------------------
(* robotd: the loop that serves *)

\* BRPOP takes the oldest request, and the others move up.
LEMMA Taken ==
    ASSUME queue \in Seq(Requests), Take
    PROVE  /\ Len(queue) > 0 /\ queue[1] \in Requests
           /\ queue' \in Seq(Requests)
           /\ DOMAIN queue' = 1 .. Len(queue) - 1
           /\ \A k \in DOMAIN queue' : queue'[k] = queue[k + 1]
           /\ serving' = [id |-> queue[1].id, m |-> queue[1].m, out |-> NoAnswer]
<1>1. /\ queue # <<>>
      /\ serving' = [id |-> queue[1].id, m |-> queue[1].m, out |-> NoAnswer]
      /\ queue' = [k \in 1 .. Len(queue) - 1 |-> IF k < 1 THEN queue[k] ELSE queue[k + 1]]
  BY DEF Take, Oldest
<1>2. Len(queue) \in Nat /\ Len(queue) > 0
  BY <1>1
<1>3. \A k \in 1 .. Len(queue) - 1 : k + 1 \in 1 .. Len(queue) /\ ~(k < 1)
  BY <1>2
<1>4. queue' = [k \in 1 .. Len(queue) - 1 |-> queue[k + 1]]
  BY <1>1, <1>3
<1>5. \A k \in 1 .. Len(queue) - 1 : queue[k + 1] \in Requests
  BY <1>3
<1>6. Len(queue) - 1 \in Nat
  BY <1>2
<1>7. queue' \in Seq(Requests)
  BY <1>4, <1>5, <1>6
<1>8. QED
  BY <1>1, <1>2, <1>4, <1>7

LEMMA TakeTypes ==
    ASSUME LinkTypeInv, Take
    PROVE  LinkTypeInv'
<1>0. queue \in Seq(Requests) /\ AnswersApart /\ RequestsMatch /\ CallsAreTheirs /\ ListedForThem
  BY LinkTypes DEF LinkTypeInv
<1>1. /\ Len(queue) > 0 /\ queue[1] \in Requests /\ queue' \in Seq(Requests)
      /\ DOMAIN queue' = 1 .. Len(queue) - 1
      /\ \A k \in DOMAIN queue' : queue'[k] = queue[k + 1]
      /\ serving' = [id |-> queue[1].id, m |-> queue[1].m, out |-> NoAnswer]
  BY <1>0, Taken
<1>2. /\ daemon # "down" /\ UNCHANGED <<reply, alive, daemon, hub, link, gateway, faults, history>>
  BY DEF Take
<1>3. UNCHANGED <<reply, alive, daemon, known, handle, bridge, link, listed, mirror, call, faults, word, since>>
  BY <1>2 DEF hub, gateway, history
<1>4. \A k \in DOMAIN queue' : k + 1 \in DOMAIN queue /\ k + 1 # 1 /\ queue'[k] = queue[k + 1]
  BY <1>0, <1>1
<1>5. 1 \in DOMAIN queue
  BY <1>0, <1>1
<1>6. serving'.id = queue[1].id /\ serving'.m = queue[1].m
  BY <1>1
<1>7. \A j, k \in DOMAIN queue : queue[j].id = queue[k].id => j = k
  BY LinkTypes DEF LinkTypeInv
<1>8. \A j, k \in DOMAIN queue' : /\ queue'[k].id # serving'.id
                                  /\ queue'[j].id = queue'[k].id => j = k
  <2>1. \A k \in DOMAIN queue' : queue'[k].id # serving'.id
    BY <1>4, <1>5, <1>6, <1>7
  <2>2. ASSUME NEW j \in DOMAIN queue', NEW k \in DOMAIN queue', queue'[j].id = queue'[k].id
        PROVE  j = k
    <3>1. j + 1 = k + 1
      BY <2>2, <1>4, <1>7
    <3>2. QED
      BY <3>1, <1>0, <1>1
  <2>3. QED
    BY <2>1, <2>2
<1>9. serving' \in [id : Ids, m : Methods, out : Answers \cup {NoAnswer}]
  BY <1>1 DEF Requests
<1>10. Shown'
  BY <1>3, ShownStays, LinkTypes DEF LinkTypeInv
<1>11. LinkTypeOK'
  BY <1>1, <1>2, <1>3, <1>8, <1>9, <1>10, LinkTypes DEF LinkTypeInv, LinkTypeOK, Shown, Requests, CallRec, Operations
<1>12. CallsAreTheirs' /\ ListedForThem'
  BY <1>0, <1>3 DEF CallsAreTheirs, ListedForThem, Waits, Mine
<1>13. AnswersApart'
  BY <1>0, <1>3, <1>4, <1>5, <1>6 DEF AnswersApart, Waits
<1>14. RequestsMatch'
  BY <1>0, <1>3, <1>4, <1>5, <1>6 DEF RequestsMatch, Waits
<1>15. QED
  BY <1>11, <1>12, <1>13, <1>14 DEF LinkTypeInv

\* What is taken is the oldest word, if it is one; the last one is still the last.
LEMMA TakeWords ==
    ASSUME LinkTypeInv, WordInv, Take
    PROVE  WordInv'
<1>0. /\ queue \in Seq(Requests) /\ serving = NoRequest
      /\ UNCHANGED <<word, handle>> /\ WordIsWaiting /\ LastWordWins
  BY LinkTypes DEF LinkTypeInv, Take, hub, history, WordInv
<1>1. /\ Len(queue) > 0 /\ DOMAIN queue' = 1 .. Len(queue) - 1
      /\ \A k \in DOMAIN queue' : queue'[k] = queue[k + 1]
      /\ serving'.m = queue[1].m /\ serving'.out = NoAnswer
  BY <1>0, Taken
<1>2. Len(queue) \in Nat /\ DOMAIN queue = 1 .. Len(queue)
  BY <1>0
<1>3. \A j \in DOMAIN queue : j = 1 \/ (j - 1 \in DOMAIN queue' /\ queue'[j - 1] = queue[j])
  BY <1>1, <1>2
<1>4. \A k \in DOMAIN queue' : k + 1 \in DOMAIN queue /\ k \in Nat
  BY <1>1, <1>2
<1>5. WordIsWaiting'
  <2>1. SUFFICES ASSUME NEW k \in DOMAIN queue', queue'[k].m \in Words,
                        \A j \in DOMAIN queue' : j > k => queue'[j].m \notin Words
                 PROVE  word' = AsWord(queue'[k].m)
    BY DEF WordIsWaiting
  <2>2. queue[k + 1].m \in Words /\ k + 1 \in DOMAIN queue /\ queue'[k] = queue[k + 1]
    BY <2>1, <1>1, <1>4
  <2>3. ASSUME NEW j \in DOMAIN queue, j > k + 1 PROVE queue[j].m \notin Words
    <3>1. j - 1 \in DOMAIN queue' /\ queue'[j - 1] = queue[j] /\ j - 1 > k
      BY <2>3, <1>2, <1>3, <1>4
    <3>2. QED
      BY <3>1, <2>1
  <2>4. QED
    BY <2>2, <2>3, <1>0 DEF WordIsWaiting
<1>6. ASSUME LastWord' PROVE \A j \in DOMAIN queue : j > 1 => queue[j].m \notin Words
  BY <1>6, <1>3, <1>2 DEF LastWord
<1>7. WordIsServed'
  <2>1. SUFFICES ASSUME LastWord', queue[1].m \in Words
                 PROVE  word' = AsWord(queue[1].m)
    BY <1>1 DEF WordIsServed
  <2>2. 1 \in DOMAIN queue
    BY <1>1, <1>2
  <2>3. QED
    BY <2>1, <2>2, <1>6, <1>0 DEF WordIsWaiting
<1>8. LastWordWins'
  <2>1. SUFFICES ASSUME LastWord', queue[1].m \notin Words, word' # "none"
                 PROVE  (handle' # "none") <=> (word' = "connect")
    BY <1>1 DEF LastWordWins
  <2>2. LastWord
    BY <2>1, <1>6, <1>2 DEF LastWord
  <2>3. serving.m \notin Words
    BY <1>0 DEF NoRequest, Words
  <2>4. QED
    BY <2>1, <2>2, <2>3, <1>0 DEF LastWordWins
<1>9. QED
  BY <1>5, <1>7, <1>8 DEF WordInv

LEMMA TakeTruth ==
    ASSUME LinkTypeInv, TruthInv, Take
    PROVE  TruthInv'
<1>1. UNCHANGED <<reply, call, since>> /\ serving'.out = NoAnswer
  BY DEF Take, gateway, history
<1>2. QED
  BY <1>1 DEF TruthInv, ToldTheTruth, YesIsTrue, NoAnswer

\* The request that is executed has an answer then; what is held changes only with a word.
LEMMA ExecuteEffect ==
    ASSUME LinkTypeInv, Execute
    PROVE  /\ serving \in [id : Ids, m : Methods, out : Answers \cup {NoAnswer}]
           /\ serving' \in [id : Ids, m : Methods, out : Answers]
           /\ serving'.id = serving.id /\ serving'.m = serving.m /\ serving.out = NoAnswer
           /\ known' \in BOOLEAN /\ handle' \in {"none", "good", "stale"}
           /\ bridge' \in {"none", "runs", "lost", "orphan"} /\ link' \in {"up", "down", "gone"}
           /\ word' \in {"none", "connect", "disconnect"} /\ since' \in BOOLEAN
           /\ daemon # "down"
           /\ UNCHANGED <<queue, reply, alive, daemon, listed, mirror, call, faults>>
           /\ \/ serving.m \notin Words /\ UNCHANGED <<word, handle, since>>
              \/ serving.m \in {"disconnect", "bus_reset"} /\ handle' = "none" /\ UNCHANGED <<word, since>>
              \/ /\ serving.m = "connect" /\ serving'.out = "no" /\ UNCHANGED <<handle, since>>
                 /\ word' = IF LastWord THEN "none" ELSE word
              \/ /\ serving.m = "connect" /\ handle' = "good" /\ UNCHANGED word
                 /\ since' = (since \/ call[Loop].m = "connect")
<1>0. /\ serving \in {NoRequest} \cup [id : Ids, m : Methods, out : Answers \cup {NoAnswer}]
      /\ handle \in {"none", "good", "stale"}
      /\ bridge \in {"none", "runs", "lost", "orphan"} /\ link \in {"up", "down", "gone"}
      /\ word \in {"none", "connect", "disconnect"}
      /\ daemon = "down" => serving = NoRequest
  BY LinkTypes DEF LinkTypeInv
<1>1. known \in BOOLEAN /\ since \in BOOLEAN
  BY LinkTypes DEF LinkTypeInv
<1>2. /\ serving # NoRequest /\ serving.out = NoAnswer
      /\ UNCHANGED <<queue, reply, alive, daemon, listed, mirror, call, faults>>
  BY DEF Execute, gateway
<1>3. /\ serving \in [id : Ids, m : Methods, out : Answers \cup {NoAnswer}] /\ daemon # "down"
  BY <1>0, <1>2
<1>4. ASSUME NEW a \in Answers, Out(a)
      PROVE  /\ serving' \in [id : Ids, m : Methods, out : Answers]
             /\ serving'.id = serving.id /\ serving'.m = serving.m /\ serving'.out = a
  BY <1>3, <1>4 DEF Out
<1>5. /\ \A b \in BOOLEAN : As(b) \in Answers
      /\ {"yes", "no", "empty"} \subseteq Answers
  BY DEF As, Answers
<1>6. CASE serving.m = "scan" /\ DoScan
  <2>1. /\ known' = (known \/ link # "gone") /\ UNCHANGED <<handle, bridge, link, history>>
        /\ \E a \in Answers : Out(a)
    BY <1>6, <1>5 DEF DoScan
  <2>2. known' \in BOOLEAN
    BY <2>1, <1>1
  <2>3. QED
    BY <2>1, <2>2, <1>0, <1>1, <1>2, <1>3, <1>4, <1>6 DEF history, Words
<1>7. CASE known' = known /\ serving.m = "connect" /\ DoConnect
  <2>1. CASE /\ Out("no") /\ UNCHANGED <<handle, bridge, since>> /\ link' \in {"up", link}
             /\ word' = IF LastWord THEN "none" ELSE word
    BY <2>1, <1>0, <1>1, <1>2, <1>3, <1>4, <1>5, <1>7
  <2>2. CASE /\ Out("yes") /\ handle' = "good" /\ bridge' = "runs" /\ link' = "up"
             /\ since' = (since \/ call[Loop].m = "connect") /\ UNCHANGED word
    <3>1. since' \in BOOLEAN
      BY <2>2, <1>1
    <3>2. QED
      BY <2>2, <3>1, <1>0, <1>1, <1>2, <1>3, <1>4, <1>5, <1>7
  <2>3. QED
    BY <2>1, <2>2, <1>7 DEF DoConnect
<1>8. CASE known' = known /\ serving.m = "disconnect" /\ DoDisconnect
  BY <1>8, <1>0, <1>1, <1>2, <1>3, <1>4, <1>5 DEF DoDisconnect, history
<1>9. CASE known' = known /\ serving.m = "bus_reset" /\ DoReset
  BY <1>9, <1>0, <1>1, <1>2, <1>3, <1>4, <1>5 DEF DoReset, history
<1>10. CASE known' = known /\ serving.m = "down_interface" /\ DoDown
  BY <1>10, <1>0, <1>1, <1>2, <1>3, <1>4, <1>5 DEF DoDown, history, Words
<1>11. CASE known' = known /\ serving.m = "refresh_mode" /\ DoRefresh
  BY <1>11, <1>0, <1>1, <1>2, <1>3, <1>4, <1>5 DEF DoRefresh, history, Words
<1>12. CASE known' = known /\ serving.m = "lost" /\ DoLost
  BY <1>12, <1>0, <1>1, <1>2, <1>3, <1>4, <1>5 DEF DoLost, history, Words
<1>13. QED
  BY <1>6, <1>7, <1>8, <1>9, <1>10, <1>11, <1>12 DEF Execute

LEMMA ExecuteKeeps ==
    ASSUME LinkInv, Execute
    PROVE  LinkInv'
<1>0. LinkTypeInv /\ WordInv /\ TruthInv
  BY DEF LinkInv
<1>1. /\ serving \in [id : Ids, m : Methods, out : Answers \cup {NoAnswer}]
      /\ serving' \in [id : Ids, m : Methods, out : Answers]
      /\ serving'.id = serving.id /\ serving'.m = serving.m /\ serving.out = NoAnswer
      /\ known' \in BOOLEAN /\ handle' \in {"none", "good", "stale"}
      /\ bridge' \in {"none", "runs", "lost", "orphan"} /\ link' \in {"up", "down", "gone"}
      /\ word' \in {"none", "connect", "disconnect"} /\ since' \in BOOLEAN
      /\ daemon # "down"
      /\ UNCHANGED <<queue, reply, alive, daemon, listed, mirror, call, faults>>
  BY <1>0, ExecuteEffect
<1>2. \/ serving.m \notin Words /\ UNCHANGED <<word, handle, since>>
      \/ serving.m \in {"disconnect", "bus_reset"} /\ handle' = "none" /\ UNCHANGED <<word, since>>
      \/ /\ serving.m = "connect" /\ serving'.out = "no" /\ UNCHANGED <<handle, since>>
         /\ word' = IF LastWord THEN "none" ELSE word
      \/ /\ serving.m = "connect" /\ handle' = "good" /\ UNCHANGED word
         /\ since' = (since \/ call[Loop].m = "connect")
  BY <1>0, ExecuteEffect
<1>3. LinkTypeInv'
  <2>1. serving' \in [id : Ids, m : Methods, out : Answers \cup {NoAnswer}]
    BY <1>1
  <2>2. Shown'
    BY <1>0, <1>1, ShownStays, LinkTypes DEF LinkTypeInv
  <2>3. LinkTypeOK'
    BY <1>0, <1>1, <2>1, <2>2, LinkTypes
    DEF LinkTypeInv, LinkTypeOK, Shown, Requests, CallRec, Operations
  <2>4. CallsAreTheirs' /\ ListedForThem' /\ AnswersApart' /\ RequestsMatch'
    BY <1>0, <1>1
    DEF LinkTypeInv, CallsAreTheirs, ListedForThem, AnswersApart, RequestsMatch, Waits, Mine
  <2>5. QED
    BY <2>3, <2>4 DEF LinkTypeInv
<1>4. WordInv'
  <2>0. LastWord' <=> LastWord
    BY <1>1 DEF LastWord
  <2>1. serving'.out # NoAnswer
    BY <1>1 DEF Answers, NoAnswer
  <2>2. WordIsServed'
    BY <2>1 DEF WordIsServed
  <2>3. WordIsWaiting'
    <3>1. CASE word' = word
      BY <3>1, <1>0, <1>1 DEF WordInv, WordIsWaiting
    <3>2. CASE LastWord
      BY <3>2, <1>1 DEF LastWord, WordIsWaiting
    <3>3. QED
      BY <3>1, <3>2, <1>2
  <2>4. LastWordWins'
    <3>1. CASE serving.m \notin Words /\ UNCHANGED <<word, handle>>
      BY <3>1, <2>0, <1>0, <1>1 DEF WordInv, LastWordWins
    <3>2. CASE serving.m \in {"disconnect", "bus_reset"} /\ handle' = "none" /\ UNCHANGED word
      BY <3>2, <2>0, <1>0, <1>1 DEF WordInv, WordIsServed, LastWordWins, Words, AsWord
    <3>3. CASE word' = IF LastWord THEN "none" ELSE word
      BY <3>3, <2>0 DEF LastWordWins
    <3>4. CASE serving.m = "connect" /\ handle' = "good" /\ UNCHANGED word
      BY <3>4, <2>0, <1>0, <1>1 DEF WordInv, WordIsServed, LastWordWins, Words, AsWord
    <3>5. QED
      BY <3>1, <3>2, <3>3, <3>4, <1>2
  <2>5. QED
    BY <2>2, <2>3, <2>4 DEF WordInv
<1>5. TruthInv'
  <2>1. since => since'
    BY <1>2
  <2>2. ToldTheTruth'
    BY <2>1, <1>0, <1>1 DEF TruthInv, ToldTheTruth
  <2>3. ASSUME call[Loop].m = "connect", serving.id = call[Loop].id, serving'.out = "yes"
        PROVE  since'
    <3>1. call[Loop] # AtRest
      BY <2>3 DEF AtRest
    <3>2. Waits(Loop)
      BY <3>1, <1>0, CallerTypes, TheCallers
    <3>3. serving.m = "connect"
      BY <2>3, <3>2, <1>0, TheCallers DEF LinkTypeInv, RequestsMatch
    <3>4. since' = (since \/ call[Loop].m = "connect")
      BY <3>3, <2>3, <1>2 DEF Words
    <3>5. QED
      BY <3>4, <2>3
  <2>4. YesIsTrue'
    BY <2>1, <2>3, <1>0, <1>1 DEF TruthInv, YesIsTrue
  <2>5. QED
    BY <2>2, <2>4 DEF TruthInv
<1>6. QED
  BY <1>3, <1>4, <1>5 DEF LinkInv

\* The answer goes to the caller that waits under the identity of the request.
LEMMA AnswerKeeps ==
    ASSUME LinkInv, Answer
    PROVE  LinkInv'
<1>0. LinkTypeInv /\ WordInv /\ TruthInv
  BY DEF LinkInv
<1>1. /\ serving.out # NoAnswer /\ serving' = NoRequest
      /\ reply' = IF Awaited(serving.id) THEN [reply EXCEPT ![serving.id] = serving.out] ELSE reply
      /\ UNCHANGED <<queue, alive, daemon, known, handle, bridge, link, listed, mirror, call,
                     faults, word, since>>
  BY DEF Answer, ReplyKey, hub, gateway, history
<1>2. /\ serving \in [id : Ids, m : Methods, out : Answers \cup {NoAnswer}]
      /\ reply \in [Ids -> Answers \cup {NoAnswer}]
  <2>1. serving # NoRequest
    BY <1>1 DEF NoRequest
  <2>2. QED
    BY <2>1, <1>0, LinkTypes DEF LinkTypeInv
<1>3. reply' \in [Ids -> Answers \cup {NoAnswer}]
  BY <1>1, <1>2
<1>4. NoRequest.id = 0 /\ NoRequest.m = "none" /\ NoRequest.out = NoAnswer /\ 0 \notin Ids
  BY TheCallers DEF NoRequest
<1>5. /\ queue \in Seq(Requests) /\ \A k \in DOMAIN queue : queue[k].id # serving.id
      /\ \A k \in DOMAIN queue : queue[k].id # 0
  <2>1. /\ queue \in Seq(Requests) /\ \A k \in DOMAIN queue : queue[k].id # serving.id
    BY <1>0, LinkTypes DEF LinkTypeInv
  <2>2. \A k \in DOMAIN queue : queue[k] \in Requests
    BY <2>1
  <2>3. QED
    BY <2>1, <2>2, <1>4 DEF Requests
<1>6. LinkTypeInv'
  <2>1. Shown'
    BY <1>0, <1>1, ShownStays, LinkTypes DEF LinkTypeInv
  <2>2. LinkTypeOK'
    BY <1>0, <1>1, <1>3, <1>4, <1>5, <2>1, LinkTypes
    DEF LinkTypeInv, LinkTypeOK, Shown, Requests, CallRec, Operations
  <2>3. CallsAreTheirs' /\ ListedForThem'
    BY <1>0, <1>1 DEF LinkTypeInv, CallsAreTheirs, ListedForThem, Waits, Mine
  <2>4. AnswersApart'
    <3>1. \A c, d \in Callers : Waits(c)' /\ call'[c].id = call'[d].id => c = d
      BY <1>0, <1>1 DEF LinkTypeInv, AnswersApart, Waits
    <3>2. ASSUME NEW i \in Ids, reply'[i] # NoAnswer
          PROVE  /\ \E c \in Callers : call'[c].id = i
                 /\ serving'.id # i /\ \A k \in DOMAIN queue' : queue'[k].id # i
      <4>1. CASE i = serving.id /\ Awaited(serving.id)
        <5>1. \E c \in Callers : call[c].id = i
          BY <4>1 DEF Awaited, ReplyKey
        <5>2. QED
          BY <4>1, <5>1, <1>1, <1>4, <1>5
      <4>2. CASE ~(i = serving.id /\ Awaited(serving.id))
        <5>1. reply[i] # NoAnswer
          BY <4>2, <3>2, <1>1, <1>2
        <5>2. QED
          BY <5>1, <1>0, <1>1, <1>4 DEF LinkTypeInv, AnswersApart
      <4>3. QED
        BY <4>1, <4>2
    <3>3. QED
      BY <3>1, <3>2 DEF AnswersApart
  <2>5. RequestsMatch'
    BY <1>0, <1>1, <1>4 DEF LinkTypeInv, RequestsMatch, Waits
  <2>6. QED
    BY <2>2, <2>3, <2>4, <2>5 DEF LinkTypeInv
<1>7. WordInv'
  <2>1. LastWord' <=> LastWord
    BY <1>1 DEF LastWord
  <2>2. LastWordWins'
    BY <2>1, <1>0, <1>1 DEF WordInv, LastWordWins
  <2>3. WordIsWaiting' /\ WordIsServed'
    BY <1>0, <1>1, <1>4 DEF WordInv, WordIsWaiting, WordIsServed, Words
  <2>4. QED
    BY <2>2, <2>3 DEF WordInv
<1>8. TruthInv'
  <2>1. ASSUME call[Loop].m = "connect", reply'[call[Loop].id] = "yes"
        PROVE  since
    <3>1. CASE serving.id = call[Loop].id /\ serving.out = "yes"
      BY <3>1, <2>1, <1>0 DEF TruthInv, YesIsTrue
    <3>2. CASE reply[call[Loop].id] = "yes"
      BY <3>2, <2>1, <1>0 DEF TruthInv, YesIsTrue
    <3>3. QED
      BY <3>1, <3>2, <2>1, <1>1, <1>2
  <2>2. QED
    BY <2>1, <1>0, <1>1, <1>4 DEF TruthInv, ToldTheTruth, YesIsTrue, NoAnswer
<1>9. QED
  BY <1>6, <1>7, <1>8 DEF LinkInv

-----------------------------------------------------------------------------
(* What happens to adapter, robotd and gateway *)

\* Neither the adapter nor the end or the start of robotd touches a request or an answer.
Outside == Unplug \/ Plug \/ DeclareLost \/ Die \/ Boot \/ Beat \/ ExpireAlive

LEMMA OutsideTypes ==
    ASSUME LinkTypeInv, Outside
    PROVE  /\ LinkTypeOK' /\ serving' \in {serving, NoRequest}
           /\ UNCHANGED <<queue, reply, listed, mirror, call, since>>
<1>1. UNCHANGED <<queue, reply, listed, mirror, call, since>> /\ serving' \in {serving, NoRequest}
  BY DEF Outside, Unplug, Plug, DeclareLost, Die, Boot, Beat, ExpireAlive, gateway, history
<1>2. Shown'
  BY <1>1, ShownStays, LinkTypes DEF LinkTypeInv
<1>3. /\ serving \in {NoRequest} \cup [id : Ids, m : Methods, out : Answers \cup {NoAnswer}]
      /\ handle \in {"none", "good", "stale"} /\ daemon \in {"down", "fresh", "up"}
      /\ bridge \in {"none", "runs", "lost", "orphan"} /\ link \in {"up", "down", "gone"}
      /\ word \in {"none", "connect", "disconnect"} /\ faults \in 0 .. MaxFaults
      /\ daemon = "down" => serving = NoRequest /\ handle = "none" /\ bridge \in {"none", "orphan"}
  BY LinkTypes DEF LinkTypeInv
<1>4. known \in BOOLEAN /\ alive \in BOOLEAN
  BY LinkTypes DEF LinkTypeInv
<1>5. daemon = "down" => ~known
  BY LinkTypes DEF LinkTypeInv
<1>6. known' \in BOOLEAN /\ alive' \in BOOLEAN
  <2>1. known' \in {known, FALSE, link # "gone"} /\ alive' \in {alive, TRUE, FALSE}
    BY DEF Outside, Unplug, Plug, DeclareLost, Die, Boot, Beat, ExpireAlive, hub
  <2>2. QED
    BY <2>1, <1>4
<1>7. /\ serving' \in {NoRequest} \cup [id : Ids, m : Methods, out : Answers \cup {NoAnswer}]
      /\ handle' \in {"none", "good", "stale"} /\ daemon' \in {"down", "fresh", "up"}
      /\ bridge' \in {"none", "runs", "lost", "orphan"} /\ link' \in {"up", "down", "gone"}
      /\ word' \in {"none", "connect", "disconnect"} /\ faults' \in 0 .. MaxFaults
  BY <1>3, SwitchAssumption
  DEF Outside, Unplug, Plug, DeclareLost, Die, Boot, Beat, ExpireAlive, MayFail, hub, history
<1>8. daemon' = "down" => serving' = NoRequest /\ handle' = "none" /\ bridge' \in {"none", "orphan"}
  BY <1>3 DEF Outside, Unplug, Plug, DeclareLost, Die, Boot, Beat, ExpireAlive, hub
<1>9. daemon' = "down" => ~known'
  BY <1>5 DEF Outside, Unplug, Plug, DeclareLost, Die, Boot, Beat, ExpireAlive, hub
<1>10. /\ queue \in Seq(Requests) /\ reply \in [Ids -> Answers \cup {NoAnswer}]
       /\ call \in [Callers -> CallRec]
       /\ \A j, k \in DOMAIN queue : /\ queue[k].id # serving.id
                                     /\ queue[j].id = queue[k].id => j = k
  BY LinkTypes DEF LinkTypeInv
<1>11. \A k \in DOMAIN queue : queue[k].id # 0
  <2>1. \A k \in DOMAIN queue : queue[k] \in Requests
    BY <1>10
  <2>2. QED
    BY <2>1, TheCallers DEF Requests
<1>12. \A j, k \in DOMAIN queue' : /\ queue'[k].id # serving'.id
                                   /\ queue'[j].id = queue'[k].id => j = k
  BY <1>1, <1>10, <1>11 DEF NoRequest
<1>13. since' \in BOOLEAN
  BY <1>1, LinkTypes DEF LinkTypeInv
<1>14. QED
  BY <1>1, <1>2, <1>6, <1>7, <1>8, <1>9, <1>10, <1>12, <1>13
  DEF LinkTypeOK, Shown, Requests, CallRec, Operations

LEMMA OutsideKeeps ==
    ASSUME LinkInv, Outside
    PROVE  LinkInv'
<1>0. LinkTypeInv /\ WordInv /\ TruthInv
  BY DEF LinkInv
<1>1. /\ LinkTypeOK' /\ serving' \in {serving, NoRequest}
      /\ UNCHANGED <<queue, reply, listed, mirror, call, since>>
  BY <1>0, OutsideTypes
<1>2. NoRequest.id = 0 /\ NoRequest.m = "none" /\ NoRequest.out = NoAnswer /\ 0 \notin Ids
  BY TheCallers DEF NoRequest
<1>3. LinkTypeInv'
  <2>1. CallsAreTheirs' /\ ListedForThem'
    BY <1>0, <1>1 DEF LinkTypeInv, CallsAreTheirs, ListedForThem, Waits, Mine
  <2>2. AnswersApart' /\ RequestsMatch'
    BY <1>0, <1>1, <1>2 DEF LinkTypeInv, AnswersApart, RequestsMatch, Waits
  <2>3. QED
    BY <1>1, <2>1, <2>2 DEF LinkTypeInv
<1>4. LastWord' <=> LastWord
  BY <1>1 DEF LastWord
<1>5. WordInv'
  <2>1. CASE Die
    <3>1. serving' = NoRequest /\ word' = IF LastWord THEN "none" ELSE word
      BY <2>1 DEF Die
    <3>2. LastWordWins' /\ WordIsServed'
      BY <3>1, <1>2, <1>4 DEF LastWordWins, WordIsServed, Words
    <3>3. WordIsWaiting'
      <4>1. CASE LastWord
        BY <4>1, <1>1 DEF LastWord, WordIsWaiting
      <4>2. CASE ~LastWord
        BY <4>2, <3>1, <1>0, <1>1 DEF WordInv, WordIsWaiting
      <4>3. QED
        BY <4>1, <4>2
    <3>4. QED
      BY <3>2, <3>3 DEF WordInv
  <2>2. CASE Outside /\ ~Die
    <3>1. serving' = serving /\ word' = word /\ (handle' = "none" <=> handle = "none")
      BY <2>2 DEF Outside, Unplug, Plug, DeclareLost, Boot, Beat, ExpireAlive, hub, history
    <3>2. QED
      BY <3>1, <1>0, <1>1, <1>4 DEF WordInv, LastWordWins, WordIsWaiting, WordIsServed
  <2>3. QED
    BY <2>1, <2>2
<1>6. TruthInv'
  BY <1>0, <1>1, <1>2 DEF TruthInv, ToldTheTruth, YesIsTrue, NoAnswer
<1>7. QED
  BY <1>3, <1>5, <1>6 DEF LinkInv

\* The gateway comes back with nobody waiting, or with the event loop waiting for its scan.
LEMMA RestartKeeps ==
    ASSUME LinkInv, RestartGateway
    PROVE  LinkInv'
<1>0. LinkTypeInv /\ WordInv /\ TruthInv
  BY DEF LinkInv
<1>1. /\ faults < MaxFaults /\ faults' = faults + 1
      /\ reply' = [i \in Ids |-> NoAnswer]
      /\ UNCHANGED <<alive, daemon, serving, known, handle, bridge, link, word>>
  BY DEF RestartGateway, MayFail, hub
<1>2. listed' = FALSE /\ mirror' = FALSE /\ since' = FALSE
  BY DEF RestartGateway
<1>3. /\ queue \in Seq(Requests) /\ faults' \in 0 .. MaxFaults
      /\ \A j, k \in DOMAIN queue : /\ queue[k].id # serving.id
                                    /\ queue[j].id = queue[k].id => j = k
  BY <1>0, <1>1, SwitchAssumption, LinkTypes DEF LinkTypeInv
<1>4. Shown' /\ reply' \in [Ids -> Answers \cup {NoAnswer}]
  BY <1>1, <1>2 DEF Shown
<1>5. /\ alive' \in BOOLEAN /\ known' \in BOOLEAN /\ since' \in BOOLEAN
  BY <1>0, <1>1, <1>2, LinkTypes DEF LinkTypeInv
<1>6. /\ daemon' \in {"down", "fresh", "up"}
      /\ serving' \in {NoRequest} \cup [id : Ids, m : Methods, out : Answers \cup {NoAnswer}]
      /\ handle' \in {"none", "good", "stale"}
      /\ bridge' \in {"none", "runs", "lost", "orphan"} /\ link' \in {"up", "down", "gone"}
      /\ word' \in {"none", "connect", "disconnect"}
  BY <1>0, <1>1, LinkTypes DEF LinkTypeInv
<1>7. daemon' = "down" => /\ serving' = NoRequest /\ handle' = "none" /\ ~known'
                          /\ bridge' \in {"none", "orphan"}
  BY <1>0, <1>1, LinkTypes DEF LinkTypeInv
<1>8. AtRest \in CallRec /\ "scan" \in Methods /\ "scan" \in Methods \ {"lost"} /\ "scan" \notin Words
  BY DEF AtRest, CallRec, Operations, Methods, Words
<1>9. CASE call' = [c \in Callers |-> AtRest] /\ UNCHANGED queue
  <2>1. call' \in [Callers -> CallRec] /\ \A c \in Callers : call'[c] = AtRest /\ call'[c].id = 0
    BY <1>8, <1>9 DEF AtRest
  <2>2. LinkTypeOK'
    BY <1>1, <1>3, <1>4, <1>9, <1>5, <1>6, <1>7, <2>1 DEF LinkTypeOK, Shown, Requests, CallRec, Operations
  <2>3. CallsAreTheirs' /\ ListedForThem' /\ AnswersApart' /\ RequestsMatch'
    BY <2>1, <1>1, <1>2, TheCallers
    DEF CallsAreTheirs, ListedForThem, AnswersApart, RequestsMatch, Waits, AtRest
  <2>4. WordInv'
    BY <1>0, <1>1, <1>9 DEF WordInv, LastWordWins, WordIsWaiting, WordIsServed, LastWord
  <2>5. TruthInv'
    BY <2>1, TheCallers DEF TruthInv, ToldTheTruth, YesIsTrue, AtRest
  <2>6. QED
    BY <2>2, <2>3, <2>4, <2>5 DEF LinkInv, LinkTypeInv
<1>10. CASE /\ \E i \in Ids : ~Used(i)
           /\ queue' = Append(queue, [id |-> FreshId, m |-> "scan"])
           /\ call' = [[c \in Callers |-> AtRest] EXCEPT
                          ![Loop] = [op |-> "restore", m |-> "scan", id |-> FreshId, mine |-> TRUE]]
  <2>1. FreshId \in Ids /\ FreeFor(Loop, FreshId) /\ FreshId # 0
    BY <1>0, <1>10, Unused, UnusedIsFree, TheCallers
  <2>2. [id |-> FreshId, m |-> "scan"] \in Requests
        /\ [op |-> "restore", m |-> "scan", id |-> FreshId, mine |-> TRUE] \in CallRec
    BY <2>1, <1>8 DEF Requests, CallRec, Operations
  <2>3. /\ queue' \in Seq(Requests)
        /\ DOMAIN queue' = DOMAIN queue \cup {Len(queue) + 1}
        /\ Len(queue) + 1 \notin DOMAIN queue
        /\ queue'[Len(queue) + 1] = [id |-> FreshId, m |-> "scan"]
        /\ \A k \in DOMAIN queue : k < Len(queue) + 1 /\ queue'[k] = queue[k]
    BY <1>3, <1>10, <2>2, Appended
  <2>4. serving.id # FreshId /\ \A k \in DOMAIN queue : queue[k].id # FreshId
    BY <2>1 DEF FreeFor
  <2>5. /\ call' \in [Callers -> CallRec]
        /\ call'[Loop] = [op |-> "restore", m |-> "scan", id |-> FreshId, mine |-> TRUE]
        /\ \A c \in Callers : c # Loop => call'[c] = AtRest /\ call'[c].id = 0
    BY <1>8, <1>10, <2>2, TheCallers DEF AtRest
  <2>6. \A j, k \in DOMAIN queue' : /\ queue'[k].id # serving'.id
                                    /\ queue'[j].id = queue'[k].id => j = k
    BY <1>1, <1>3, <2>3, <2>4
  <2>7. LinkTypeOK'
    BY <1>3, <1>4, <1>5, <1>6, <1>7, <2>3, <2>5, <2>6 DEF LinkTypeOK, Shown, Requests, CallRec, Operations
  <2>8. CallsAreTheirs' /\ ListedForThem'
    BY <2>1, <2>5, <1>2, <1>8, TheCallers DEF CallsAreTheirs, ListedForThem, Waits, AtRest
  <2>9. AnswersApart' /\ RequestsMatch'
    BY <2>1, <2>3, <2>4, <2>5, <1>1, TheCallers DEF AnswersApart, RequestsMatch, Waits
  <2>10. LastWord' <=> LastWord
    BY <2>3, <1>8 DEF LastWord
  <2>11. WordIsWaiting'
    BY <2>3, <1>0, <1>1, <1>8 DEF WordInv, WordIsWaiting
  <2>12. WordInv'
    BY <2>10, <2>11, <1>0, <1>1 DEF WordInv, LastWordWins, WordIsServed
  <2>13. TruthInv'
    BY <2>5 DEF TruthInv, ToldTheTruth, YesIsTrue
  <2>14. QED
    BY <2>7, <2>8, <2>9, <2>12, <2>13 DEF LinkInv, LinkTypeInv
<1>11. QED
  BY <1>9, <1>10 DEF RestartGateway

-----------------------------------------------------------------------------

LEMMA LinkInvInit == LinkInit => LinkInv
<1> SUFFICES ASSUME LinkInit PROVE LinkInv
  OBVIOUS
<1>0. /\ queue = <<>> /\ reply = [i \in Ids |-> NoAnswer] /\ serving = NoRequest
      /\ handle = "none" /\ word = "none" /\ daemon = "down" /\ faults = 0
      /\ bridge = "none" /\ link = "down" /\ call = [c \in Callers |-> AtRest]
  BY DEF LinkInit
<1>1. /\ listed = FALSE /\ mirror = FALSE /\ since = FALSE /\ alive = FALSE /\ known = FALSE
  BY DEF LinkInit
<1>2. AtRest \in CallRec
  BY DEF AtRest, CallRec, Operations
<1>3. /\ call \in [Callers -> CallRec] /\ \A c \in Callers : call[c] = AtRest /\ call[c].id = 0
  BY <1>0, <1>2 DEF AtRest
<1>4. faults \in 0 .. MaxFaults /\ queue \in Seq(Requests) /\ DOMAIN queue = {}
  BY <1>0, SwitchAssumption
<1>5. Shown
  BY <1>1 DEF Shown
<1>6. LinkTypeOK
  BY <1>0, <1>1, <1>5, <1>3, <1>4 DEF LinkTypeOK, Shown, Requests, CallRec, Operations
<1>7. CallsAreTheirs /\ ListedForThem /\ AnswersApart /\ RequestsMatch
  BY <1>0, <1>3, <1>4, TheCallers
  DEF CallsAreTheirs, ListedForThem, AnswersApart, RequestsMatch, Waits, AtRest
<1>8. WordInv
  BY <1>0, <1>4 DEF WordInv, LastWordWins, WordIsWaiting, WordIsServed, NoRequest, Words
<1>9. TruthInv
  BY <1>3, TheCallers DEF TruthInv, ToldTheTruth, YesIsTrue, AtRest
<1>10. QED
  BY <1>6, <1>7, <1>8, <1>9 DEF LinkInv, LinkTypeInv

LEMMA LinkInvNext == LinkInv /\ [LinkNext]_linkvars => LinkInv'
<1> SUFFICES ASSUME LinkInv, [LinkNext]_linkvars PROVE LinkInv'
  OBVIOUS
<1>1. CASE GatewayThreads
  BY <1>1, GatewayKeeps
<1>2. CASE Take
  BY <1>2, TakeTypes, TakeWords, TakeTruth DEF LinkInv
<1>3. CASE Execute
  BY <1>3, ExecuteKeeps
<1>4. CASE Answer
  BY <1>4, AnswerKeeps
<1>5. CASE Outside
  BY <1>5, OutsideKeeps
<1>6. CASE RestartGateway
  BY <1>6, RestartKeeps
<1>7. CASE UNCHANGED linkvars
  BY <1>7
  DEF linkvars, hub, gateway, history, LinkInv, LinkTypeInv, LinkTypeOK, CallsAreTheirs,
      ListedForThem, AnswersApart, RequestsMatch, Waits, Mine, WordInv, LastWordWins,
      WordIsWaiting, WordIsServed, LastWord, TruthInv, ToldTheTruth, YesIsTrue
<1>8. QED
  BY <1>1, <1>2, <1>3, <1>4, <1>5, <1>6, <1>7 DEF LinkNext, GatewayThreads, Serve, Outside

\* What holds of the link at every moment.
LEMMA LinkInvariant == LinkSpec => []LinkInv
<1>1. QED
  BY LinkInvInit, LinkInvNext, PTL DEF LinkSpec

\* A dead robotd holds nothing and works at nothing, a request is in one place, and what
\* the gateway shows as connected is an arm that it lists, however its threads, those that
\* have left and those that clear the arms, get in each other's way.
THEOREM LinkTypeCorrect == LinkSpec => []LinkTypeOK
<1>1. LinkInv => LinkTypeOK
  BY DEF LinkInv, LinkTypeInv
<1>2. QED
  BY <1>1, LinkInvariant, PTL

\* The last connect, disconnect or reset is what robotd ends up with, whoever has left his
\* deadline behind and whatever has ended in between (rpc_call, the serve loop).
THEOREM LastWordIsDone == LinkSpec => []LastWordWins
<1>1. LinkInv => LastWordWins
  BY DEF LinkInv, WordInv
<1>2. QED
  BY <1>1, LinkInvariant, PTL

\* A connect that the gateway takes for done was done during its call: no answer to another
\* question, and none to an earlier one, is taken for it (client.py, the key of a reply).
THEOREM ConnectIsTold == LinkSpec => []ToldTheTruth
<1>1. LinkInv => ToldTheTruth
  BY DEF LinkInv, TruthInv
<1>2. QED
  BY <1>1, LinkInvariant, PTL
=============================================================================
