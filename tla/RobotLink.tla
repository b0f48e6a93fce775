----------------------------- MODULE RobotLink -----------------------------
(***************************************************************************)
(* The link between the gateway and robotd, for one arm: requests in a     *)
(* Redis list, answers under a key of their own (bus/piper_bus/client.py), *)
(* the serve loop of daemons/robotd.py with what the hub holds, and the    *)
(* gateway's own idea of it, ArmInfo.connected, which three of its threads *)
(* write (robot_manager.py, device_watch.py).                              *)
(*                                                                         *)
(* A caller that has waited long enough leaves; what it asked for stays in *)
(* the list, across a restart of robotd as well.  The threads of the       *)
(* bridge are left out: it runs, is lost, or is not there.                 *)
(***************************************************************************)
EXTENDS Naturals, Sequences

CONSTANTS
    Ids,                 \* identities of requests, used again when nothing refers to one
    Loop, Poll, Watch,   \* threads of the gateway: its event loop, get_current, the device watch
    QuickPlug,           \* an adapter may be back before robotd looks for it (PRESENCE_S)
    MaxFaults            \* bound: adapters pulled out, late answers, ends of robotd and the gateway

Callers == {Loop, Poll, Watch}

ASSUME IdsAssumption == Ids \subseteq Nat \ {0}
ASSUME CallersAssumption == Loop # Poll /\ Loop # Watch /\ Poll # Watch
ASSUME SwitchAssumption == QuickPlug \in BOOLEAN /\ MaxFaults \in Nat

VARIABLES
    queue,               \* rpc:robotd, oldest request first
    reply,               \* rpc:reply:<id>
    alive,               \* daemon:alive:robotd is there
    daemon,              \* robotd: down, fresh (before its first beat), up
    serving,             \* what the serve loop is at
    known,               \* the hub has scanned the interface
    handle,              \* the arm's handle on the bus; connected is: there is one
    bridge,              \* none, runs, lost (lost_at is set), orphan (a segment left by the dead)
    link,                \* the interface: up, down, gone
    listed,              \* the gateway has an ArmInfo for it
    mirror,              \* its connected
    call,                \* caller -> the request it waits for, in which operation
    faults,
    word, since          \* history: what was asked for last; held during Loop's connect

hub == <<known, handle, bridge>>
gateway == <<listed, mirror, call>>
history == <<word, since>>
linkvars == <<queue, reply, alive, daemon, serving, hub, link, gateway, faults, history>>

Methods == {"connect", "disconnect", "refresh_mode", "scan", "lost", "bus_reset",
            "down_interface"}
Answers == {"yes", "no", "empty"}
NoAnswer == "none"
NoRequest == [id |-> 0, m |-> "none", out |-> NoAnswer]
AtRest == [op |-> "none", m |-> "none", id |-> 0, mine |-> TRUE]

\* The arm is held and its records are published.
Usable == handle = "good" /\ bridge = "runs"

\* A dead daemon holds nothing and works at nothing, a request is in one place, and
\* what the gateway shows as connected is an arm that it lists (clear_all).
LinkTypeOK ==
    /\ queue \in Seq([id : Ids, m : Methods])
    /\ reply \in [Ids -> Answers \cup {NoAnswer}]
    /\ alive \in BOOLEAN /\ daemon \in {"down", "fresh", "up"}
    /\ serving \in {NoRequest} \cup [id : Ids, m : Methods, out : Answers \cup {NoAnswer}]
    /\ known \in BOOLEAN /\ handle \in {"none", "good", "stale"}
    /\ bridge \in {"none", "runs", "lost", "orphan"} /\ link \in {"up", "down", "gone"}
    /\ listed \in BOOLEAN /\ mirror \in BOOLEAN
    /\ call \in [Callers -> [op : {"none", "connect", "disconnect", "scan", "reset", "down",
                                   "clear", "restore", "poll", "watch"},
                             m : Methods \cup {"none"}, id : Ids \cup {0}, mine : BOOLEAN]]
    /\ faults \in 0 .. MaxFaults
    /\ word \in {"none", "connect", "disconnect"} /\ since \in BOOLEAN
    /\ daemon = "down" => /\ serving = NoRequest /\ handle = "none" /\ ~known
                          /\ bridge \in {"none", "orphan"}
    /\ \A j, k \in DOMAIN queue : /\ queue[k].id # serving.id
                                  /\ queue[j].id = queue[k].id => j = k
    /\ mirror => listed

LinkInit ==
    /\ queue = <<>> /\ reply = [i \in Ids |-> NoAnswer] /\ alive = FALSE
    /\ daemon = "down" /\ serving = NoRequest
    /\ known = FALSE /\ handle = "none" /\ bridge = "none" /\ link = "down"
    /\ listed = FALSE /\ mirror = FALSE /\ call = [c \in Callers |-> AtRest]
    /\ faults = 0 /\ word = "none" /\ since = FALSE

-----------------------------------------------------------------------------
(* rpc_call *)

\* Faulty variant of ReplyKey: one key for all answers of a daemon.
ReplyKeyOfDaemon(i) == 1

ReplyKey(i) == i

Waits(c) == call[c].id # 0
Awaited(k) == \E c \in Callers : Waits(c) /\ ReplyKey(call[c].id) = k
Used(i) == \/ \E c \in Callers : call[c].id = i
           \/ \E k \in DOMAIN queue : queue[k].id = i
           \/ serving.id = i

\* A uuid: nothing else has it.
FreshId == CHOOSE i \in Ids : ~Used(i)

Words == {"connect", "disconnect", "bus_reset"}
AsWord(m) == IF m = "connect" THEN "connect" ELSE "disconnect"

Push(c, op, m, i) ==
    /\ queue' = Append(queue, [id |-> i, m |-> m])
    /\ call' = [call EXCEPT ![c] = [op |-> op, m |-> m, id |-> i, mine |-> TRUE]]
    /\ word' = IF m \in Words THEN AsWord(m) ELSE word
    /\ since' = IF m = "connect" THEN Usable ELSE since

Rest(c) ==
    /\ call' = [call EXCEPT ![c] = AtRest]
    /\ since' = (since /\ c # Loop)
    /\ UNCHANGED <<queue, word>>

-----------------------------------------------------------------------------
(* What a thread of the gateway makes of an answer *)

Failed(got) == got \in {"empty", "fail"}

\* The next call of the same operation; _call gives up at once if robotd shows no
\* sign of life, and the operation ends with it.
Then(c, op, m) ==
    /\ IF alive THEN Push(c, op, m, call[c].id) ELSE Rest(c)
    /\ UNCHANGED <<listed, mirror>>

\* absorb, after a connect, ignores an answer that says nothing: a failed call must
\* not wipe what is known.
Absorb(c, got) ==
    /\ mirror' = IF Failed(got) THEN mirror ELSE got = "yes"
    /\ Rest(c) /\ UNCHANGED listed

\* Faulty variant of Absent: what absorb makes of an empty answer, everywhere.
AbsentIgnored(old) == old

\* mark_absent
Absent(old) == FALSE

\* Faulty variant of Mine: the arm is looked up when the answer is there.
MineAlways(c) == TRUE

\* The poll's ArmInfo is still the registered one (clear_all drops it).
Mine(c) == call[c].mine

\* ArmInfo.refresh_mode, from get_current
UsePoll(c, got) ==
    /\ mirror' = IF ~Mine(c) THEN mirror
                 ELSE IF Failed(got) THEN Absent(mirror) ELSE got = "yes"
    /\ Rest(c) /\ UNCHANGED listed

\* clear_all: the other threads keep what is no longer registered.
Forget ==
    /\ listed' = FALSE /\ mirror' = FALSE
    /\ call' = [c \in Callers |-> IF c # Loop /\ Waits(c) THEN [call[c] EXCEPT !.mine = FALSE]
                                 ELSE AtRest]
    /\ since' = FALSE /\ UNCHANGED <<queue, word>>

\* The disconnect of an arm takes any answer for a yes.
UseDisconnect(op) ==
    IF op = "clear" THEN Forget ELSE mirror' = FALSE /\ Rest(Loop) /\ UNCHANGED listed

\* scan; restore_session goes on to connect what the scan has found unconnected.
UseScan(op, got) ==
    /\ listed' = (listed \/ ~Failed(got))
    /\ mirror' = IF Failed(got) THEN Absent(mirror) ELSE got = "yes"
    /\ IF op = "restore" /\ listed' /\ ~mirror' /\ alive
         THEN Push(Loop, op, "connect", call[Loop].id)
         ELSE Rest(Loop)

\* A segment that is there with no new record in it, as the gateway sees them.
Stopped == bridge = "orphan" \/ (bridge = "runs" /\ handle = "none")

\* device_watch: what robotd has declared lost, or else a segment that stands still
\* under a robotd that shows signs of life.
UseLost(c, got) ==
    /\ mirror' = IF listed /\ (got = "yes" \/ (Stopped /\ alive)) THEN Absent(mirror) ELSE mirror
    /\ Rest(c) /\ UNCHANGED listed

Use(c, op, m, got) ==
    \/ m = "connect" /\ got = "yes" /\ Then(c, op, "refresh_mode")
    \/ m = "connect" /\ got # "yes" /\ Rest(c) /\ UNCHANGED <<listed, mirror>>
    \/ m = "refresh_mode" /\ c = Poll /\ UsePoll(c, got)
    \/ m = "refresh_mode" /\ c = Loop /\ Absorb(c, got)
    \/ m = "disconnect" /\ UseDisconnect(op)
    \/ m = "scan" /\ UseScan(op, got)
    \/ m = "lost" /\ UseLost(c, got)
    \/ m \in {"bus_reset", "down_interface"} /\ Rest(c) /\ UNCHANGED <<listed, mirror>>

Receive(c) ==
    /\ Waits(c)
    /\ LET k == ReplyKey(call[c].id) IN
         /\ reply[k] # NoAnswer
         /\ Use(c, call[c].op, call[c].m, reply[k])
         /\ reply' = [reply EXCEPT ![k] = NoAnswer]
    /\ UNCHANGED <<alive, daemon, serving, hub, link, faults>>

\* robotd is up and will answer.
OnItsWay(i) == daemon = "up" /\ (serving.id = i \/ \E k \in DOMAIN queue : queue[k].id = i)

\* The deadline of _brpop: the request stays where it is.  To run out of time when
\* the answer is on its way is a fault, and bounded as one.
GiveUp(c) ==
    /\ Waits(c) /\ reply[ReplyKey(call[c].id)] = NoAnswer
    /\ OnItsWay(call[c].id) => faults < MaxFaults
    /\ faults' = IF OnItsWay(call[c].id) THEN faults + 1 ELSE faults
    /\ Use(c, call[c].op, call[c].m, "fail")
    /\ UNCHANGED <<reply, alive, daemon, serving, hub, link>>

-----------------------------------------------------------------------------
(* The gateway's operations.  The endpoints are async functions that call robotd   *)
(* synchronously: while one waits the event loop waits, and only one is on its way. *)

Begin(c, op, m) ==
    /\ ~Waits(c)
    /\ IF alive
         THEN /\ \E i \in Ids : ~Used(i)
              /\ Push(c, op, m, FreshId) /\ UNCHANGED <<listed, mirror>>
         ELSE Use(c, op, m, "fail")
    /\ UNCHANGED <<reply, alive, daemon, serving, hub, link, faults>>

ConnectArm == listed /\ Begin(Loop, "connect", "connect")
DisconnectArm == listed /\ Begin(Loop, "disconnect", "disconnect")
ScanArms == Begin(Loop, "scan", "scan")
ResetBus == Begin(Loop, "reset", "bus_reset")

\* can_down refuses when an arm is connected, as far as the gateway knows.
CanDown == ~mirror /\ Begin(Loop, "down", "down_interface")

\* clear_all disconnects what is connected and forgets every arm.
ClearAll ==
    \/ listed /\ mirror /\ Begin(Loop, "clear", "disconnect")
    \/ /\ listed /\ ~mirror /\ ~Waits(Loop) /\ Forget
       /\ UNCHANGED <<reply, alive, daemon, serving, hub, link, faults>>

\* get_current, in an executor thread, asks only for what is connected.  Nothing runs
\* beside restore_session.
PollArms == listed /\ mirror /\ call[Loop].op # "restore" /\ Begin(Poll, "poll", "refresh_mode")

WatchArms == call[Loop].op # "restore" /\ Begin(Watch, "watch", "lost")

-----------------------------------------------------------------------------
(* The serve loop of robotd *)

\* Faulty variant of Oldest: BRPOP and LPUSH at the same end of the list.
OldestIsNewest == Len(queue)

Oldest == 1

Take ==
    /\ daemon # "down" /\ serving = NoRequest /\ queue # <<>>
    /\ serving' = [id |-> queue[Oldest].id, m |-> queue[Oldest].m, out |-> NoAnswer]
    /\ queue' = [k \in 1 .. Len(queue) - 1 |-> IF k < Oldest THEN queue[k] ELSE queue[k + 1]]
    /\ UNCHANGED <<reply, alive, daemon, hub, link, gateway, faults, history>>

\* No later word is waiting.
LastWord == \A k \in DOMAIN queue : queue[k].m \notin Words

Out(answer) == serving' = [serving EXCEPT !.out = answer]
As(b) == IF b THEN "yes" ELSE "no"

\* connect brings the interface up, opens the bus and starts the bridge; it may
\* fail at any of these and leaves the handle there was.
DoConnect ==
    IF ~known \/ link = "gone"
      THEN /\ Out("no") /\ UNCHANGED <<handle, bridge, link, since>>
           /\ word' = IF LastWord THEN "none" ELSE word
      ELSE /\ link' = "up"
           /\ \/ /\ Out("no") /\ UNCHANGED <<handle, bridge, since>>
                 /\ word' = IF LastWord THEN "none" ELSE word
              \/ /\ Out("yes") /\ handle' = "good" /\ bridge' = "runs"
                 /\ since' = (since \/ call[Loop].m = "connect")
                 /\ UNCHANGED word

\* The bridge is stopped first; an interface robotd does not know is answered with a no,
\* which the gateway does not look at.
DoDisconnect ==
    /\ handle' = "none" /\ bridge' = "none" /\ Out(As(known))
    /\ UNCHANGED <<link, history>>

\* bus_reset disconnects the arm and does not stop its bridge.
DoReset ==
    /\ handle' = "none"
    /\ link' = IF link = "gone" THEN "gone" ELSE "up"
    /\ Out(As(link # "gone"))
    /\ UNCHANGED <<bridge, history>>

DoDown ==
    /\ link' = IF link = "gone" THEN "gone" ELSE "down"
    /\ Out(As(link # "gone"))
    /\ UNCHANGED <<handle, bridge, history>>

DoRefresh ==
    /\ Out(IF ~known THEN "empty" ELSE As(handle # "none"))
    /\ UNCHANGED <<handle, bridge, link, history>>

DoScan ==
    /\ known' = (known \/ link # "gone")
    /\ Out(IF ~known' THEN "empty" ELSE As(handle # "none"))
    /\ UNCHANGED <<handle, bridge, link, history>>

DoLost ==
    /\ Out(As(bridge = "lost"))
    /\ UNCHANGED <<handle, bridge, link, history>>

Execute ==
    /\ serving # NoRequest /\ serving.out = NoAnswer
    /\ \/ serving.m = "scan" /\ DoScan
       \/ /\ known' = known
          /\ \/ serving.m = "connect" /\ DoConnect
             \/ serving.m = "disconnect" /\ DoDisconnect
             \/ serving.m = "bus_reset" /\ DoReset
             \/ serving.m = "down_interface" /\ DoDown
             \/ serving.m = "refresh_mode" /\ DoRefresh
             \/ serving.m = "lost" /\ DoLost
    /\ UNCHANGED <<queue, reply, alive, daemon, gateway, faults>>

\* An answer that nobody waits for expires.
Answer ==
    /\ serving.out # NoAnswer
    /\ reply' = IF Awaited(ReplyKey(serving.id)) THEN [reply EXCEPT ![ReplyKey(serving.id)] = serving.out]
                ELSE reply
    /\ serving' = NoRequest
    /\ UNCHANGED <<queue, alive, daemon, hub, link, gateway, faults, history>>

-----------------------------------------------------------------------------
(* What happens to adapter, robotd and gateway *)

MayFail == faults < MaxFaults /\ faults' = faults + 1

Unplug ==
    /\ MayFail /\ link # "gone" /\ link' = "gone"
    /\ handle' = IF handle = "good" THEN "stale" ELSE handle
    /\ UNCHANGED <<queue, reply, alive, daemon, serving, known, bridge, gateway, history>>

\* robotd looks for the interface every PRESENCE_S; QuickPlug: it may be back by then.
Plug ==
    /\ link = "gone" /\ (QuickPlug \/ bridge # "runs")
    /\ link' = "down"
    /\ UNCHANGED <<queue, reply, alive, daemon, serving, hub, gateway, faults, history>>

\* The bridge's own thread: the interface is gone, or reading says nothing for long.
\* A link that is down or a handle that is stale still reads: the SDK keeps the last values.
DeclareLost ==
    /\ bridge = "runs" /\ (link = "gone" \/ handle = "none")
    /\ bridge' = "lost"
    /\ UNCHANGED <<queue, reply, alive, daemon, serving, known, handle, link, gateway, faults, history>>

\* A SIGTERM closes the bridge and its segment, a SIGKILL does not.
Die ==
    /\ daemon # "down" /\ MayFail
    /\ daemon' = "down" /\ serving' = NoRequest /\ known' = FALSE /\ handle' = "none"
    /\ bridge' \in {"none"} \cup (IF bridge = "runs" THEN {"orphan"} ELSE {})
    /\ word' = IF LastWord THEN "none" ELSE word
    /\ UNCHANGED <<queue, reply, alive, link, gateway, since>>

\* main unlinks what is left of its segments, scans and serves; nothing is connected.
Boot ==
    /\ daemon = "down" /\ daemon' = "fresh"
    /\ known' = (link # "gone") /\ bridge' = "none"
    /\ UNCHANGED <<queue, reply, alive, serving, handle, link, gateway, faults, history>>

\* The heartbeat thread waits a third of the key's life before the first mark.
Beat ==
    /\ daemon = "fresh"
    /\ daemon' = "up" /\ alive' = TRUE
    /\ UNCHANGED <<queue, reply, serving, hub, link, gateway, faults, history>>

ExpireAlive ==
    /\ alive /\ daemon # "up"
    /\ alive' = FALSE
    /\ UNCHANGED <<queue, reply, daemon, serving, hub, link, gateway, faults, history>>

\* The gateway starts again: nobody waits for the answers that come.  restore_session
\* scans first, if there is a session to restore.
RestartGateway ==
    /\ MayFail
    /\ listed' = FALSE /\ mirror' = FALSE /\ since' = FALSE
    /\ reply' = [i \in Ids |-> NoAnswer]
    /\ LET rest == [c \in Callers |-> AtRest] IN
         \/ call' = rest /\ UNCHANGED queue
         \/ /\ alive /\ \E i \in Ids : ~Used(i)
            /\ queue' = Append(queue, [id |-> FreshId, m |-> "scan"])
            /\ call' = [rest EXCEPT ![Loop] = [op |-> "restore", m |-> "scan", id |-> FreshId,
                                               mine |-> TRUE]]
    /\ UNCHANGED <<alive, daemon, serving, hub, link, word>>

\* The socket's time-out ends a BRPOP that Redis has just answered.
PopLost ==
    /\ daemon # "down" /\ serving = NoRequest /\ queue # <<>>
    /\ queue' = Tail(queue)
    /\ UNCHANGED <<reply, alive, daemon, serving, hub, link, gateway, faults, history>>

-----------------------------------------------------------------------------
Ops == ConnectArm \/ DisconnectArm \/ ScanArms \/ ResetBus \/ CanDown \/ ClearAll
Serve == Take \/ Execute \/ Answer

LinkNext ==
    \/ Ops \/ PollArms \/ WatchArms
    \/ \E c \in Callers : Receive(c) \/ GiveUp(c)
    \/ Serve
    \/ Unplug \/ Plug \/ DeclareLost
    \/ Die \/ Boot \/ Beat \/ ExpireAlive \/ RestartGateway

\* Every thread goes on: those of the gateway (a request that finds no identity free
\* waits in the model alone, hence SF), robotd's serve loop, heartbeat and bridge,
\* systemd's restart; and somebody looks at the page of the arms again and again.
Fairness ==
    /\ SF_linkvars(PollArms) /\ SF_linkvars(WatchArms)
    /\ \A c \in Callers : WF_linkvars(Receive(c) \/ GiveUp(c))
    /\ WF_linkvars(Serve) /\ WF_linkvars(DeclareLost)
    /\ WF_linkvars(Boot) /\ WF_linkvars(Beat) /\ WF_linkvars(ExpireAlive)

LinkSpec == LinkInit /\ [][LinkNext]_linkvars /\ Fairness

\* Requests may be lost on their way, as they may be in the code.
LossySpec == LinkInit /\ [][LinkNext \/ PopLost]_linkvars

-----------------------------------------------------------------------------
(* Properties *)

\* What was asked for last is what robotd ends up doing, whatever answers the callers
\* have given up and wherever robotd has ended in between: once no connect, disconnect
\* or reset is waiting, the arm is held exactly if the last of them was a connect.
\* Where that one failed or went with robotd nothing is said.  client.py, rpc_call.
LastWordWins ==
    (LastWord /\ (serving.m \notin Words \/ serving.out # NoAnswer) /\ word # "none")
        => ((handle # "none") <=> (word = "connect"))

\* A connect that the gateway takes for done was done: at some moment of its call the
\* arm was held by a good handle and its bridge ran (robot_manager.py, ArmInfo.connect).
ToldTheTruth == call[Loop].m = "refresh_mode" => since

\* No arm is shown as connected for ever that is gone or that a restarted robotd does
\* not hold (robot_manager.py, mark_absent).
NoGhost == (mirror /\ ~Usable) ~> (~mirror \/ Usable)

\* Refuted.  "No interface is taken down under an arm that is connected": the gateway's
\* idea of it is asked (robots.py, can_down).
DownSparesHeld ==
    [][(serving.m = "down_interface" /\ link = "up" /\ link' = "down") => handle # "good"]_linkvars

\* Refuted.  An arm that robotd holds and publishes is shown as connected in the end.
HeldIsShown == (Usable /\ listed) ~> (mirror \/ ~Usable \/ ~listed)

\* Refuted.  With no request under way and nothing gone wrong the gateway is right.
QuietIsRight ==
    ((\A c \in Callers : ~Waits(c)) /\ listed /\ faults = 0) => (mirror <=> handle # "none")
=============================================================================
