-------------------------- MODULE EstopWatchProofs --------------------------
(***************************************************************************)
(* Types of EstopWatch, and WatchFollows where state callbacks run in the  *)
(* loop alone, activities are started from a browser, units are plugins    *)
(* and a trip is over before anything else starts, for any activities in   *)
(* any order and any number of processes.                                  *)
(*                                                                         *)
(* No state of an owner changes while sync_activities is under way: a      *)
(* change begins it anew.  So the entries it has passed are right, what it *)
(* has read is right, and what it has counted is still there (KeysAreRight,*)
(* ReadIsRight, MovingIsCounted).  A trip kills whatever an entry that is  *)
(* right stands for, before it disarms.                                    *)
(***************************************************************************)
EXTENDS EstopWatch, TLAPS

\* callbacks in the loop, starts from a browser, trips that are over at once
OneLoop == Threads = {Loop} /\ ~Headless /\ Prompt /\ Units \subseteq Plugins

SyncRec == [at : {"none", "read", "write", "arm", "beat"},
            k : DOMAIN Order, pid : 0 .. MaxPids, any : BOOLEAN]

Moves(a) == mgr[a] = "running" /\ proc[a] # 0
Syncs == sync[Loop].at \in {"read", "write", "arm"}
\* sync_activities has been there
Past(j) == sync[Loop].at \in {"read", "write"} => j < sync[Loop].k

KeysAreRight ==
    \A j \in DOMAIN Order :
        Past(j) /\ Moves(Order[j]) =>
            proc[Order[j]] = IF estopd = "kill" THEN left[Order[j]] ELSE pid_key[Order[j]]

ReadIsRight ==
    sync[Loop].at = "write" /\ Moves(Order[sync[Loop].k])
        => sync[Loop].pid = proc[Order[sync[Loop].k]]

MovingIsCounted ==
    \A j \in DOMAIN Order :
        Past(j) /\ Moves(Order[j]) => IF Syncs THEN sync[Loop].any ELSE armed

ChildIsMoving == \A a \in Activities \ Units : Moves(a) => child[a] = proc[a]

OwnedIsUp ==
    \A a \in Activities :
        mgr[a] # "idle" => wired /\ gw \in {"up", "hung"} /\ (a \in Plugins => a \in seen)

BootFindsNothing == gw = "boot" => \A a \in Units : proc[a] = 0

CountedIsOwned ==
    /\ sync[Loop].at = "write" /\ sync[Loop].pid # 0 => mgr[Order[sync[Loop].k]] # "idle"
    /\ Syncs /\ sync[Loop].any => \E a \in Activities : mgr[a] # "idle"
    /\ ~Syncs /\ armed /\ gw # "down" => \E a \in Activities : mgr[a] # "idle"

WatchInv ==
    /\ KeysAreRight /\ ReadIsRight /\ MovingIsCounted
    /\ ChildIsMoving /\ OwnedIsUp /\ BootFindsNothing /\ CountedIsOwned

-----------------------------------------------------------------------------
(* Types *)

LEMMA OrderFacts ==
    /\ Len(Order) \in Nat /\ DOMAIN Order = 1 .. Len(Order) /\ 1 \in DOMAIN Order
    /\ \A j \in DOMAIN Order : Order[j] \in Activities
    /\ \A a \in Activities : \E j \in DOMAIN Order : a = Order[j]
  BY OrderAssumption DEF Activities

LEMMA NoPid == 0 \in 0 .. MaxPids
  BY BoundAssumption

LEMMA NoSyncFields ==
    /\ NoSync.at = "none" /\ NoSync.k = 1 /\ NoSync.pid = 0 /\ NoSync.any = FALSE
    /\ NoSync \in SyncRec
  BY OrderFacts, NoPid, Zenon DEF NoSync, SyncRec

LEMMA PlaceMoves ==
    ASSUME NEW s \in SyncRec, NEW w \in {"none", "read", "write", "arm", "beat"}
    PROVE  LET n == [s EXCEPT !.at = w]
           IN  n \in SyncRec /\ n.at = w /\ n.k = s.k /\ n.pid = s.pid /\ n.any = s.any
<1>1. [s EXCEPT !.at = w] \in SyncRec
  BY Zenon DEF SyncRec
<1>. QED
  BY <1>1 DEF SyncRec

LEMMA PidComes ==
    ASSUME NEW s \in SyncRec, NEW p \in 0 .. MaxPids
    PROVE  LET n == [s EXCEPT !.at = "write", !.pid = p]
           IN  n \in SyncRec /\ n.at = "write" /\ n.k = s.k /\ n.pid = p /\ n.any = s.any
<1>1. [s EXCEPT !.at = "write", !.pid = p] \in SyncRec
  BY Zenon DEF SyncRec
<1>. QED
  BY <1>1 DEF SyncRec

\* A step of one thread.
LEMMA OneSyncMoves ==
    ASSUME TypeOK, NEW t \in Threads, NEW s \in SyncRec, sync' = [sync EXCEPT ![t] = s]
    PROVE  sync' \in [Threads -> SyncRec] /\ sync'[t] = s
  BY DEF TypeOK, SyncRec

LEMMA BegunTypes ==
    ASSUME TypeOK, NEW t \in Threads
    PROVE  LET n == Begun(t)[t]
           IN  /\ Begun(t) \in [Threads -> SyncRec]
               /\ n.at = "read" /\ n.k = 1 /\ n.pid = 0 /\ n.any = FALSE
<1>1. sync \in [Threads -> SyncRec]
  BY DEF TypeOK, SyncRec
<1>. QED
  BY <1>1, NoSyncFields, PlaceMoves DEF Begun

LEMMA CallBackTypes ==
    ASSUME TypeOK, NEW t \in Threads, NEW a, CallBack(t, a)
    PROVE  sync' \in [Threads -> SyncRec]
<1>1. sync \in [Threads -> SyncRec]
  BY DEF TypeOK, SyncRec
<1>. QED
  BY <1>1, BegunTypes DEF CallBack

LEMMA PidTypes ==
    ASSUME TypeOK, NEW a \in Activities PROVE PidOf(a) \in 0 .. MaxPids
  BY NoPid DEF TypeOK, PidOf

LEMMA ReadFields ==
    ASSUME TypeOK, NEW t \in Threads, ReadPid(t)
    PROVE  LET n == sync'[t]
           IN  /\ n.at = "write" /\ n.k = sync[t].k /\ n.any = sync[t].any
               /\ n.pid = PidOf(Order[sync[t].k])
               /\ sync' \in [Threads -> SyncRec]
<1> DEFINE p == PidOf(Order[sync[t].k])
           s == [sync[t] EXCEPT !.at = "write", !.pid = p]
<1>1. sync[t] \in SyncRec /\ sync \in [Threads -> SyncRec]
  BY DEF TypeOK, SyncRec
<1>2. p \in 0 .. MaxPids
  BY OrderFacts, PidTypes DEF TypeOK
<1>3. sync' = [sync EXCEPT ![t] = s]
  BY <1>1 DEF ReadPid
<1>. HIDE DEF p
<1>4. s \in SyncRec /\ s.at = "write" /\ s.k = sync[t].k /\ s.pid = p /\ s.any = sync[t].any
  BY <1>1, <1>2, PidComes
<1>. HIDE DEF s
<1>5. sync'[t] = s /\ sync' \in [Threads -> SyncRec]
  BY <1>3, <1>4, OneSyncMoves
<1>. QED
  BY <1>4, <1>5 DEF p

LEMMA WriteFields ==
    ASSUME TypeOK, NEW t \in Threads, WritePid(t)
    PROVE  LET n == sync'[t]
           IN  /\ n.at = IF sync[t].k = Len(Order) THEN "arm" ELSE "read"
               /\ n.k = IF sync[t].k = Len(Order) THEN sync[t].k ELSE sync[t].k + 1
               /\ n.pid = 0 /\ n.any = (sync[t].any \/ sync[t].pid # 0)
               /\ sync' \in [Threads -> SyncRec]
<1> DEFINE kk == IF sync[t].k = Len(Order) THEN sync[t].k ELSE sync[t].k + 1
           aa == IF sync[t].k = Len(Order) THEN "arm" ELSE "read"
           nn == (sync[t].any \/ sync[t].pid # 0)
           s == [at |-> aa, k |-> kk, pid |-> 0, any |-> nn]
<1>1. sync[t].k \in DOMAIN Order
  BY DEF TypeOK
<1>2. kk \in DOMAIN Order
  BY <1>1, OrderFacts
<1>3. aa \in {"none", "read", "write", "arm", "beat"}
  OBVIOUS
<1>4. nn \in BOOLEAN
  BY Zenon
<1>5. sync' = [sync EXCEPT ![t] = s]
  BY DEF WritePid
<1>. HIDE DEF kk, aa, nn
<1>6. s \in SyncRec /\ s.at = aa /\ s.k = kk /\ s.pid = 0 /\ s.any = nn
  BY <1>2, <1>3, <1>4, NoPid, Zenon DEF SyncRec
<1>. HIDE DEF s
<1>7. sync' \in [Threads -> SyncRec] /\ sync'[t] = s
  BY <1>5, <1>6, OneSyncMoves
<1>8. LET n == sync'[t] IN n.at = aa /\ n.k = kk /\ n.pid = 0 /\ n.any = nn
  BY <1>6, <1>7
<1>. QED
  BY <1>7, <1>8 DEF kk, aa, nn

LEMMA ArmFields ==
    ASSUME TypeOK, NEW t \in Threads, SetArmed(t)
    PROVE  /\ sync'[t] = IF sync[t].any THEN [NoSync EXCEPT !.at = "beat"] ELSE NoSync
           /\ sync' \in [Threads -> SyncRec]
<1>1. (IF sync[t].any THEN [NoSync EXCEPT !.at = "beat"] ELSE NoSync) \in SyncRec
  BY PlaceMoves, NoSyncFields
<1>. QED
  BY <1>1, OneSyncMoves DEF SetArmed

LEMMA BeatFields ==
    ASSUME TypeOK, NEW t \in Threads, BeatArmed(t)
    PROVE  sync'[t] = NoSync /\ sync' \in [Threads -> SyncRec]
  BY NoSyncFields, OneSyncMoves DEF BeatArmed

LEMMA TypeInit == Init => TypeOK
<1> SUFFICES ASSUME Init PROVE TypeOK
  OBVIOUS
<1>1. sync \in [Threads -> SyncRec]
  BY NoSyncFields DEF Init
<1>2. wired \in BOOLEAN /\ present \in BOOLEAN /\ armed \in BOOLEAN
  BY Zenon DEF Init
<1>. QED
  BY <1>1, <1>2, NoPid DEF Init, TypeOK, SyncRec

LEMMA TypeStep == ASSUME TypeOK, [Next]_vars PROVE TypeOK'
<1>a. sync \in [Threads -> SyncRec]
  BY DEF TypeOK, SyncRec
<1> USE DEF TypeOK, gvars, bvars, evars
<1>1. ASSUME NEW t \in Threads, ReadPid(t) PROVE TypeOK'
  BY <1>1, ReadFields DEF ReadPid, SyncRec
<1>2. ASSUME NEW t \in Threads, WritePid(t) PROVE TypeOK'
  <2>1. sync[t].pid \in 0 .. MaxPids
    OBVIOUS
  <2>2. pid_key' \in [Activities -> 0 .. MaxPids]
    BY <1>2, <2>1 DEF WritePid
  <2>3. sync' \in [Threads -> SyncRec]
    BY <1>2, WriteFields
  <2>. QED
    BY <1>2, <2>2, <2>3 DEF WritePid, SyncRec
<1>3. ASSUME NEW t \in Threads, SetArmed(t) PROVE TypeOK'
  <2>1. sync[t].any \in BOOLEAN
    BY Zenon
  <2>2. armed' \in BOOLEAN
    BY <1>3, <2>1 DEF SetArmed
  <2>3. sync' \in [Threads -> SyncRec]
    BY <1>3, ArmFields
  <2>. QED
    BY <1>3, <2>2, <2>3 DEF SetArmed, SyncRec
<1>4. ASSUME NEW t \in Threads, BeatArmed(t) PROVE TypeOK'
  BY <1>4, BeatFields DEF BeatArmed, SyncRec
<1>5. ASSUME NEW a \in Activities, Start(a) PROVE TypeOK'
  <2>1. sync' \in [Threads -> SyncRec]
    BY <1>5, CallBackTypes, ThreadsAssumption DEF Start
  <2>. QED
    BY <1>5, <2>1 DEF Start, SyncRec
<1>6. ASSUME NEW a \in Activities, Fork(a) PROVE TypeOK'
  <2>1. pids + 1 \in 0 .. MaxPids
    BY <1>6, BoundAssumption DEF Fork
  <2>. QED
    BY <1>6, <2>1 DEF Fork
<1>7. ASSUME NEW a \in Activities, Spawned(a) PROVE TypeOK'
  <2>1. sync' \in [Threads -> SyncRec]
    BY <1>7, CallBackTypes, ThreadsAssumption DEF Spawned
  <2>2. child' \in [Activities -> 0 .. MaxPids]
    BY <1>7 DEF Spawned
  <2>. QED
    BY <1>7, <2>1, <2>2 DEF Spawned, SyncRec
<1>8. ASSUME NEW a \in Activities, Dies(a) PROVE TypeOK'
  BY <1>8, NoPid DEF Dies
<1>9. ASSUME NEW t \in Threads, NEW a \in Activities, Ends(t, a) PROVE TypeOK'
  <2>1. sync' \in [Threads -> SyncRec]
    BY <1>9, CallBackTypes DEF Ends
  <2>. QED
    BY <1>9, <2>1 DEF Ends, SyncRec
<1>10. ASSUME Manual PROVE TypeOK'
  <2>1. sync' \in [Threads -> SyncRec]
    BY <1>10, BegunTypes, ThreadsAssumption DEF Manual
  <2>2. /\ proc' \in [Activities -> 0 .. MaxPids]
        /\ mgr' \in [Activities -> {"idle", "starting", "running"}]
    BY <1>10, NoPid DEF Manual
  <2>. QED
    BY <1>10, <2>1, <2>2 DEF Manual, SyncRec
<1>11. ASSUME Connect PROVE TypeOK'
  <2>1. wired' \in BOOLEAN /\ present' \in BOOLEAN
    BY <1>11, Zenon DEF Connect
  <2>. QED
    BY <1>11, <2>1 DEF Connect
<1>12. ASSUME Heartbeat \/ Elapse PROVE TypeOK'
  BY <1>12 DEF Heartbeat, Elapse
<1>13. ASSUME ComesOrGoes PROVE TypeOK'
  <2>1. present' \in BOOLEAN
    BY <1>13, Zenon DEF ComesOrGoes
  <2>. QED
    BY <1>13, <2>1 DEF ComesOrGoes
<1>14. ASSUME HangsOrGoesOn PROVE TypeOK'
  BY <1>14 DEF HangsOrGoesOn
<1>15. ASSUME GatewayDies PROVE TypeOK'
  <2>1. sync' \in [Threads -> SyncRec]
    BY <1>15, NoSyncFields DEF GatewayDies
  <2>2. wired' \in BOOLEAN
    BY <1>15, Zenon DEF GatewayDies
  <2>. QED
    BY <1>15, <2>1, <2>2, NoPid DEF GatewayDies, SyncRec
<1>16. ASSUME Boot PROVE TypeOK'
  <2>1. sync' \in [Threads -> SyncRec]
    BY <1>16, BegunTypes, ThreadsAssumption DEF Boot
  <2>. QED
    BY <1>16, <2>1, NoPid DEF Boot, SyncRec
<1>17. ASSUME Restore PROVE TypeOK'
  BY <1>17 DEF Restore
<1>18. ASSUME Poll \/ Judge \/ Snapshot PROVE TypeOK'
  BY <1>18 DEF Poll, Judge, Snapshot
<1>19. ASSUME NEW a \in Activities, KillOne(a) PROVE TypeOK'
  BY <1>19, NoPid DEF KillOne
<1>20. ASSUME Disarm PROVE TypeOK'
  <2>1. armed' \in BOOLEAN
    BY <1>20, Zenon DEF Disarm
  <2>. QED
    BY <1>20, <2>1 DEF Disarm
<1>21. ASSUME UNCHANGED vars PROVE TypeOK'
  BY <1>21 DEF vars
<1>. QED
  BY <1>1, <1>2, <1>3, <1>4, <1>5, <1>6, <1>7, <1>8, <1>9, <1>10, <1>11, <1>12, <1>13,
     <1>14, <1>15, <1>16, <1>17, <1>18, <1>19, <1>20, <1>21
  DEF Next, SyncNext, OwnerNext, EstopdNext

-----------------------------------------------------------------------------
(* The watch follows *)

LEMMA WatchInit == Init => WatchInv
  BY NoSyncFields, ThreadsAssumption, OrderFacts
  DEF Init, WatchInv, KeysAreRight, ReadIsRight, MovingIsCounted, ChildIsMoving, OwnedIsUp,
      BootFindsNothing, CountedIsOwned, Moves, Syncs, Past

\* A sync that begins anew has passed nothing and read nothing.
LEMMA BegunKnowsNothing ==
    ASSUME TypeOK, sync' = Begun(Loop)
    PROVE  KeysAreRight' /\ ReadIsRight' /\ MovingIsCounted' /\ CountedIsOwned'
<1>1. sync'[Loop].at = "read" /\ sync'[Loop].k = 1 /\ sync'[Loop].any = FALSE
  BY BegunTypes, ThreadsAssumption
<1>2. \A j \in DOMAIN Order : ~Past(j)'
  BY <1>1, OrderFacts DEF Past
<1>. QED
  BY <1>1, <1>2 DEF KeysAreRight, ReadIsRight, MovingIsCounted, CountedIsOwned, Syncs

\* Fewer moving processes, everything else as it was.
LEMMA FewerMove ==
    ASSUME TypeOK, WatchInv, 
           \A a \in Activities : proc'[a] \in {0, proc[a]},
           UNCHANGED <<gw, wired, mgr, child, seen, sync, armed>>
    PROVE  /\ ReadIsRight' /\ MovingIsCounted' /\ ChildIsMoving' /\ OwnedIsUp'
           /\ BootFindsNothing' /\ CountedIsOwned'
<1>1. \A a \in Activities : Moves(a)' => Moves(a) /\ proc'[a] = proc[a]
  BY DEF Moves
<1>2. /\ sync[Loop].k \in DOMAIN Order
      /\ \A j \in DOMAIN Order : Order[j] \in Activities /\ (Past(j)' <=> Past(j))
      /\ Units \subseteq Activities
  BY ThreadsAssumption, OrderFacts, KindsAssumption DEF TypeOK, Past
<1>3. ReadIsRight'
  BY <1>1, <1>2 DEF WatchInv, ReadIsRight
<1>4. MovingIsCounted' /\ ChildIsMoving'
  BY <1>1, <1>2 DEF WatchInv, MovingIsCounted, ChildIsMoving, Syncs
<1>5. OwnedIsUp' /\ BootFindsNothing' /\ CountedIsOwned'
  BY <1>2 DEF WatchInv, OwnedIsUp, BootFindsNothing, CountedIsOwned, Syncs
<1>. QED
  BY <1>3, <1>4, <1>5

LEMMA WatchStep == ASSUME OneLoop, TypeOK, WatchInv, [Next]_vars PROVE WatchInv'
<1> USE DEF WatchInv
<1>a. /\ Loop \in Threads /\ sync[Loop].k \in DOMAIN Order
      /\ \A j \in DOMAIN Order : Order[j] \in Activities
      /\ \A t \in Threads : t = Loop
      /\ Units \subseteq Activities /\ Plugins \subseteq Activities /\ Units \subseteq Plugins
  BY ThreadsAssumption, OrderFacts, KindsAssumption DEF TypeOK, OneLoop
<1>b. Goes => estopd \notin {"trip", "kill"}
  BY DEF Goes, Tripping, OneLoop
<1>1. ASSUME ReadPid(Loop) PROVE WatchInv'
  <2>1. /\ sync[Loop].at = "read" /\ gw # "down" /\ estopd # "kill"
        /\ UNCHANGED <<gw, wired, mgr, child, seen, proc, pid_key, armed, estopd, left>>
    BY <1>1, <1>b DEF ReadPid, Runs, bvars, evars
  <2>2. /\ sync'[Loop].at = "write" /\ sync'[Loop].k = sync[Loop].k
        /\ sync'[Loop].any = sync[Loop].any
        /\ sync'[Loop].pid = PidOf(Order[sync[Loop].k])
    BY <1>1, <1>a, ReadFields
  <2>3. KeysAreRight' /\ MovingIsCounted'
    BY <2>1, <2>2 DEF KeysAreRight, MovingIsCounted, Past, Syncs, Moves
  <2>4. ReadIsRight'
    BY <1>a, <2>1, <2>2 DEF ReadIsRight, ChildIsMoving, PidOf, Moves
  <2>5. ChildIsMoving' /\ OwnedIsUp' /\ BootFindsNothing'
    BY <2>1 DEF ChildIsMoving, OwnedIsUp, BootFindsNothing, Moves
  <2>6. CountedIsOwned'
    BY <2>1, <2>2 DEF CountedIsOwned, Syncs, PidOf
  <2>. QED
    BY <2>3, <2>4, <2>5, <2>6
<1>2. ASSUME WritePid(Loop) PROVE WatchInv'
  <2> DEFINE s == sync[Loop]
             a == Order[s.k]
  <2>1. /\ s.at = "write" /\ estopd # "kill" /\ a \in Activities
        /\ pid_key' = IF a \in Plugins \ seen THEN pid_key ELSE [pid_key EXCEPT ![a] = s.pid]
        /\ UNCHANGED <<gw, wired, mgr, child, seen, proc, armed, estopd, left>>
    BY <1>2, <1>a, <1>b DEF WritePid, Runs, evars
  <2>2. /\ sync'[Loop].at = IF s.k = Len(Order) THEN "arm" ELSE "read"
        /\ sync'[Loop].k = IF s.k = Len(Order) THEN s.k ELSE s.k + 1
        /\ sync'[Loop].pid = 0 /\ sync'[Loop].any = (s.any \/ s.pid # 0)
    BY <1>2, <1>a, WriteFields
  <2>3. \A j \in DOMAIN Order : Past(j)' => j < s.k \/ j = s.k
    BY <1>a, <2>2, OrderFacts DEF Past
  <2>4. Moves(a) => s.pid = proc[a] /\ s.pid # 0 /\ a \notin Plugins \ seen
    BY <2>1 DEF ReadIsRight, OwnedIsUp, Moves
  <2>5. pid_key \in [Activities -> 0 .. MaxPids]
    BY DEF TypeOK
  <2>6. ASSUME NEW j \in DOMAIN Order, Past(j)', Moves(Order[j])'
        PROVE  proc[Order[j]] = pid_key'[Order[j]] /\ sync'[Loop].any
    <3>1. Moves(Order[j])
      BY <2>1, <2>6 DEF Moves
    <3>2. CASE Order[j] = a
      BY <2>1, <2>2, <2>4, <2>5, <3>1, <3>2
    <3>3. CASE Order[j] # a
      <4>1. Past(j) /\ Syncs
        BY <2>1, <2>3, <2>6, <3>3 DEF Past, Syncs
      <4>2. proc[Order[j]] = pid_key[Order[j]] /\ s.any
        BY <2>1, <2>6, <3>1, <4>1 DEF KeysAreRight, MovingIsCounted
      <4>. QED
        BY <1>a, <2>1, <2>2, <2>5, <2>6, <3>3, <4>2
    <3>. QED
      BY <3>2, <3>3
  <2>. HIDE DEF a, s
  <2>7. KeysAreRight' /\ MovingIsCounted'
    BY <2>1, <2>2, <2>6 DEF KeysAreRight, MovingIsCounted, Syncs
  <2>8. ReadIsRight' /\ ChildIsMoving' /\ OwnedIsUp' /\ BootFindsNothing'
    BY <2>1, <2>2 DEF ReadIsRight, ChildIsMoving, OwnedIsUp, BootFindsNothing, Moves
  <2>9. CountedIsOwned'
    BY <2>1, <2>2 DEF CountedIsOwned, Syncs, s, a
  <2>. QED
    BY <2>7, <2>8, <2>9
<1>3. ASSUME SetArmed(Loop) PROVE WatchInv'
  <2>1. /\ sync[Loop].at = "arm" /\ armed' = sync[Loop].any
        /\ UNCHANGED <<gw, wired, mgr, child, seen, proc, pid_key, estopd, left>>
    BY <1>3 DEF SetArmed, evars
  <2>2. sync'[Loop].at \in {"none", "beat"}
    <3>1. [NoSync EXCEPT !.at = "beat"].at = "beat"
      BY NoSyncFields, PlaceMoves
    <3>. QED
      BY <1>3, <1>a, <3>1, ArmFields, NoSyncFields
  <2>3. KeysAreRight' /\ MovingIsCounted'
    BY <2>1, <2>2 DEF KeysAreRight, MovingIsCounted, Past, Syncs, Moves
  <2>4. ReadIsRight' /\ ChildIsMoving' /\ OwnedIsUp' /\ BootFindsNothing' /\ CountedIsOwned'
    BY <2>1, <2>2
    DEF ReadIsRight, ChildIsMoving, OwnedIsUp, BootFindsNothing, CountedIsOwned, Moves, Syncs
  <2>. QED
    BY <2>3, <2>4
<1>4. ASSUME BeatArmed(Loop) PROVE WatchInv'
  <2>1. /\ sync[Loop].at = "beat" /\ sync'[Loop].at = "none"
        /\ UNCHANGED <<gw, wired, mgr, child, seen, proc, pid_key, armed, estopd, left>>
    BY <1>4, <1>a, BeatFields, NoSyncFields DEF BeatArmed, evars
  <2>2. KeysAreRight' /\ MovingIsCounted'
    BY <2>1 DEF KeysAreRight, MovingIsCounted, Past, Syncs, Moves
  <2>3. ReadIsRight' /\ ChildIsMoving' /\ OwnedIsUp' /\ BootFindsNothing' /\ CountedIsOwned'
    BY <2>1
    DEF ReadIsRight, ChildIsMoving, OwnedIsUp, BootFindsNothing, CountedIsOwned, Moves, Syncs
  <2>. QED
    BY <2>2, <2>3
<1>5. ASSUME NEW a \in Activities, Start(a) PROVE WatchInv'
  <2>1. /\ gw = "up" /\ wired /\ sync' = Begun(Loop)
        /\ mgr' = [mgr EXCEPT ![a] = "starting"] /\ seen' = seen \cup ({a} \cap Plugins)
        /\ UNCHANGED <<gw, wired, child, proc>>
    BY <1>5 DEF Start, Free, CallBack, OneLoop
  <2>2. ChildIsMoving' /\ OwnedIsUp' /\ BootFindsNothing'
    BY <2>1 DEF ChildIsMoving, OwnedIsUp, BootFindsNothing, Moves, TypeOK
  <2>. QED
    BY <2>1, <2>2, BegunKnowsNothing
<1>6. ASSUME NEW a \in Activities, Fork(a) PROVE WatchInv'
  <2>1. /\ mgr[a] = "starting" /\ gw = "up"
        /\ \A b \in Activities \ {a} : proc'[b] = proc[b]
        /\ UNCHANGED <<gw, wired, mgr, child, seen, sync, pid_key, armed, estopd, left>>
    BY <1>6 DEF Fork, Free, gvars, bvars, evars, TypeOK
  <2>2. \A b \in Activities : Moves(b)' => Moves(b) /\ proc'[b] = proc[b]
    BY <2>1 DEF Moves
  <2>3. KeysAreRight' /\ MovingIsCounted' /\ ReadIsRight'
    BY <1>a, <2>1, <2>2 DEF KeysAreRight, MovingIsCounted, ReadIsRight, Past, Syncs
  <2>4. ChildIsMoving' /\ OwnedIsUp' /\ BootFindsNothing' /\ CountedIsOwned'
    BY <2>1, <2>2 DEF ChildIsMoving, OwnedIsUp, BootFindsNothing, CountedIsOwned, Syncs
  <2>. QED
    BY <2>3, <2>4
<1>7. ASSUME NEW a \in Activities, Spawned(a) PROVE WatchInv'
  <2>1. /\ gw = "up" /\ wired /\ sync' = Begun(Loop)
        /\ mgr[a] = "starting" /\ mgr' = [mgr EXCEPT ![a] = "running"]
        /\ child' = IF a \in Units THEN child ELSE [child EXCEPT ![a] = proc[a]]
        /\ UNCHANGED <<gw, wired, seen, proc>>
    BY <1>7 DEF Spawned, Free, CallBack, OwnedIsUp
  <2>2. ChildIsMoving' /\ OwnedIsUp' /\ BootFindsNothing'
    BY <2>1 DEF ChildIsMoving, OwnedIsUp, BootFindsNothing, Moves, TypeOK
  <2>. QED
    BY <2>1, <2>2, BegunKnowsNothing
<1>8. ASSUME NEW a \in Activities, Dies(a) PROVE WatchInv'
  <2>1. /\ proc' = [proc EXCEPT ![a] = 0]
        /\ UNCHANGED <<gw, wired, mgr, child, seen, sync, pid_key, armed, estopd, left>>
    BY <1>8 DEF Dies, gvars, bvars, evars
  <2>2. \A b \in Activities : proc'[b] \in {0, proc[b]}
    BY <2>1 DEF TypeOK
  <2>3. KeysAreRight'
    BY <1>a, <2>1, <2>2 DEF KeysAreRight, Past, Moves
  <2>. QED
    BY <2>1, <2>2, <2>3, FewerMove
<1>9. ASSUME NEW a \in Activities, Ends(Loop, a) PROVE WatchInv'
  <2>1. /\ sync' = Begun(Loop) /\ mgr' = [mgr EXCEPT ![a] = "idle"]
        /\ UNCHANGED <<gw, wired, child, seen, proc>>
    BY <1>9 DEF Ends, CallBack, OwnedIsUp
  <2>2. ChildIsMoving' /\ OwnedIsUp' /\ BootFindsNothing'
    BY <2>1 DEF ChildIsMoving, OwnedIsUp, BootFindsNothing, Moves, TypeOK
  <2>. QED
    BY <2>1, <2>2, BegunKnowsNothing
<1>10. ASSUME Manual PROVE WatchInv'
  <2>1. /\ sync' = Begun(Loop)
        /\ \A a \in Activities : \/ proc'[a] = proc[a] /\ mgr'[a] = mgr[a]
                                 \/ proc'[a] = 0 /\ mgr'[a] = "idle"
        /\ UNCHANGED <<gw, wired, child, seen>>
    BY <1>10 DEF Manual
  <2>2. ChildIsMoving' /\ OwnedIsUp' /\ BootFindsNothing'
    BY <1>a, <2>1 DEF ChildIsMoving, OwnedIsUp, BootFindsNothing, Moves
  <2>. QED
    BY <2>1, <2>2, BegunKnowsNothing
<1>11. ASSUME Connect \/ Heartbeat \/ ComesOrGoes \/ HangsOrGoesOn \/ Elapse \/ Poll \/ Judge
       PROVE  WatchInv'
  <2>1. /\ estopd' = estopd \/ (estopd # "kill" /\ estopd' # "kill")
        /\ wired => wired'
        /\ gw' = gw \/ (gw \in {"up", "hung"} /\ gw' \in {"up", "hung"})
        /\ UNCHANGED <<mgr, child, seen, sync, proc, pid_key, armed, left>>
    BY <1>11
    DEF Connect, Heartbeat, ComesOrGoes, HangsOrGoesOn, Elapse, Poll, Judge, gvars, bvars, evars
  <2>2. KeysAreRight' /\ MovingIsCounted' /\ ReadIsRight'
    BY <2>1 DEF KeysAreRight, MovingIsCounted, ReadIsRight, Past, Syncs, Moves
  <2>3. ChildIsMoving' /\ OwnedIsUp' /\ BootFindsNothing' /\ CountedIsOwned'
    BY <2>1 DEF ChildIsMoving, OwnedIsUp, BootFindsNothing, CountedIsOwned, Syncs, Moves
  <2>. QED
    BY <2>2, <2>3
<1>12. ASSUME GatewayDies PROVE WatchInv'
  <2>1. /\ gw' = "down" /\ \A a \in Activities : mgr'[a] = "idle"
        /\ sync'[Loop] = NoSync
    BY <1>12, <1>a DEF GatewayDies
  <2>. QED
    BY <1>a, <2>1, NoSyncFields
    DEF KeysAreRight, MovingIsCounted, ReadIsRight, ChildIsMoving, OwnedIsUp,
        BootFindsNothing, CountedIsOwned, Past, Syncs, Moves
<1>13. ASSUME Boot PROVE WatchInv'
  <2>1. /\ gw = "down" /\ gw' = "boot" /\ sync' = Begun(Loop)
        /\ \A a \in Plugins : proc'[a] = 0
        /\ UNCHANGED <<wired, mgr, child, seen>>
    BY <1>13, <1>a DEF Boot
  <2>2. \A a \in Activities : mgr[a] = "idle"
    BY <2>1 DEF OwnedIsUp
  <2>3. ChildIsMoving' /\ OwnedIsUp' /\ BootFindsNothing'
    BY <1>a, <2>1, <2>2 DEF ChildIsMoving, OwnedIsUp, BootFindsNothing, Moves
  <2>. QED
    BY <2>1, <2>3, BegunKnowsNothing
<1>14. ASSUME Restore PROVE WatchInv'
  <2>1. /\ gw = "boot" /\ gw' = "up" /\ sync[Loop].at = "none"
        /\ \A a \in Activities : mgr'[a] = "idle"
        /\ UNCHANGED <<sync, armed>>
    BY <1>14 DEF Restore, BootFindsNothing, bvars
  <2>2. ~armed
    BY <2>1 DEF CountedIsOwned, OwnedIsUp, Syncs
  <2>. QED
    BY <1>a, <2>1, <2>2
    DEF KeysAreRight, MovingIsCounted, ReadIsRight, ChildIsMoving, OwnedIsUp,
        BootFindsNothing, CountedIsOwned, Syncs, Moves
<1>15. ASSUME Snapshot PROVE WatchInv'
  <2>1. /\ estopd = "trip" /\ estopd' = "kill" /\ left' = pid_key
        /\ UNCHANGED <<gw, wired, mgr, child, seen, sync, proc, armed>>
    BY <1>15 DEF Snapshot, gvars, bvars
  <2>2. KeysAreRight'
    BY <2>1 DEF KeysAreRight, Past, Moves
  <2>. QED
    BY <2>1, <2>2, FewerMove
<1>16. ASSUME NEW a \in Activities, KillOne(a) PROVE WatchInv'
  <2>1. /\ estopd = "kill" /\ left[a] # 0
        /\ proc' = [b \in Activities |-> IF proc[b] = left[a] THEN 0 ELSE proc[b]]
        /\ left' = [left EXCEPT ![a] = 0]
        /\ UNCHANGED <<gw, wired, mgr, child, seen, sync, armed, estopd>>
    BY <1>16 DEF KillOne, gvars, TypeOK
  <2>2. \A b \in Activities : proc'[b] \in {0, proc[b]}
    BY <2>1
  <2>3. left \in [Activities -> 0 .. MaxPids]
    BY DEF TypeOK
  <2>4. KeysAreRight'
    <3> SUFFICES ASSUME NEW j \in DOMAIN Order, Past(j)', Moves(Order[j])'
                 PROVE  proc'[Order[j]] = left'[Order[j]]
      BY <2>1 DEF KeysAreRight
    <3>1. Past(j) /\ Moves(Order[j]) /\ proc'[Order[j]] = proc[Order[j]]
      BY <1>a, <2>1, <2>2 DEF Past, Moves
    <3>2. proc[Order[j]] = left[Order[j]] /\ proc[Order[j]] # left[a]
      BY <1>a, <2>1, <3>1 DEF KeysAreRight, Moves
    <3>. QED
      BY <1>a, <2>1, <2>3, <3>1, <3>2
  <2>. QED
    BY <2>1, <2>2, <2>4, FewerMove
<1>17. ASSUME Disarm PROVE WatchInv'
  <2>1. /\ estopd = "kill" /\ \A a \in Activities : left[a] = 0
        /\ armed' = FALSE /\ estopd' = "poll"
        /\ UNCHANGED <<gw, wired, mgr, child, seen, sync, proc>>
    BY <1>17 DEF Disarm, gvars
  <2>2. \A j \in DOMAIN Order : Past(j) => ~Moves(Order[j])
    BY <1>a, <2>1 DEF KeysAreRight, Moves
  <2>3. KeysAreRight' /\ MovingIsCounted'
    BY <2>1, <2>2 DEF KeysAreRight, MovingIsCounted, Past, Moves
  <2>4. ReadIsRight' /\ ChildIsMoving' /\ OwnedIsUp' /\ BootFindsNothing' /\ CountedIsOwned'
    BY <2>1
    DEF ReadIsRight, ChildIsMoving, OwnedIsUp, BootFindsNothing, CountedIsOwned, Syncs, Moves
  <2>. QED
    BY <2>3, <2>4
<1>18. ASSUME UNCHANGED vars PROVE WatchInv'
  <2>1. UNCHANGED <<gw, wired, mgr, child, seen, sync, proc, pid_key, armed, estopd, left>>
    BY <1>18 DEF vars
  <2>2. KeysAreRight'
    BY <2>1 DEF KeysAreRight, Past, Moves
  <2>. QED
    BY <2>1, <2>2, FewerMove
<1>. QED
  BY <1>a, <1>1, <1>2, <1>3, <1>4, <1>5, <1>6, <1>7, <1>8, <1>9, <1>10, <1>11, <1>12, <1>13,
     <1>14, <1>15, <1>16, <1>17, <1>18
  DEF Next, SyncNext, OwnerNext, EstopdNext

LEMMA InvIsEnough == OneLoop /\ TypeOK /\ WatchInv => WatchFollows
<1> SUFFICES ASSUME OneLoop, TypeOK, WatchInv PROVE WatchFollows
  OBVIOUS
<1>1. Quiet => gw = "up" /\ sync[Loop].at = "none"
  BY ThreadsAssumption DEF Quiet
<1>2. Watched
  <2> SUFFICES ASSUME Quiet, ~Tripping, NEW a \in Activities, Moves(a)
               PROVE  pid_key[a] = proc[a] /\ armed
    BY DEF Watched, Moves
  <2>1. PICK j \in DOMAIN Order : a = Order[j]
    BY OrderFacts
  <2>2. Past(j) /\ ~Syncs /\ estopd # "kill"
    BY <1>1 DEF Past, Syncs, Tripping
  <2>. QED
    BY <2>1, <2>2 DEF WatchInv, KeysAreRight, MovingIsCounted
<1>3. IdleIsDisarmed
  BY <1>1 DEF IdleIsDisarmed, WatchInv, CountedIsOwned, Syncs
<1>. QED
  BY <1>2, <1>3 DEF WatchFollows

-----------------------------------------------------------------------------
(* Theorems *)

\* Every reachable state is well typed, whatever dies, hangs or overlaps; above all,
\* estopd has something left to kill only while it is killing.
THEOREM TypeCorrect == Spec => []TypeOK
<1>1. TypeOK /\ [Next]_vars => TypeOK'
  BY TypeStep
<1>. QED
  BY TypeInit, <1>1, PTL DEF Spec

\* With one loop whatever moves an arm is on the bus and watched, and nothing is
\* watched when nothing runs, over hangs, restarts and trips at any moment.
THEOREM WatchIsKept == ASSUME OneLoop PROVE Spec => []WatchFollows
<1>1. TypeOK /\ WatchInv /\ [Next]_vars => WatchInv'
  BY WatchStep
<1>2. TypeOK /\ WatchInv => WatchFollows
  BY InvIsEnough
<1>. QED
  BY TypeCorrect, WatchInit, <1>1, <1>2, PTL DEF Spec

=============================================================================
