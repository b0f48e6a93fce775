------------------------- MODULE ActivityGateProofs -------------------------
(***************************************************************************)
(* What the gate of ActivityGate keeps, for any activities of the table,   *)
(* any of them owned by units and any finite set of requests.              *)
(*                                                                         *)
(* With one request at a time the table does what it is for: from its      *)
(* check to its end nothing starts that contends with what the request is  *)
(* about (WayIsClear), because the table is symmetric wherever both sides  *)
(* have an owner to ask (TableIsSymmetric).  With any number of requests,  *)
(* but children only, an owner looks at itself once more: SpawnsApart.     *)
(* The E-stop's loop leaves nothing behind it because what lived at the    *)
(* press and lives still is ahead of the loop: PressedIsAhead.             *)
(***************************************************************************)
EXTENDS ActivityGate, FiniteSetTheorems, TLAPS

OneByOne == \A r, s \in Requests : r = s

Working(a) == {r \in Requests : req[r].at = "work" /\ req[r].act = a}
WorkIsUnseen == \A r \in Requests : req[r].at = "work" => req[r].act \in Unseen
WorkCounted == \A a \in Acts \cap Unseen : jobs[a] = Cardinality(Working(a))

\* a killed child is busy until estop_all finds it gone
AwaitedIsBusy == turn < Over => Waits(turn)

TypeInv == TypeOK /\ WorkIsUnseen /\ WorkCounted /\ AwaitedIsBusy

\* what a request is about to start, or is starting, has nothing in its way
WayIsClear ==
    \A r \in Requests : \A b \in Acts :
        req[r] # Off /\ b \in BLOCKED_BY[req[r].act] /\ Contends(req[r].act, b)
            => ~Busy(b) /\ jobs[b] = 0

NotYet ==
    \A r \in Requests :
        req[r].at = "checked" /\ req[r].act \notin Unseen \cup InProcess
            => ~Busy(req[r].act) /\ jobs[req[r].act] = 0

HalfStarted ==
    \A r \in Requests :
        req[r].at = "spawn" =>
            /\ req[r].act \notin Unseen \cup InProcess
            /\ req[r].act \in Units => jobs[req[r].act] = 0
            /\ req[r].act \notin Units =>
                  jobs[req[r].act] = 1 /\ state[req[r].act] = "starting"

SoloInv == RunningIsSeen /\ NoContention /\ WayIsClear /\ NotYet /\ HalfStarted

\* an owner has one start under way at most
SpawnsApart ==
    \A r \in Requests :
        req[r].at = "spawn" =>
            /\ req[r].act \notin Unseen \cup InProcess
            /\ jobs[req[r].act] = 1 /\ state[req[r].act] = "starting"
            /\ \A s \in Requests : req[s] = req[r] => s = r

StartsAreSpawning == \A a \in Acts : state[a] = "starting" => Spawning(a)

\* estop_all has not come to this target yet
Ahead(a) == \E i \in turn .. Len(ESTOP_TARGETS) : ESTOP_TARGETS[i] = a

\* what lived at the press and lives still can be killed, and will be asked about
PressedIsAhead == \A a \in pressed : state[a] \in {"running", "stopping"} /\ Ahead(a)

ChildInv == RunningIsSeen /\ SpawnsApart /\ StartsAreSpawning /\ PressedIsAhead

-----------------------------------------------------------------------------
(* The table *)

\* Of two activities with owners, each asks for the other or neither does.
LEMMA TableIsSymmetric ==
    \A a, b \in DOMAIN BLOCKED_BY \ Unseen :
        b \in BLOCKED_BY[a] /\ Contends(a, b) => a \in BLOCKED_BY[b]
  BY DEF BLOCKED_BY, Unseen, Contends

\* Nothing asks for itself, or for what nobody answers for.
LEMMA TableIsApart ==
    \A a \in DOMAIN BLOCKED_BY : a \notin BLOCKED_BY[a] /\ BLOCKED_BY[a] \cap Unseen = {}
  BY DEF BLOCKED_BY, Unseen

LEMMA ActsAreKnown == Acts \subseteq DOMAIN BLOCKED_BY /\ "none" \notin Acts
  BY ActsAssumption DEF BLOCKED_BY

-----------------------------------------------------------------------------
(* Requests *)

LEMMA ReqFields ==
    ASSUME TypeOK, NEW r \in Requests
    PROVE  /\ req[r].at \in {"off", "checked", "spawn", "work"}
           /\ req[r].at # "off" => req[r].act \in Acts
           /\ req[r] = Off <=> req[r].at = "off"
  BY DEF TypeOK, Off

LEMMA StageFields == \A stage, a : At(stage, a).at = stage /\ At(stage, a).act = a
  BY DEF At

LEMMA OffFields == Off.at = "off" /\ Off.act = "none"
  BY DEF Off

\* Work that begins or ends is counted.
LEMMA WorkAdds ==
    ASSUME TypeInv, NEW r \in Requests, \A s \in Requests \ {r} : req'[s] = req[s], NEW a
    PROVE  /\ Cardinality(Working(a)) \in Nat
           /\ r \notin Working(a) /\ r \in Working(a)' =>
                 Cardinality(Working(a)') = Cardinality(Working(a)) + 1
           /\ r \in Working(a) /\ r \notin Working(a)' =>
                 /\ Cardinality(Working(a)') = Cardinality(Working(a)) - 1
                 /\ Cardinality(Working(a)) > 0
           /\ (r \in Working(a) <=> r \in Working(a)') => Working(a)' = Working(a)
<1>1. IsFiniteSet(Working(a)) /\ Cardinality(Working(a)) \in Nat
  BY RequestsAssumption, FS_Subset, FS_CardinalityType DEF Working
<1>2. ASSUME r \notin Working(a), r \in Working(a)'
      PROVE  Cardinality(Working(a)') = Cardinality(Working(a)) + 1
  <2>1. Working(a)' = Working(a) \cup {r}
    BY <1>2 DEF Working
  <2>. QED
    BY <1>1, <1>2, <2>1, FS_AddElement
<1>3. ASSUME r \in Working(a), r \notin Working(a)'
      PROVE  /\ Cardinality(Working(a)') = Cardinality(Working(a)) - 1
             /\ Cardinality(Working(a)) > 0
  <2>1. Working(a)' = Working(a) \ {r}
    BY <1>3 DEF Working
  <2>. QED
    BY <1>1, <1>3, <2>1, FS_RemoveElement, FS_EmptySet
<1>4. ASSUME r \in Working(a) <=> r \in Working(a)' PROVE Working(a)' = Working(a)
  BY <1>4 DEF Working
<1>. QED
  BY <1>1, <1>2, <1>3, <1>4

\* A step of a request that does no work leaves the account as it is.
LEMMA NoWorkMoves ==
    ASSUME TypeInv, NEW r \in Requests, \A s \in Requests \ {r} : req'[s] = req[s],
           req[r].at # "work", req'[r].at # "work",
           \A a \in Acts \cap Unseen : jobs'[a] = jobs[a]
    PROVE  WorkIsUnseen' /\ WorkCounted'
<1>1. \A a : Working(a)' = Working(a)
  BY DEF Working
<1>2. WorkCounted'
  BY <1>1 DEF TypeInv, WorkCounted
<1>3. WorkIsUnseen'
  BY DEF TypeInv, WorkIsUnseen
<1>. QED
  BY <1>2, <1>3

\* A step that touches one request leaves the others alone.
LEMMA OneRequestMoves ==
    ASSUME TypeOK, NEW r \in Requests, NEW q, req' = [req EXCEPT ![r] = q]
    PROVE  req'[r] = q /\ \A s \in Requests \ {r} : req'[s] = req[s]
  BY DEF TypeOK

-----------------------------------------------------------------------------
(* The loop of the E-stop *)

LEMMA LoopHasAnEnd == Len(ESTOP_TARGETS) = 4 /\ Over = 5
  BY DEF ESTOP_TARGETS, Over

\* The targets are different, and none is work without an owner.
LEMMA TargetsDiffer ==
    /\ \A i, j \in 1 .. Len(ESTOP_TARGETS) : ESTOP_TARGETS[i] = ESTOP_TARGETS[j] => i = j
    /\ \A i \in 1 .. Len(ESTOP_TARGETS) : ESTOP_TARGETS[i] \notin Unseen
<1>1. \A i \in 1 .. 4 : i = 1 \/ i = 2 \/ i = 3 \/ i = 4
  OBVIOUS
<1>. QED
  BY <1>1, LoopHasAnEnd DEF ESTOP_TARGETS, Unseen

\* Who waits for nothing but a child it has killed is not confused by another's end.
LEMMA WaitsForChild ==
    ASSUME NEW i \in 1 .. Len(ESTOP_TARGETS), Waits(i)
    PROVE  /\ ESTOP_TARGETS[i] \in Acts \ (Units \cup InProcess \cup Unseen)
           /\ state[ESTOP_TARGETS[i]] \in {"running", "stopping"}
  BY TargetsDiffer DEF Waits, Kills

\* A step that leaves the loop where it is and its child busy.
LEMMA StillAwaited ==
    ASSUME TypeInv, turn' = turn,
           turn < Over => state'[ESTOP_TARGETS[turn]] \in {"running", "stopping"}
    PROVE  AwaitedIsBusy'
  BY DEF TypeInv, AwaitedIsBusy, Waits, Busy, Kills

\* What the loop does between two waits: it closes sessions and ends killed children.
LEMMA EstopMoves ==
    ASSUME TypeInv, EstopAll \/ EstopReaps
    PROVE  /\ req' = req
           /\ turn' \in 1 .. Over /\ pressed' \subseteq Targets /\ overtaken' \subseteq Requests
           /\ state' \in [Acts -> {"idle", "starting", "running", "stopping", "error"}]
           /\ jobs' \in [Acts -> Nat]
           /\ \A a \in Acts :
                 \/ jobs'[a] = jobs[a] /\ state'[a] = state[a]
                 \/ /\ jobs'[a] = 0 /\ state'[a] = "idle" /\ a \notin Units \cup Unseen
                    /\ a \in InProcess \/ state[a] \in {"running", "stopping"}
           /\ AwaitedIsBusy'
<1>1. PICK k \in 1 .. Over, down \in SUBSET Acts, alive \in SUBSET Targets :
          /\ GoesOn(k, down, alive)
          /\ \A a \in down : \E i \in 1 .. Len(ESTOP_TARGETS) :
                i < k /\ ESTOP_TARGETS[i] = a /\ Waits(i)
  <2>1. CASE EstopAll
    BY <2>1, LoopHasAnEnd DEF EstopAll, Targets
  <2>2. CASE EstopReaps
    <3>1. turn \in 1 .. Len(ESTOP_TARGETS) /\ Waits(turn) /\ turn + 1 \in 1 .. Over
      BY <2>2, LoopHasAnEnd DEF EstopReaps, TypeInv, TypeOK, AwaitedIsBusy
    <3>2. ESTOP_TARGETS[turn] \in Acts
      BY <3>1 DEF Waits
    <3>3. pressed \in SUBSET Targets
      BY DEF TypeInv, TypeOK
    <3>4. GoesOn(turn + 1, {ESTOP_TARGETS[turn]}, pressed)
      BY <2>2 DEF EstopReaps
    <3>. QED
      BY <3>1, <3>2, <3>3, <3>4
  <2>. QED
    BY <2>1, <2>2
<1>2. PICK t \in k .. Over :
          LET gone == down \cup (InProcess \cap {ESTOP_TARGETS[i] : i \in k .. t - 1}) IN
          /\ \A i \in k .. t - 1 : ~Waits(i)
          /\ t < Over => Waits(t)
          /\ turn' = t
          /\ jobs' = [a \in Acts |-> IF a \in gone THEN 0 ELSE jobs[a]]
          /\ state' = [a \in Acts |-> IF a \in gone THEN "idle" ELSE state[a]]
          /\ pressed' = alive \ gone
  BY <1>1 DEF GoesOn
<1> DEFINE gone == down \cup (InProcess \cap {ESTOP_TARGETS[i] : i \in k .. t - 1})
<1>3. /\ turn' = t /\ t \in 1 .. Over
      /\ jobs' = [a \in Acts |-> IF a \in gone THEN 0 ELSE jobs[a]]
      /\ state' = [a \in Acts |-> IF a \in gone THEN "idle" ELSE state[a]]
      /\ pressed' = alive \ gone
  BY <1>2, LoopHasAnEnd
<1>4. \A a \in gone : \/ a \in InProcess
                      \/ \E i \in 1 .. Len(ESTOP_TARGETS) : i < k /\ ESTOP_TARGETS[i] = a /\ Waits(i)
  BY <1>1
<1>. HIDE DEF gone
<1>5. \A a \in gone \cap Acts :
          a \notin Units \cup Unseen /\ (a \in InProcess \/ state[a] \in {"running", "stopping"})
  BY <1>4, WaitsForChild, ActsAssumption DEF InProcess, Unseen
<1>6. req' = req /\ overtaken' \subseteq Requests
  BY DEF EstopAll, EstopReaps, TypeInv, TypeOK
<1>7. /\ state' \in [Acts -> {"idle", "starting", "running", "stopping", "error"}]
      /\ jobs' \in [Acts -> Nat]
  BY <1>3 DEF TypeInv, TypeOK
<1>8. ASSUME t < Over PROVE AwaitedIsBusy'
  <2>1. t \in 1 .. Len(ESTOP_TARGETS) /\ Waits(t)
    BY <1>2, <1>3, <1>8, LoopHasAnEnd
  <2>2. ESTOP_TARGETS[t] \notin gone
    <3>1. ESTOP_TARGETS[t] \notin InProcess
      BY <2>1, WaitsForChild
    <3>2. \A i \in 1 .. Len(ESTOP_TARGETS) : i < k => ESTOP_TARGETS[i] # ESTOP_TARGETS[t]
      BY <2>1, TargetsDiffer
    <3>. QED
      BY <1>4, <3>1, <3>2
  <2>3. state'[ESTOP_TARGETS[t]] = state[ESTOP_TARGETS[t]]
    BY <1>3, <2>1, <2>2, WaitsForChild
  <2>. QED
    BY <1>3, <2>1, <2>3 DEF AwaitedIsBusy, Waits, Busy, Kills
<1>9. AwaitedIsBusy'
  BY <1>3, <1>8 DEF AwaitedIsBusy
<1>. QED
  BY <1>1, <1>3, <1>5, <1>6, <1>7, <1>9

-----------------------------------------------------------------------------
(* Types *)

LEMMA TypeInit == Init => TypeInv
<1> SUFFICES ASSUME Init PROVE TypeInv
  OBVIOUS
<1>1. \A a : Working(a) = {}
  BY OffFields DEF Init, Working
<1>2. WorkCounted
  BY <1>1, FS_EmptySet DEF Init, WorkCounted
<1>3. AwaitedIsBusy
  BY LoopHasAnEnd DEF Init, AwaitedIsBusy
<1>. QED
  BY <1>2, <1>3, LoopHasAnEnd DEF Init, TypeInv, TypeOK, WorkIsUnseen, Off

LEMMA TypeStep == ASSUME TypeInv, [Next]_vars PROVE TypeInv'
<1> USE DEF TypeInv, TypeOK, estop
<1> DEFINE States == {"idle", "starting", "running", "stopping", "error"}
           Req == [Requests -> [at : {"off", "checked", "spawn", "work"}, act : Acts \cup {"none"}]]
           ReqOK == req' \in Req /\ \A r \in Requests : req'[r].at = "off" <=> req'[r].act = "none"
<1>a. turn < Over => turn \in 1 .. Len(ESTOP_TARGETS) /\ Waits(turn)
  BY LoopHasAnEnd DEF AwaitedIsBusy
<1>b. turn < Over => /\ ESTOP_TARGETS[turn] \in Acts \ (Units \cup InProcess \cup Unseen)
                     /\ state[ESTOP_TARGETS[turn]] \in {"running", "stopping"}
  BY <1>a, WaitsForChild
<1>1. ASSUME NEW r \in Requests, NEW a \in Acts, Check(r, a) PROVE TypeInv'
  <2>1. req[r].at # "work" /\ req'[r].at # "work" /\ \A s \in Requests \ {r} : req'[s] = req[s]
    BY <1>1 DEF Check, At, Off
  <2>2. state' = state /\ jobs' = jobs /\ turn' = turn /\ pressed' = pressed /\ overtaken' \subseteq overtaken
    BY <1>1 DEF Check
  <2>3. WorkIsUnseen' /\ WorkCounted'
    BY <2>1, <2>2, NoWorkMoves
  <2>4. ReqOK
    BY <1>1, ActsAreKnown DEF Check, At
  <2>5. AwaitedIsBusy'
    BY <1>b, <2>2, StillAwaited
  <2>. QED
    BY <2>2, <2>3, <2>4, <2>5
<1>2. ASSUME NEW r \in Requests, StartChild(r) \/ StartUnit(r) \/ StartSession(r) PROVE TypeInv'
  <2>1. req[r].act \in Acts \ Unseen /\ req[r].at = "checked"
    BY <1>2, ActsAssumption, ReqFields DEF StartChild, StartUnit, StartSession, InProcess, Unseen
  <2>2. \E q \in {Off, At("spawn", req[r].act)} : req' = [req EXCEPT ![r] = q]
    BY <1>2 DEF StartChild, StartUnit, StartSession
  <2>3. req'[r].at # "work" /\ \A s \in Requests \ {r} : req'[s] = req[s]
    BY <2>2 DEF At, Off
  <2>4. ReqOK
    BY <2>1, <2>2, ActsAreKnown DEF At, Off
  <2>5. /\ state' \in [Acts -> States] /\ jobs' \in [Acts -> Nat]
        /\ \A b \in Acts \cap Unseen : jobs'[b] = jobs[b]
        /\ turn' = turn /\ pressed' = pressed /\ overtaken' = overtaken
    BY <1>2, <2>1 DEF StartChild, StartUnit, StartSession
  <2>6. WorkIsUnseen' /\ WorkCounted'
    BY <2>1, <2>3, <2>5, NoWorkMoves
  <2>7. \A b \in Acts \ Units : Busy(b) => state'[b] = state[b]
    BY <1>2, <2>1 DEF StartChild, StartUnit, StartSession
  <2>8. AwaitedIsBusy'
    BY <1>b, <2>5, <2>7, StillAwaited DEF Busy
  <2>. QED
    BY <2>4, <2>5, <2>6, <2>8
<1>3. ASSUME NEW r \in Requests, ChildIsUp(r) \/ UnitAnswers(r) \/ Refused(r) PROVE TypeInv'
  <2>1. req[r].at # "work" /\ req' = [req EXCEPT ![r] = Off] /\ req[r].act \in Acts
    BY <1>3, ReqFields DEF ChildIsUp, UnitAnswers, Refused
  <2>2. req'[r].at # "work" /\ \A s \in Requests \ {r} : req'[s] = req[s]
    BY <2>1, OneRequestMoves, OffFields
  <2>3. ReqOK
    BY <2>1 DEF Off
  <2>4. /\ state' \in [Acts -> States] /\ jobs' \in [Acts -> Nat]
        /\ \A b \in Acts \cap Unseen : jobs'[b] = jobs[b]
        /\ \A b \in Acts \ Units : state'[b] = state[b] \/ state'[b] = "running"
        /\ turn' = turn /\ pressed' = pressed /\ overtaken' = overtaken
    BY <1>3, <2>1, ActsAssumption DEF ChildIsUp, UnitAnswers, Refused
  <2>5. WorkIsUnseen' /\ WorkCounted'
    BY <2>1, <2>2, <2>4, NoWorkMoves
  <2>6. AwaitedIsBusy'
    BY <1>b, <2>4, StillAwaited
  <2>. QED
    BY <2>3, <2>4, <2>5, <2>6
<1>4. ASSUME NEW r \in Requests, Work(r) \/ WorkDone(r) PROVE TypeInv'
  <2>a. PICK a : a = req[r].act
    OBVIOUS
  <2>1. /\ a \in Acts \cap Unseen /\ state' = state
        /\ turn' = turn /\ pressed' = pressed /\ overtaken' = overtaken
        /\ jobs[a] = Cardinality(Working(a))
    BY <1>4, <2>a, ReqFields DEF Work, WorkDone, WorkIsUnseen, WorkCounted
  <2>2. \/ /\ r \notin Working(a) /\ jobs' = [jobs EXCEPT ![a] = jobs[a] + 1]
           /\ req' = [req EXCEPT ![r] = At("work", a)]
        \/ /\ r \in Working(a) /\ jobs' = [jobs EXCEPT ![a] = jobs[a] - 1]
           /\ req' = [req EXCEPT ![r] = Off]
    BY <1>4, <2>a DEF Work, WorkDone, Working
  <2>3. /\ req'[r] \in {At("work", a), Off}
        /\ \A s \in Requests \ {r} : req'[s] = req[s]
    BY <2>2, OneRequestMoves
  <2>4. ReqOK
    BY <2>1, <2>2, ActsAreKnown DEF At, Off
  <2>5. WorkIsUnseen'
    BY <2>1, <2>3, StageFields, OffFields DEF WorkIsUnseen
  <2>6. \A b \in Acts \ {a} : Working(b)' = Working(b)
    <3>1. \A b \in Acts \ {a} : r \notin Working(b) /\ r \notin Working(b)'
      BY <2>a, <2>3, StageFields, OffFields DEF Working
    <3>. QED
      BY <2>3, <3>1, WorkAdds
  <2>7. /\ jobs' \in [Acts -> Nat]
        /\ jobs'[a] = Cardinality(Working(a)')
    <3>1. CASE req' = [req EXCEPT ![r] = At("work", a)] /\ r \notin Working(a)
      <4>1. jobs' = [jobs EXCEPT ![a] = jobs[a] + 1] /\ r \in Working(a)'
        BY <2>2, <3>1, StageFields, OneRequestMoves DEF Working
      <4>2. Cardinality(Working(a)') = Cardinality(Working(a)) + 1 /\ Cardinality(Working(a)) \in Nat
        BY <2>3, <3>1, <4>1, WorkAdds
      <4>. QED
        BY <2>1, <4>1, <4>2
    <3>2. CASE req' = [req EXCEPT ![r] = Off] /\ r \in Working(a)
      <4>1. jobs' = [jobs EXCEPT ![a] = jobs[a] - 1] /\ r \notin Working(a)'
        BY <2>2, <3>2, OffFields, OneRequestMoves DEF Working
      <4>2. /\ Cardinality(Working(a)') = Cardinality(Working(a)) - 1
            /\ Cardinality(Working(a)) \in Nat /\ Cardinality(Working(a)) > 0
        BY <2>3, <3>2, <4>1, WorkAdds
      <4>. QED
        BY <2>1, <4>1, <4>2
    <3>. QED
      BY <2>2, <3>1, <3>2
  <2>8. \A b \in Acts \ {a} : jobs'[b] = jobs[b]
    BY <2>2
  <2>9. WorkCounted'
    BY <2>6, <2>7, <2>8 DEF WorkCounted
  <2>10. AwaitedIsBusy'
    BY <1>b, <2>1, StillAwaited
  <2>. QED
    BY <2>1, <2>4, <2>5, <2>7, <2>9, <2>10
<1>5. ASSUME NEW a \in Acts, StopChild(a) \/ ChildEnds(a) \/ UnitEnds(a) \/ AskUnit(a) \/ StopUnit(a)
      PROVE  TypeInv'
  <2>1. req' = req /\ turn' = turn /\ pressed' \subseteq pressed /\ overtaken' = overtaken
    BY <1>5 DEF StopChild, ChildEnds, UnitEnds, AskUnit, StopUnit
  <2>2. /\ state' \in [Acts -> States]
        /\ \A b \in Acts \cap Unseen : jobs'[b] = jobs[b]
    BY <1>5, ActsAssumption DEF StopChild, ChildEnds, UnitEnds, AskUnit, StopUnit
  <2>3. jobs' \in [Acts -> Nat]
    BY <1>5 DEF StopChild, ChildEnds, UnitEnds, AskUnit, StopUnit
  <2>4. \A b : Working(b)' = Working(b)
    BY <2>1 DEF Working
  <2>5. turn < Over => state'[ESTOP_TARGETS[turn]] \in {"running", "stopping"}
    BY <1>5, <1>b DEF StopChild, ChildEnds, UnitEnds, AskUnit, StopUnit, Awaited
  <2>6. AwaitedIsBusy'
    BY <2>1, <2>5, StillAwaited
  <2>. QED
    BY <2>1, <2>2, <2>3, <2>4, <2>6 DEF WorkIsUnseen, WorkCounted
<1>6. ASSUME EstopAll \/ EstopReaps PROVE TypeInv'
  <2>1. /\ req' = req
        /\ turn' \in 1 .. Over /\ pressed' \subseteq Targets /\ overtaken' \subseteq Requests
        /\ state' \in [Acts -> States] /\ jobs' \in [Acts -> Nat]
        /\ \A a \in Acts \cap Unseen : jobs'[a] = jobs[a]
        /\ AwaitedIsBusy'
    BY <1>6, EstopMoves
  <2>2. \A b : Working(b)' = Working(b)
    BY <2>1 DEF Working
  <2>. QED
    BY <2>1, <2>2 DEF WorkIsUnseen, WorkCounted
<1>7. ASSUME UNCHANGED vars PROVE TypeInv'
  BY <1>7 DEF vars, WorkIsUnseen, WorkCounted, Working, AwaitedIsBusy, Waits, Busy, Kills
<1>. QED
  BY <1>1, <1>2, <1>3, <1>4, <1>5, <1>6, <1>7 DEF Next, RequestNext

-----------------------------------------------------------------------------
(* One request at a time *)

\* With one request at a time, and that one not working, no work is under way.
LEMMA NoWorkBeside ==
    ASSUME OneByOne, TypeInv, NEW r \in Requests, req[r].at # "work"
    PROVE  \A a \in Acts \cap Unseen : jobs[a] = 0
<1>1. \A a : Working(a) = {}
  BY DEF OneByOne, Working
<1>. QED
  BY <1>1, FS_EmptySet DEF TypeInv, WorkCounted

\* A step that adds processes only to what a request is about causes no contention.
LEMMA StartsApart ==
    ASSUME OneByOne, TypeInv, NoContention, WayIsClear,
           NEW r \in Requests, req[r].at \in {"checked", "spawn"},
           \A b \in Acts \ {req[r].act} : jobs'[b] = jobs[b]
    PROVE  NoContention'
<1> DEFINE a == req[r].act
<1>1. a \in Acts /\ req[r] # Off
  BY ReqFields DEF TypeInv
<1>2. \A b \in Acts : b \in BLOCKED_BY[a] /\ Contends(a, b) => jobs[b] = 0
  BY <1>1 DEF WayIsClear
<1>3. \A b \in Acts : a \in BLOCKED_BY[b] /\ Contends(b, a) => jobs[b] = 0
  <2> SUFFICES ASSUME NEW b \in Acts, a \in BLOCKED_BY[b], Contends(b, a) PROVE jobs[b] = 0
    OBVIOUS
  <2>1. CASE b \in Unseen
    BY <2>1, NoWorkBeside
  <2>2. CASE b \notin Unseen
    <3>1. a \notin Unseen /\ a \in DOMAIN BLOCKED_BY /\ b \in DOMAIN BLOCKED_BY
      BY <1>1, TableIsApart, ActsAreKnown
    <3>2. b \in BLOCKED_BY[a] /\ Contends(a, b)
      BY <2>2, <3>1, TableIsSymmetric DEF Contends
    <3>. QED
      BY <1>2, <3>2
  <2>. QED
    BY <2>1, <2>2
<1>4. a \notin BLOCKED_BY[a]
  BY <1>1, TableIsApart, ActsAreKnown
<1>. HIDE DEF a
<1> SUFFICES ASSUME NEW b \in Acts, NEW c \in Acts,
                    jobs'[b] > 0, jobs'[c] > 0, c \in BLOCKED_BY[b], Contends(b, c)
             PROVE  FALSE
  BY DEF NoContention, Contends
<1>5. b # a => jobs'[b] = jobs[b]
  BY DEF a
<1>6. c # a => jobs'[c] = jobs[c]
  BY DEF a
<1>. QED
  BY <1>1, <1>2, <1>3, <1>4, <1>5, <1>6 DEF NoContention

LEMMA SoloInit == Init => SoloInv
  BY OffFields, ActsAreKnown
  DEF Init, SoloInv, RunningIsSeen, NoContention, WayIsClear, NotYet, HalfStarted

LEMMA SoloStep == ASSUME OneByOne, TypeInv, SoloInv, [Next]_vars PROVE SoloInv'
<1> USE DEF TypeInv, TypeOK, SoloInv, Busy
<1>1. ASSUME NEW r \in Requests, NEW a \in Acts, Check(r, a) PROVE SoloInv'
  <2>1. /\ req'[r] = At("checked", a) /\ \A s \in Requests : s = r
        /\ state' = state /\ jobs' = jobs
    BY <1>1 DEF Check, OneByOne
  <2>2. \A b \in Acts : b \in BLOCKED_BY[a] /\ Contends(a, b) => ~Busy(b) /\ b \notin Unseen
    BY <1>1, TableIsApart, ActsAreKnown DEF Check, Blocking
  <2>3. \A b \in Acts \ Unseen : ~Busy(b) => jobs[b] = 0
    BY DEF RunningIsSeen
  <2>4. a \in InProcess \/ ~Busy(a)
    BY <1>1 DEF Check, Blocking
  <2>5. WayIsClear'
    BY <2>1, <2>2, <2>3, StageFields DEF WayIsClear, Contends
  <2>6. NotYet' /\ HalfStarted'
    BY <2>1, <2>3, <2>4, StageFields DEF NotYet, HalfStarted
  <2>. QED
    BY <2>1, <2>5, <2>6 DEF RunningIsSeen, NoContention, Contends
<1>2. ASSUME NEW r \in Requests, StartChild(r) PROVE SoloInv'
  <2> DEFINE a == req[r].act
  <2>1. /\ a \in Acts \ (Unseen \cup Units \cup InProcess) /\ ~Busy(a) /\ jobs[a] = 0
        /\ req[r].at = "checked" /\ req[r] # Off
    BY <1>2, ReqFields DEF StartChild, NotYet
  <2>2. /\ state' = [state EXCEPT ![a] = "starting"]
        /\ jobs' = [jobs EXCEPT ![a] = 1]
        /\ req'[r] = At("spawn", a) /\ \A s \in Requests : s = r
    BY <1>2, <2>1 DEF StartChild, OneByOne
  <2>3. NoContention'
    BY <2>1, <2>2, StartsApart
  <2>4. a \notin BLOCKED_BY[a]
    BY <2>1, TableIsApart, ActsAreKnown
  <2>. HIDE DEF a
  <2>5. WayIsClear'
    BY <2>1, <2>2, <2>4, StageFields DEF WayIsClear, Contends, a
  <2>6. NotYet' /\ HalfStarted' /\ RunningIsSeen'
    BY <2>1, <2>2, StageFields DEF NotYet, HalfStarted, RunningIsSeen
  <2>. QED
    BY <2>3, <2>5, <2>6
<1>3. ASSUME NEW r \in Requests, StartUnit(r) PROVE SoloInv'
  <2> DEFINE a == req[r].act
  <2>1. /\ a \in Units /\ a \in Acts \ (Unseen \cup InProcess) /\ jobs[a] = 0
        /\ req[r].at = "checked" /\ req[r] # Off
    BY <1>3, ReqFields, ActsAssumption DEF StartUnit, NotYet
  <2>2. /\ state' = [state EXCEPT ![a] = "starting"] /\ jobs' = jobs
        /\ req'[r] = At("spawn", a) /\ \A s \in Requests : s = r
    BY <1>3 DEF StartUnit, OneByOne
  <2>3. a \notin BLOCKED_BY[a]
    BY <2>1, TableIsApart, ActsAreKnown
  <2>. HIDE DEF a
  <2>4. WayIsClear'
    BY <2>1, <2>2, <2>3, StageFields DEF WayIsClear, Contends, a
  <2>5. NotYet' /\ HalfStarted' /\ RunningIsSeen' /\ NoContention'
    BY <2>1, <2>2, StageFields DEF NotYet, HalfStarted, RunningIsSeen, NoContention, Contends
  <2>. QED
    BY <2>4, <2>5
<1>4. ASSUME NEW r \in Requests, StartSession(r) PROVE SoloInv'
  <2> DEFINE a == req[r].act
  <2>1. /\ a \in Acts \ Unseen /\ req[r].at = "checked"
        /\ req'[r] = Off /\ \A s \in Requests : s = r
        /\ \/ state' = state /\ jobs' = jobs
           \/ /\ state' = [state EXCEPT ![a] = "running"]
              /\ jobs' = [jobs EXCEPT ![a] = 1]
    BY <1>4, ReqFields DEF StartSession, InProcess, Unseen, OneByOne
  <2>2. NoContention'
    BY <2>1, StartsApart
  <2>. HIDE DEF a
  <2>3. WayIsClear' /\ NotYet' /\ HalfStarted'
    BY <2>1, OffFields DEF WayIsClear, NotYet, HalfStarted
  <2>4. RunningIsSeen'
    BY <2>1 DEF RunningIsSeen
  <2>. QED
    BY <2>2, <2>3, <2>4
<1>5. ASSUME NEW r \in Requests, ChildIsUp(r) PROVE SoloInv'
  <2>1. /\ jobs' = jobs /\ state' = [state EXCEPT ![req[r].act] = "running"]
        /\ req'[r] = Off /\ \A s \in Requests : s = r
    BY <1>5 DEF ChildIsUp, OneByOne
  <2>2. WayIsClear' /\ NotYet' /\ HalfStarted'
    BY <2>1, OffFields DEF WayIsClear, NotYet, HalfStarted
  <2>. QED
    BY <2>1, <2>2 DEF RunningIsSeen, NoContention, Contends
<1>6. ASSUME NEW r \in Requests, UnitAnswers(r) PROVE SoloInv'
  <2> DEFINE a == req[r].act
  <2>1. a \in Units /\ a \in Acts /\ req[r].at = "spawn" /\ jobs[a] = 0
    BY <1>6, ReqFields DEF UnitAnswers, HalfStarted
  <2>2. /\ state' = [state EXCEPT ![a] = "running"]
        /\ jobs' = [jobs EXCEPT ![a] = 1]
        /\ req'[r] = Off /\ \A s \in Requests : s = r
    BY <1>6, <2>1 DEF UnitAnswers, OneByOne
  <2>3. NoContention'
    BY <2>1, <2>2, StartsApart
  <2>. HIDE DEF a
  <2>4. WayIsClear' /\ NotYet' /\ HalfStarted'
    BY <2>2, OffFields DEF WayIsClear, NotYet, HalfStarted
  <2>5. RunningIsSeen'
    BY <2>1, <2>2 DEF RunningIsSeen
  <2>. QED
    BY <2>3, <2>4, <2>5
<1>7. ASSUME NEW r \in Requests, Work(r) PROVE SoloInv'
  <2> DEFINE a == req[r].act
  <2>1. a \in Acts /\ a \in Unseen /\ req[r].at = "checked" /\ req[r] # Off
    BY <1>7, ReqFields DEF Work
  <2>2. /\ jobs' = [jobs EXCEPT ![a] = jobs[a] + 1] /\ state' = state
        /\ req'[r] = At("work", a) /\ \A s \in Requests : s = r
    BY <1>7 DEF Work, OneByOne
  <2>3. NoContention'
    BY <2>1, <2>2, StartsApart
  <2>4. a \notin BLOCKED_BY[a]
    BY <2>1, TableIsApart, ActsAreKnown
  <2>. HIDE DEF a
  <2>5. WayIsClear'
    BY <2>1, <2>2, <2>4, StageFields DEF WayIsClear, Contends, a
  <2>6. NotYet' /\ HalfStarted' /\ RunningIsSeen'
    BY <2>1, <2>2, StageFields DEF NotYet, HalfStarted, RunningIsSeen
  <2>. QED
    BY <2>3, <2>5, <2>6
<1>8. ASSUME NEW r \in Requests, WorkDone(r) \/ Refused(r) PROVE SoloInv'
  <2>1. /\ state' = state /\ req'[r] = Off /\ \A s \in Requests : s = r
        /\ \A b \in Acts \ Unseen : jobs'[b] = jobs[b]
        /\ \A b \in Acts : jobs'[b] <= jobs[b]
    BY <1>8, ReqFields DEF WorkDone, Refused, OneByOne, WorkIsUnseen
  <2>2. WayIsClear' /\ NotYet' /\ HalfStarted'
    BY <2>1, OffFields DEF WayIsClear, NotYet, HalfStarted
  <2>3. jobs' \in [Acts -> Nat]
    BY TypeStep
  <2>. QED
    BY <2>1, <2>2, <2>3 DEF RunningIsSeen, NoContention, Contends
<1>9. ASSUME NEW a \in Acts, ChildEnds(a) PROVE SoloInv'
  <2>1. /\ a \notin Units \cup Unseen /\ jobs[a] = 1 /\ req' = req
        /\ \A r \in Requests : req[r].at = "spawn" => req[r].act # a
    BY <1>9 DEF ChildEnds, Spawning, At, RunningIsSeen
  <2>2. jobs' = [jobs EXCEPT ![a] = jobs[a] - 1]
    BY <1>9, Zenon DEF ChildEnds
  <2>3. jobs'[a] = 0 /\ \A b \in Acts \ {a} : jobs'[b] = jobs[b]
    BY <2>1, <2>2
  <2>4. /\ state'[a] \in {"idle", "error"}
        /\ \A b \in Acts \ {a} : state'[b] = state[b]
    BY <1>9 DEF ChildEnds
  <2>5. WayIsClear' /\ NotYet' /\ HalfStarted'
    BY <2>1, <2>3, <2>4 DEF WayIsClear, NotYet, HalfStarted, Contends
  <2>. QED
    BY <2>1, <2>3, <2>4, <2>5 DEF RunningIsSeen, NoContention, Contends
<1>10. ASSUME NEW a \in Acts, StopChild(a) PROVE SoloInv'
  <2>1. /\ state[a] = "running" /\ state' = [state EXCEPT ![a] = "stopping"]
        /\ req' = req /\ jobs' = jobs
    BY <1>10 DEF StopChild
  <2>2. WayIsClear' /\ NotYet' /\ HalfStarted'
    BY <2>1, ReqFields DEF WayIsClear, NotYet, HalfStarted, Contends
  <2>. QED
    BY <2>1, <2>2 DEF RunningIsSeen, NoContention, Contends
<1>11. ASSUME NEW a \in Acts, UnitEnds(a) \/ AskUnit(a) \/ StopUnit(a) PROVE SoloInv'
  <2>1. /\ a \in Units /\ req' = req
        /\ jobs' = [jobs EXCEPT ![a] = 0]
        /\ state' = state \/ state' = [state EXCEPT ![a] = "idle"]
    BY <1>11 DEF UnitEnds, AskUnit, StopUnit
  <2>2. WayIsClear' /\ NotYet' /\ HalfStarted'
    BY <2>1 DEF WayIsClear, NotYet, HalfStarted, Contends
  <2>. QED
    BY <2>1, <2>2 DEF RunningIsSeen, NoContention, Contends
<1>12. ASSUME EstopAll \/ EstopReaps PROVE SoloInv'
  <2>1. /\ req' = req
        /\ \A a \in Acts :
              \/ jobs'[a] = jobs[a] /\ state'[a] = state[a]
              \/ /\ jobs'[a] = 0 /\ state'[a] = "idle" /\ a \notin Units
                 /\ a \in InProcess \/ state[a] \in {"running", "stopping"}
    BY <1>12, EstopMoves
  <2>2. WayIsClear' /\ NotYet' /\ HalfStarted'
    BY <2>1, ReqFields DEF WayIsClear, NotYet, HalfStarted, Contends
  <2>. QED
    BY <2>1, <2>2 DEF RunningIsSeen, NoContention, Contends
<1>13. ASSUME UNCHANGED vars PROVE SoloInv'
  BY <1>13 DEF vars, RunningIsSeen, NoContention, WayIsClear, NotYet, HalfStarted, Contends
<1>. QED
  BY <1>1, <1>2, <1>3, <1>4, <1>5, <1>6, <1>7, <1>8, <1>9, <1>10, <1>11, <1>12, <1>13
  DEF Next, RequestNext

-----------------------------------------------------------------------------
(* Children only, any number of requests *)

LEMMA ChildInit == Init => ChildInv
  BY OffFields DEF Init, ChildInv, RunningIsSeen, SpawnsApart, StartsAreSpawning, PressedIsAhead

\* A request's step that leaves the loop alone keeps what lived at the press ahead of
\* it, as long as nothing busy but a start changes its state.
LEMMA StaysAhead ==
    ASSUME TypeInv, PressedIsAhead, turn' = turn, pressed' \subseteq pressed,
           \A a \in pressed' : state'[a] \in {"running", "stopping"}
    PROVE  PressedIsAhead'
  BY DEF PressedIsAhead, Ahead

\* The loop passes nothing by that it can kill: what is still ahead of it when it goes
\* on is ahead of it, or gone, when it waits again.
LEMMA GoesOnKeepsAhead ==
    ASSUME Units = {}, TypeInv, NEW k \in 1 .. Over, NEW down, NEW alive \in SUBSET Targets,
           GoesOn(k, down, alive),
           \A a \in alive : /\ state[a] \in {"running", "stopping"}
                            /\ a \in down \/ \E i \in k .. Len(ESTOP_TARGETS) : ESTOP_TARGETS[i] = a
    PROVE  PressedIsAhead'
<1>1. PICK t \in k .. Over :
          LET gone == down \cup (InProcess \cap {ESTOP_TARGETS[i] : i \in k .. t - 1}) IN
          /\ \A i \in k .. t - 1 : ~Waits(i)
          /\ turn' = t
          /\ state' = [a \in Acts |-> IF a \in gone THEN "idle" ELSE state[a]]
          /\ pressed' = alive \ gone
  BY DEF GoesOn
<1> DEFINE gone == down \cup (InProcess \cap {ESTOP_TARGETS[i] : i \in k .. t - 1})
<1>2. /\ turn' = t /\ pressed' = alive \ gone
      /\ state' = [a \in Acts |-> IF a \in gone THEN "idle" ELSE state[a]]
  BY <1>1
<1> SUFFICES ASSUME NEW a \in alive, a \notin gone
             PROVE  /\ state'[a] \in {"running", "stopping"}
                    /\ \E i \in t .. Len(ESTOP_TARGETS) : ESTOP_TARGETS[i] = a
  BY <1>2 DEF PressedIsAhead, Ahead
<1>3. a \in Acts /\ state[a] \in {"running", "stopping"} /\ a \notin down
  BY DEF Targets
<1>4. state'[a] = state[a]
  BY <1>2, <1>3
<1>5. PICK i \in k .. Len(ESTOP_TARGETS) : ESTOP_TARGETS[i] = a
  BY <1>3
<1>6. ASSUME i < t PROVE FALSE
  <2>1. i \in k .. t - 1
    BY <1>5, <1>6, LoopHasAnEnd
  <2>2. a \notin InProcess
    BY <1>5, <2>1
  <2>3. Waits(i)
    BY <1>3, <1>5, <2>2 DEF Waits, Busy, Kills
  <2>. QED
    BY <1>1, <2>1, <2>3
<1>7. i \in t .. Len(ESTOP_TARGETS)
  BY <1>5, <1>6, LoopHasAnEnd
<1>. QED
  BY <1>3, <1>4, <1>5, <1>7

\* At the press the processes that live are those that kill() can wait for: the owners
\* tell the truth (RunningIsSeen), and what is being spawned is not counted.
LEMMA LoopLeavesNothing ==
    ASSUME Units = {}, TypeInv, ChildInv, EstopAll \/ EstopReaps
    PROVE  PressedIsAhead'
<1>1. CASE EstopAll
  <2> DEFINE Living == {a \in Targets : jobs[a] > 0 /\ ~Spawning(a)}
  <2>1. GoesOn(1, {}, Living)
    BY <1>1 DEF EstopAll
  <2>2. ASSUME NEW a \in Living
        PROVE  /\ state[a] \in {"running", "stopping"}
               /\ \E i \in 1 .. Len(ESTOP_TARGETS) : ESTOP_TARGETS[i] = a
    <3>1. a \in Acts /\ \E i \in 1 .. Len(ESTOP_TARGETS) : ESTOP_TARGETS[i] = a
      BY DEF Targets
    <3>2. a \notin Unseen
      BY <3>1, TargetsDiffer
    <3>3. Busy(a)
      BY <3>1, <3>2 DEF ChildInv, RunningIsSeen, TypeInv, TypeOK
    <3>4. state[a] # "starting"
      BY <3>1 DEF ChildInv, StartsAreSpawning
    <3>. QED
      BY <3>1, <3>3, <3>4 DEF Busy, TypeInv, TypeOK
  <2>. HIDE DEF Living
  <2>3. Living \in SUBSET Targets /\ 1 \in 1 .. Over
    BY LoopHasAnEnd DEF Living
  <2>. QED
    BY <2>1, <2>2, <2>3, GoesOnKeepsAhead
<1>2. CASE EstopReaps
  <2>1. /\ turn + 1 \in 1 .. Over
        /\ GoesOn(turn + 1, {ESTOP_TARGETS[turn]}, pressed)
    BY <1>2, LoopHasAnEnd DEF EstopReaps, TypeInv, TypeOK
  <2>2. pressed \in SUBSET Targets
    BY DEF TypeInv, TypeOK
  <2>3. ASSUME NEW a \in pressed
        PROVE  /\ state[a] \in {"running", "stopping"}
               /\ \/ a \in {ESTOP_TARGETS[turn]}
                  \/ \E i \in turn + 1 .. Len(ESTOP_TARGETS) : ESTOP_TARGETS[i] = a
    <3>1. PICK i \in turn .. Len(ESTOP_TARGETS) : ESTOP_TARGETS[i] = a
      BY DEF ChildInv, PressedIsAhead, Ahead
    <3>2. i = turn \/ i \in turn + 1 .. Len(ESTOP_TARGETS)
      BY <3>1, LoopHasAnEnd DEF TypeInv, TypeOK
    <3>. QED
      BY <3>1, <3>2 DEF ChildInv, PressedIsAhead
  <2>. QED
    BY <2>1, <2>2, <2>3, GoesOnKeepsAhead
<1>. QED
  BY <1>1, <1>2

LEMMA ChildStep == ASSUME Units = {}, TypeInv, ChildInv, [Next]_vars PROVE ChildInv'
<1> USE DEF TypeInv, TypeOK, ChildInv, Busy
<1>a. /\ pressed \subseteq Acts
      /\ \A a \in pressed : state[a] \in {"running", "stopping"}
  BY DEF Targets, PressedIsAhead
<1>1. ASSUME NEW r \in Requests, NEW a \in Acts, Check(r, a) PROVE ChildInv'
  <2>1. /\ req' = [req EXCEPT ![r] = At("checked", a)] /\ req[r].at = "off"
        /\ state' = state /\ jobs' = jobs /\ turn' = turn /\ pressed' = pressed
    BY <1>1, OffFields DEF Check
  <2>2. SpawnsApart'
    BY <2>1, StageFields DEF SpawnsApart
  <2>3. StartsAreSpawning'
    BY <2>1, StageFields DEF StartsAreSpawning, Spawning
  <2>4. PressedIsAhead'
    BY <1>a, <2>1, StaysAhead
  <2>. QED
    BY <2>1, <2>2, <2>3, <2>4 DEF RunningIsSeen
<1>2. ASSUME NEW r \in Requests, StartChild(r) PROVE ChildInv'
  <2> DEFINE a == req[r].act
  <2>1. /\ a \in Acts \ (Unseen \cup InProcess) /\ req[r].at = "checked"
        /\ turn' = turn /\ pressed' = pressed
    BY <1>2, ReqFields DEF StartChild, estop
  <2>2. CASE Busy(a)
    <3>1. req' = [req EXCEPT ![r] = Off] /\ state' = state /\ jobs' = jobs
      BY <1>2, <2>2 DEF StartChild
    <3>2. SpawnsApart'
      BY <3>1, OffFields DEF SpawnsApart
    <3>3. StartsAreSpawning'
      BY <2>1, <3>1, StageFields DEF StartsAreSpawning, Spawning
    <3>4. PressedIsAhead'
      BY <1>a, <2>1, <3>1, StaysAhead
    <3>. QED
      BY <3>1, <3>2, <3>3, <3>4 DEF RunningIsSeen
  <2>3. CASE ~Busy(a)
    <3>1. jobs[a] = 0
      BY <2>1, <2>3 DEF RunningIsSeen
    <3>2. /\ state' = [state EXCEPT ![a] = "starting"]
          /\ jobs' = [jobs EXCEPT ![a] = 1]
          /\ req' = [req EXCEPT ![r] = At("spawn", a)]
      BY <1>2, <2>3, <3>1 DEF StartChild
    <3>3. \A s \in Requests : req[s].at = "spawn" => req[s].act # a
      BY <3>1 DEF SpawnsApart
    <3>4. a \notin pressed
      BY <1>a, <2>3
    <3>. HIDE DEF a
    <3>5. SpawnsApart'
      BY <2>1, <3>2, <3>3, StageFields DEF SpawnsApart
    <3>6. StartsAreSpawning'
      <4> SUFFICES ASSUME NEW b \in Acts, state'[b] = "starting" PROVE Spawning(b)'
        BY DEF StartsAreSpawning
      <4>1. CASE b = a
        BY <3>2, <4>1 DEF Spawning
      <4>2. CASE b # a
        <5>1. PICK s \in Requests : req[s] = At("spawn", b)
          BY <2>1, <3>2, <4>2 DEF StartsAreSpawning, Spawning
        <5>2. s # r
          BY <2>1, <5>1, StageFields
        <5>. QED
          BY <3>2, <5>1, <5>2 DEF Spawning
      <4>. QED
        BY <4>1, <4>2
    <3>7. PressedIsAhead'
      BY <1>a, <2>1, <3>2, <3>4, StaysAhead
    <3>. QED
      BY <2>1, <3>2, <3>5, <3>6, <3>7 DEF RunningIsSeen
  <2>. QED
    BY <2>2, <2>3
<1>3. ASSUME NEW r \in Requests, ChildIsUp(r) PROVE ChildInv'
  <2> DEFINE a == req[r].act
  <2>1. a \in Acts \ Unseen /\ jobs[a] = 1 /\ state[a] = "starting" /\ req[r].at = "spawn"
    BY <1>3, ReqFields DEF ChildIsUp, SpawnsApart
  <2>2. /\ state' = [state EXCEPT ![a] = "running"]
        /\ req' = [req EXCEPT ![r] = Off]
        /\ jobs' = jobs /\ turn' = turn /\ pressed' = pressed
    BY <1>3 DEF ChildIsUp, estop
  <2>3. \A s \in Requests : req[s].at = "spawn" /\ req[s].act = a => s = r
    <3> SUFFICES ASSUME NEW s \in Requests, req[s].at = "spawn", req[s].act = a PROVE s = r
      OBVIOUS
    <3>1. req[s] = req[r]
      BY <2>1
    <3>. QED
      BY <2>1, <3>1 DEF SpawnsApart
  <2>. HIDE DEF a
  <2>4. SpawnsApart'
    BY <2>2, <2>3, OffFields DEF SpawnsApart
  <2>5. StartsAreSpawning'
    <3> SUFFICES ASSUME NEW b \in Acts, state'[b] = "starting" PROVE Spawning(b)'
      BY DEF StartsAreSpawning
    <3>1. b # a /\ state[b] = "starting"
      BY <2>1, <2>2
    <3>2. PICK s \in Requests : req[s] = At("spawn", b)
      BY <3>1 DEF StartsAreSpawning, Spawning
    <3>3. s # r
      BY <3>1, <3>2, StageFields DEF a
    <3>. QED
      BY <2>2, <3>2, <3>3 DEF Spawning
  <2>6. PressedIsAhead'
    BY <1>a, <2>2, StaysAhead
  <2>. QED
    BY <2>1, <2>2, <2>4, <2>5, <2>6 DEF RunningIsSeen
<1>4. ASSUME NEW r \in Requests, StartSession(r) PROVE ChildInv'
  <2> DEFINE a == req[r].act
  <2>1. /\ a \in Acts \ Unseen /\ a \in InProcess /\ req[r].at = "checked"
        /\ turn' = turn /\ pressed' = pressed
        /\ req' = [req EXCEPT ![r] = Off]
    BY <1>4, ReqFields DEF StartSession, InProcess, Unseen, estop
  <2>2. CASE Busy(a)
    <3>1. state' = state /\ jobs' = jobs
      BY <1>4, <2>2 DEF StartSession
    <3>2. SpawnsApart'
      BY <2>1, <3>1, OffFields DEF SpawnsApart
    <3>3. StartsAreSpawning'
      BY <2>1, <3>1, StageFields DEF StartsAreSpawning, Spawning
    <3>4. PressedIsAhead'
      BY <1>a, <2>1, <3>1, StaysAhead
    <3>. QED
      BY <3>1, <3>2, <3>3, <3>4 DEF RunningIsSeen
  <2>3. CASE ~Busy(a)
    <3>1. /\ state' = [state EXCEPT ![a] = "running"]
          /\ jobs' = [jobs EXCEPT ![a] = 1]
      BY <1>4, <2>3 DEF StartSession
    <3>2. \A s \in Requests : req[s].at = "spawn" => req[s].act # a
      BY <2>1 DEF SpawnsApart
    <3>. HIDE DEF a
    <3>3. SpawnsApart'
      BY <2>1, <3>1, <3>2, OffFields DEF SpawnsApart
    <3>4. StartsAreSpawning'
      <4> SUFFICES ASSUME NEW b \in Acts, state'[b] = "starting" PROVE Spawning(b)'
        BY DEF StartsAreSpawning
      <4>1. state[b] = "starting"
        BY <2>1, <3>1
      <4>2. PICK s \in Requests : req[s] = At("spawn", b)
        BY <4>1 DEF StartsAreSpawning, Spawning
      <4>3. s # r
        BY <2>1, <4>2, StageFields
      <4>. QED
        BY <2>1, <4>2, <4>3 DEF Spawning
    <3>5. PressedIsAhead'
      BY <1>a, <2>1, <3>1, StaysAhead
    <3>. QED
      BY <2>1, <3>1, <3>3, <3>4, <3>5 DEF RunningIsSeen
  <2>. QED
    BY <2>2, <2>3
<1>5. ASSUME NEW r \in Requests, StartUnit(r) \/ UnitAnswers(r) PROVE ChildInv'
  BY <1>5 DEF StartUnit, UnitAnswers
<1>6. ASSUME NEW r \in Requests, Work(r) \/ WorkDone(r) \/ Refused(r) PROVE ChildInv'
  <2>1. /\ \E q \in {Off, At("work", req[r].act)} : req' = [req EXCEPT ![r] = q]
        /\ req[r].at \in {"checked", "work"}
        /\ state' = state /\ turn' = turn /\ pressed' = pressed
        /\ \A b \in Acts \ Unseen : jobs'[b] = jobs[b]
    BY <1>6, ReqFields DEF Work, WorkDone, Refused, WorkIsUnseen, estop
  <2>2. req'[r].at # "spawn" /\ \A s \in Requests \ {r} : req'[s] = req[s]
    BY <2>1, StageFields, OffFields
  <2>3. SpawnsApart'
    BY <2>1, <2>2, ReqFields DEF SpawnsApart
  <2>4. StartsAreSpawning'
    <3>1. \A s \in Requests : \A b : req[s] = At("spawn", b) => req'[s] = req[s]
      BY <2>1, <2>2, StageFields
    <3>. QED
      BY <2>1, <3>1 DEF StartsAreSpawning, Spawning
  <2>5. PressedIsAhead'
    BY <1>a, <2>1, StaysAhead
  <2>. QED
    BY <2>1, <2>3, <2>4, <2>5 DEF RunningIsSeen
<1>7. ASSUME NEW a \in Acts, StopChild(a) PROVE ChildInv'
  <2>1. /\ state[a] = "running" /\ state' = [state EXCEPT ![a] = "stopping"]
        /\ req' = req /\ jobs' = jobs /\ turn' = turn /\ pressed' = pressed
    BY <1>7 DEF StopChild, estop
  <2>2. SpawnsApart'
    BY <2>1, ReqFields DEF SpawnsApart
  <2>3. StartsAreSpawning'
    BY <2>1 DEF StartsAreSpawning, Spawning
  <2>4. PressedIsAhead'
    BY <1>a, <2>1, StaysAhead
  <2>. QED
    BY <2>1, <2>2, <2>3, <2>4 DEF RunningIsSeen
<1>8. ASSUME NEW a \in Acts, ChildEnds(a) PROVE ChildInv'
  <2>1. /\ a \notin Unseen /\ jobs[a] = 1
        /\ req' = req /\ turn' = turn /\ pressed' = pressed \ {a}
        /\ \A r \in Requests : req[r].at = "spawn" => req[r].act # a
    BY <1>8 DEF ChildEnds, Spawning, At, RunningIsSeen
  <2>2. jobs' = [jobs EXCEPT ![a] = jobs[a] - 1]
    BY <1>8, Zenon DEF ChildEnds
  <2>3. state'[a] # "starting" /\ \A b \in Acts \ {a} : state'[b] = state[b]
    BY <1>8 DEF ChildEnds
  <2>4. jobs'[a] = 0 /\ \A b \in Acts \ {a} : jobs'[b] = jobs[b]
    BY <2>1, <2>2
  <2>5. SpawnsApart'
    BY <2>1, <2>3, <2>4, ReqFields DEF SpawnsApart
  <2>6. StartsAreSpawning'
    BY <2>1, <2>3 DEF StartsAreSpawning, Spawning
  <2>7. PressedIsAhead'
    BY <1>a, <2>1, <2>3, StaysAhead
  <2>. QED
    BY <2>1, <2>3, <2>4, <2>5, <2>6, <2>7 DEF RunningIsSeen
<1>9. ASSUME NEW a \in Acts, UnitEnds(a) \/ AskUnit(a) \/ StopUnit(a) PROVE ChildInv'
  BY <1>9 DEF UnitEnds, AskUnit, StopUnit
<1>10. ASSUME EstopAll \/ EstopReaps PROVE ChildInv'
  <2>1. /\ req' = req
        /\ \A a \in Acts :
              \/ jobs'[a] = jobs[a] /\ state'[a] = state[a]
              \/ /\ jobs'[a] = 0 /\ state'[a] = "idle"
                 /\ a \in InProcess \/ state[a] \in {"running", "stopping"}
    BY <1>10, EstopMoves
  <2>2. SpawnsApart'
    BY <2>1, ReqFields DEF SpawnsApart
  <2>3. RunningIsSeen'
    BY <2>1 DEF RunningIsSeen
  <2>4. StartsAreSpawning'
    BY <2>1 DEF StartsAreSpawning, Spawning
  <2>5. PressedIsAhead'
    BY <1>10, LoopLeavesNothing
  <2>. QED
    BY <2>2, <2>3, <2>4, <2>5
<1>11. ASSUME UNCHANGED vars PROVE ChildInv'
  BY <1>11 DEF vars, RunningIsSeen, SpawnsApart, StartsAreSpawning, Spawning, PressedIsAhead, Ahead
<1>. QED
  BY <1>1, <1>2, <1>3, <1>4, <1>5, <1>6, <1>7, <1>8, <1>9, <1>10, <1>11 DEF Next, RequestNext

-----------------------------------------------------------------------------
(* Theorems *)

LEMMA TypeHolds == Spec => []TypeInv
<1>1. TypeInv /\ [Next]_vars => TypeInv'
  BY TypeStep
<1>. QED
  BY TypeInit, <1>1, PTL DEF Spec

\* Every reachable state is well typed, whatever the requests do at the same time;
\* above all, work is never taken off that was not counted.
THEOREM TypeCorrect == Spec => []TypeOK
<1>1. TypeInv => TypeOK
  BY DEF TypeInv
<1>. QED
  BY TypeHolds, <1>1, PTL

\* If requests come one by one, the table of exclusivity.py keeps apart what it means
\* to keep apart, whichever of the activities are units.
THEOREM NothingContends == ASSUME OneByOne PROVE Spec => []NoContention
<1>1. TypeInv /\ SoloInv /\ [Next]_vars => SoloInv'
  BY SoloStep
<1>2. SoloInv => NoContention
  BY DEF SoloInv
<1>. QED
  BY TypeHolds, SoloInit, <1>1, <1>2, PTL DEF Spec

\* If every activity is a child of the gateway, what runs runs once and the gate sees
\* it, with any number of requests at the same time.
THEOREM ChildrenAreSeen == ASSUME Units = {} PROVE Spec => []RunningIsSeen
<1>1. TypeInv /\ ChildInv /\ [Next]_vars => ChildInv'
  BY ChildStep
<1>2. ChildInv => RunningIsSeen
  BY DEF ChildInv
<1>. QED
  BY TypeHolds, ChildInit, <1>1, <1>2, PTL DEF Spec

\* If every activity is a child or a session of the gateway, nothing is left of what
\* moved the arm at the press when estop_all has been through its targets, however many
\* requests start, stop and end things during its waits.
THEOREM EstopStops == ASSUME Units = {} PROVE Spec => []EstopLeavesNothing
<1>1. TypeInv /\ ChildInv /\ [Next]_vars => ChildInv'
  BY ChildStep
<1>2. ChildInv => EstopLeavesNothing
  BY LoopHasAnEnd DEF ChildInv, PressedIsAhead, Ahead, EstopLeavesNothing
<1>. QED
  BY TypeHolds, ChildInit, <1>1, <1>2, PTL DEF Spec

=============================================================================
