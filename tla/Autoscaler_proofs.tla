-------------------------- MODULE Autoscaler_proofs --------------------------
(***************************************************************************)
(* The autoscaler controller's loops and the channels that stop them, for  *)
(* any autoscalers, specifications, ring size and bounds.                  *)
(***************************************************************************)
EXTENDS Autoscaler, TLAPS

-----------------------------------------------------------------------------
(* The invariant.                                                          *)

Handlers == {"as", "rs", "dm"}
Closings == [do : {"close"}, target : Targets, loop : Loops]
Installs == [do : {"install"}, name : Autoscalers, spec : Specs]
RsEvents == [key : Keys, replicas : Int]
AsEvents == [name : Autoscalers, spec : Specs \cup {None}]
LoopStates ==
    [pc : {"off", "check", "up", "down", "iter", "put", "done"}, target : Targets \cup {""},
     min : Nat, max : Nat, reps : Int, ring : Seq({0, 1, 2})]

StoreType ==
    /\ store \in [Keys -> Int] /\ deployed \in BOOLEAN /\ wish \in BOOLEAN
    /\ applied \in [Autoscalers -> Specs \cup {None}]
    /\ rsEvents \in Seq(RsEvents) /\ dmEvents \in Seq({"put", "delete"}) /\ asEvents \in Seq(AsEvents)
MapType ==
    /\ replicasetMap \in [Keys -> Int] /\ newest \in Keys /\ deploymentMap \in BOOLEAN
    /\ autoscalerMap \in [Autoscalers -> Specs \cup {None}]
    /\ object2autoscaler \in [Targets -> Loops \cup {0}]
    /\ rest \in [Handlers -> {None} \cup Closings \cup Installs]
LoopType ==
    /\ loop \in [Loops -> LoopStates]
    /\ closed \subseteq Loops /\ displaced \subseteq Loops /\ raced \subseteq Loops /\ stale \subseteq Loops
RestType ==
    load \in {0, 1, 2} /\ crashed \in {"no", "close", "map"} /\ changes \in 0..MaxChanges /\ fails \in 0..MaxFails
\* The type invariant.  The rings hold at most RingSize levels.
TypeOK == StoreType /\ MapType /\ LoopType /\ RestType /\ \A l \in Loops : Len(loop[l].ring) <= RingSize

\* The handler has read the entry of a target and not yet closed the channel.
Closing(w) == rest[w] # None /\ rest[w].do = "close"

\* A loop that has an entry, is about to be closed or closed has been started; it is the entry
\* of one target only, and that of the handler which read it.
Known ==
    /\ \A t \in Targets : object2autoscaler[t] # 0 => loop[object2autoscaler[t]].pc # "off"
    /\ \A w \in Handlers : Closing(w) => loop[rest[w].loop].pc # "off"
    /\ \A l \in closed : loop[l].pc # "off"
    /\ \A t, u \in Targets : object2autoscaler[t] = object2autoscaler[u] /\ t # u => object2autoscaler[t] = 0
    /\ \A t \in Targets, w \in Handlers :
          Closing(w) /\ object2autoscaler[t] = rest[w].loop => rest[w].target = t

\* As long as no two handlers have held the same entry, what is about to be closed is open, and
\* by one handler only, and every entry leads to an open channel.
Unraced ==
    /\ \A w \in Handlers : Closing(w) => rest[w].loop \notin closed
    /\ \A v, w \in Handlers : Closing(v) /\ Closing(w) /\ rest[v].loop = rest[w].loop => v = w
    /\ \A t \in Targets : object2autoscaler[t] \notin closed
RaceInv == Known /\ (raced = {} => Unraced) /\ ClosedOnce

\* Only a loop of the ReplicaSet scales, between its bounds, so that no put but that of a
\* deletion is below 0; the map holds no 0.
LoopCounts ==
    \A l \in Loops : Scaling(l) =>
       /\ loop[l].target = "rs" /\ loop[l].reps > 0
       /\ loop[l].pc = "down" => loop[l].reps > loop[l].min
EventCounts ==
    \A i \in 1..Len(rsEvents) : rsEvents[i].key = "rs" => rsEvents[i].replicas >= Absent
MapCounts == replicasetMap["rs"] # Absent => replicasetMap["rs"] > 0

ZeroPending == \E i \in 1..Len(rsEvents) : rsEvents[i].key = "rs" /\ rsEvents[i].replicas <= 0

\* While the ReplicaSet is deleted, every older put on its way is followed by the deletion.
DeletionFollows ==
    store["rs"] <= 0 =>
       \A i \in 1..Len(rsEvents) : rsEvents[i].key = "rs" /\ rsEvents[i].replicas > 0 =>
          \E j \in (i + 1)..Len(rsEvents) : rsEvents[j].key = "rs" /\ rsEvents[j].replicas <= 0

\* Once the deletion is handled the map has no entry, and the loops that scale are stale.
DeletionSeen ==
    store["rs"] <= 0 /\ ~ZeroPending =>
       /\ replicasetMap["rs"] = Absent
       /\ \A l \in Loops : Scaling(l) => l \in stale

DeleteInv == LoopCounts /\ EventCounts /\ MapCounts /\ DeletionFollows /\ DeletionSeen

-----------------------------------------------------------------------------
(* Steps.                                                                  *)

\* Next, step by step.
LEMMA NextSteps ==
    ASSUME [Next]_vars
    PROVE  \/ UNCHANGED vars
           \/ /\ Alive
              /\ \/ ApplyReplicaSet \/ DeleteReplicaSet \/ DeleteDeployment \/ LoadChanges
                 \/ \E a \in Autoscalers, spec \in Specs \cup {None} : ChangeAutoscaler(a, spec)
                 \/ \E k \in Keys : ControllersDelete(k)
                 \/ WatchAutoscaler \/ Install \/ WatchReplicaset \/ WatchDeployment
                 \/ \E w \in Handlers : Close(w)
                 \/ \E l \in Loops : \/ Stopped(l) \/ ReplicasetRound(l) \/ Scale(l)
                                     \/ DeploymentRound(l) \/ Choose(l) \/ PutControlled(l)
BY DEF Next, Environment, Controllers, Watch, Loop, Handlers

\* A loop that is not started yet.
LEMMA OffState == Off \in LoopStates /\ Off.pc = "off" /\ Off.ring = <<>>
BY DEF Off, LoopStates

\* The loop goes on at pc with a number and a ring; its target and bounds stay.
Moves(l, pc, reps, ring) ==
    /\ loop' \in [Loops -> LoopStates]
    /\ \A m \in Loops \ {l} : loop'[m] = loop[m]
    /\ loop'[l].pc = pc /\ loop'[l].reps = reps /\ loop'[l].ring = ring
    /\ loop'[l].target = loop[l].target /\ loop'[l].min = loop[l].min /\ loop'[l].max = loop[l].max

\* Changing fields of a loop's state one by one.
LEMMA FieldsMove ==
    ASSUME loop \in [Loops -> LoopStates], NEW l \in Loops,
           NEW pc \in {"check", "up", "down", "iter", "put"}, NEW reps \in Int, NEW ring \in Seq({0, 1, 2}),
           loop' = [loop EXCEPT ![l] = [loop[l] EXCEPT !.pc = pc, !.reps = reps, !.ring = ring]]
    PROVE  Moves(l, pc, reps, ring)
<1>1. loop[l] \in LoopStates
  OBVIOUS
<1>2. [loop[l] EXCEPT !.pc = pc, !.reps = reps, !.ring = ring] \in LoopStates
  BY <1>1 DEF LoopStates
<1>3. loop' \in [Loops -> LoopStates] /\ \A m \in Loops \ {l} : loop'[m] = loop[m]
  BY <1>2
<1>4. loop'[l] = [loop[l] EXCEPT !.pc = pc, !.reps = reps, !.ring = ring]
  OBVIOUS
<1>5. QED BY <1>1, <1>3, <1>4 DEF Moves, LoopStates

\* RingQueue.Push keeps the ring within its capacity.
LEMMA PushFits ==
    ASSUME NEW ring \in Seq({0, 1, 2}), Len(ring) <= RingSize, NEW level \in {0, 1, 2}
    PROVE  Push(ring, level) \in Seq({0, 1, 2}) /\ Len(Push(ring, level)) <= RingSize
<1>0. RingSize \in Nat \ {0} /\ Len(ring) \in Nat
  BY AutoscalerAssumption
<1>1. CASE Len(ring) < RingSize
  <2>1. Append(ring, level) \in Seq({0, 1, 2}) /\ Len(Append(ring, level)) = Len(ring) + 1
    OBVIOUS
  <2>2. QED BY <1>0, <1>1, <2>1 DEF Push
<1>2. CASE Len(ring) >= RingSize
  <2>1. Tail(ring) \in Seq({0, 1, 2}) /\ Len(Tail(ring)) = Len(ring) - 1
    BY <1>0, <1>2
  <2>2. /\ Append(Tail(ring), level) \in Seq({0, 1, 2})
        /\ Len(Append(Tail(ring), level)) = Len(Tail(ring)) + 1
    BY <2>1
  <2>3. QED BY <1>0, <1>2, <2>1, <2>2 DEF Push
<1>3. QED BY <1>0, <1>1, <1>2

\* A measurement may miss its data only so often.
LEMMA MeasuredFails ==
    ASSUME TypeOK, NEW level, Measured(level)
    PROVE  fails' \in 0..MaxFails
<1>1. MaxFails \in Nat /\ fails \in 0..MaxFails
  BY AutoscalerAssumption DEF TypeOK, RestType
<1>2. fails' = fails \/ (fails < MaxFails /\ fails' = fails + 1)
  BY DEF Measured
<1>3. QED BY <1>1, <1>2

\* A round of a ReplicaSet's loop.
LEMMA RoundMoves ==
    ASSUME TypeOK, NEW l \in Loops, ReplicasetRound(l)
    PROVE  /\ loop[l].pc = "check" /\ loop[l].target = "rs" /\ replicasetMap["rs"] # Absent
           /\ fails' \in 0..MaxFails
           /\ \E pc \in {"check", "up", "down"}, ring \in Seq({0, 1, 2}) :
                 /\ Len(ring) <= RingSize
                 /\ Moves(l, pc, IF pc = "check" THEN 0 ELSE replicasetMap["rs"], ring)
                 /\ pc = "down" => replicasetMap["rs"] > loop[l].min
<1> DEFINE reps == replicasetMap["rs"]
<1>1. PICK level \in {0, 1, 2} :
         /\ Measured(level)
         /\ LET ring == Push(loop[l].ring, level)
                high == \E i \in DOMAIN ring : ring[i] = 2
                low == \A i \in DOMAIN ring : ring[i] = 0
                pc == IF high /\ reps < loop[l].max THEN "up"
                      ELSE IF low /\ reps > loop[l].min THEN "down" ELSE "check"
            IN  loop' = [loop EXCEPT ![l].ring = ring, ![l].pc = pc,
                                     ![l].reps = IF pc = "check" THEN 0 ELSE reps]
  BY DEF ReplicasetRound
<1> DEFINE ring == Push(loop[l].ring, level)
           high == \E i \in DOMAIN ring : ring[i] = 2
           low == \A i \in DOMAIN ring : ring[i] = 0
           pc == IF high /\ reps < loop[l].max THEN "up"
                 ELSE IF low /\ reps > loop[l].min THEN "down" ELSE "check"
           n == IF pc = "check" THEN 0 ELSE reps
<1>2. loop \in [Loops -> LoopStates] /\ loop[l].ring \in Seq({0, 1, 2}) /\ Len(loop[l].ring) <= RingSize
  BY DEF TypeOK, LoopType, LoopStates
<1>3. ring \in Seq({0, 1, 2}) /\ Len(ring) <= RingSize
  BY <1>2, PushFits
<1>4. pc \in {"check", "up", "down"} /\ n \in Int /\ (pc = "down" => reps > loop[l].min)
  BY DEF TypeOK, MapType, Keys
<1>5. loop' = [loop EXCEPT ![l].ring = ring, ![l].pc = pc, ![l].reps = n]
  BY <1>1
<1> HIDE DEF ring, pc, n
<1>6. loop' = [loop EXCEPT ![l] = [loop[l] EXCEPT !.pc = pc, !.reps = n, !.ring = ring]]
  BY <1>2, <1>5 DEF LoopStates
<1>7. Moves(l, pc, n, ring)
  BY <1>2, <1>3, <1>4, <1>6, FieldsMove
<1>8. fails' \in 0..MaxFails
  <2>1. Measured(level)
    BY <1>1
  <2>2. QED BY <2>1, MeasuredFails
<1>9. QED
  BY <1>3, <1>4, <1>7, <1>8 DEF n, ReplicasetRound

\* One put, or one failed put, of a loop that scales.
LEMMA ScaleMoves ==
    ASSUME TypeOK, NEW l \in Loops, Scale(l)
    PROVE  /\ loop[l].pc \in {"up", "down"}
           /\ \/ /\ Put("rs", NextReplicas(l)) /\ UNCHANGED fails
                 /\ IF NextReplicas(l) = Goal(l)
                       THEN Moves(l, "check", 0, loop[l].ring) /\ stale' = stale \ {l}
                       ELSE Moves(l, loop[l].pc, NextReplicas(l), loop[l].ring) /\ stale' = stale
              \/ /\ UNCHANGED <<store, rsEvents, loop, stale>>
                 /\ fails' \in 0..MaxFails
<1>1. loop \in [Loops -> LoopStates] /\ loop[l] \in LoopStates
  BY DEF TypeOK, LoopType
<1>2. /\ loop[l].pc \in {"up", "down"} /\ loop[l].ring \in Seq({0, 1, 2}) /\ loop[l].reps \in Int
      /\ NextReplicas(l) \in Int
  <2>1. loop[l].pc \in {"up", "down"}
    BY DEF Scale, Scaling
  <2>2. loop[l].ring \in Seq({0, 1, 2}) /\ loop[l].reps \in Int
    BY <1>1 DEF LoopStates
  <2>3. QED BY <2>1, <2>2 DEF NextReplicas
<1>3. CASE /\ Put("rs", NextReplicas(l)) /\ UNCHANGED fails
           /\ loop' = [loop EXCEPT ![l].reps = IF NextReplicas(l) = Goal(l) THEN 0 ELSE NextReplicas(l),
                                   ![l].pc = IF NextReplicas(l) = Goal(l) THEN "check" ELSE @]
           /\ stale' = IF NextReplicas(l) = Goal(l) THEN stale \ {l} ELSE stale
  <2>1. CASE NextReplicas(l) = Goal(l)
    <3>1. loop' = [loop EXCEPT ![l].reps = 0, ![l].pc = "check"]
      BY <1>3, <2>1
    <3>2. loop' = [loop EXCEPT ![l] =
                     [loop[l] EXCEPT !.pc = "check", !.reps = 0, !.ring = loop[l].ring]]
      BY <1>1, <3>1 DEF LoopStates
    <3>3. Moves(l, "check", 0, loop[l].ring)
      <4>1. "check" \in {"check", "up", "down", "iter", "put"} /\ 0 \in Int
        OBVIOUS
      <4>2. QED BY <1>1, <1>2, <3>2, <4>1, FieldsMove
    <3>4. QED BY <1>2, <1>3, <2>1, <3>3
  <2>2. CASE NextReplicas(l) # Goal(l)
    <3>1. loop' = [loop EXCEPT ![l].reps = NextReplicas(l), ![l].pc = @]
      BY <1>3, <2>2
    <3>2. loop' = [loop EXCEPT ![l] =
                     [loop[l] EXCEPT !.pc = loop[l].pc, !.reps = NextReplicas(l), !.ring = loop[l].ring]]
      BY <1>1, <1>2, <3>1 DEF LoopStates
    <3>3. Moves(l, loop[l].pc, NextReplicas(l), loop[l].ring)
      BY <1>1, <1>2, <3>2, FieldsMove
    <3>4. QED BY <1>2, <1>3, <2>2, <3>3
  <2>3. QED BY <2>1, <2>2
<1>4. CASE fails < MaxFails /\ fails' = fails + 1 /\ UNCHANGED <<store, rsEvents, loop, stale>>
  BY <1>2, <1>4, AutoscalerAssumption DEF TypeOK, RestType
<1>5. QED BY <1>3, <1>4 DEF Scale, AfterPut

\* The loop of a Deployment.
LEMMA DeploymentMoves ==
    ASSUME TypeOK, NEW l \in Loops, DeploymentRound(l) \/ Choose(l) \/ PutControlled(l)
    PROVE  /\ loop[l].pc \in {"check", "iter", "put"} /\ UNCHANGED stale /\ fails' \in 0..MaxFails
           /\ \E pc \in {"check", "iter", "put"}, reps \in Int : Moves(l, pc, reps, loop[l].ring)
           /\ UNCHANGED <<store, rsEvents>> \/ \E n \in Int : Put("ownuid", n)
<1>1. loop \in [Loops -> LoopStates] /\ loop[l] \in LoopStates /\ fails \in 0..MaxFails
  BY DEF TypeOK, LoopType, RestType
<1>2. loop[l].ring \in Seq({0, 1, 2}) /\ loop[l].reps \in Int
  BY <1>1 DEF LoopStates
<1>3. ASSUME NEW pc \in {"check", "iter", "put"}, NEW n \in Int,
             loop' = [loop EXCEPT ![l].pc = pc, ![l].reps = n]
      PROVE  Moves(l, pc, n, loop[l].ring)
  <2>1. loop' = [loop EXCEPT ![l] = [loop[l] EXCEPT !.pc = pc, !.reps = n, !.ring = loop[l].ring]]
    BY <1>1, <1>3 DEF LoopStates
  <2>2. QED BY <1>1, <1>2, <2>1, FieldsMove
<1>4. ASSUME NEW pc \in {"check", "iter", "put"}, Goto(l, pc)
      PROVE  Moves(l, pc, loop[l].reps, loop[l].ring)
  <2>1. loop' = [loop EXCEPT ![l] = [loop[l] EXCEPT !.pc = pc, !.reps = loop[l].reps, !.ring = loop[l].ring]]
    BY <1>1, <1>4 DEF LoopStates, Goto
  <2>2. QED BY <1>1, <1>2, <2>1, FieldsMove
<1>5. CASE DeploymentRound(l)
  <2>1. Moves(l, "iter", loop[l].reps, loop[l].ring)
    BY <1>4, <1>5 DEF DeploymentRound
  <2>2. QED BY <1>1, <1>2, <1>5, <2>1 DEF DeploymentRound, Unscaled, etcdVars, events
<1>6. CASE Choose(l)
  <2>0. UNCHANGED <<store, rsEvents, stale>> /\ loop[l].pc = "iter"
    BY <1>6 DEF Choose, Unscaled, etcdVars, events
  <2>1. CASE Goto(l, "check") /\ UNCHANGED fails
    BY <1>1, <1>2, <1>4, <2>0, <2>1
  <2>2. CASE \E k \in ControlledRS, level \in {0, 1, 2} :
                /\ Measured(level)
                /\ LET n == replicasetMap[k] + level - 1
                       ok == (level = 2 /\ n <= loop[l].max) \/ (level = 0 /\ n >= loop[l].min)
                   IN  loop' = [loop EXCEPT ![l].pc = IF ok THEN "put" ELSE "check",
                                            ![l].reps = IF ok THEN n ELSE 0]
    <3>1. PICK k \in ControlledRS, level \in {0, 1, 2} :
                /\ Measured(level)
                /\ LET n == replicasetMap[k] + level - 1
                       ok == (level = 2 /\ n <= loop[l].max) \/ (level = 0 /\ n >= loop[l].min)
                   IN  loop' = [loop EXCEPT ![l].pc = IF ok THEN "put" ELSE "check",
                                            ![l].reps = IF ok THEN n ELSE 0]
      BY <2>2
    <3> DEFINE n == replicasetMap[k] + level - 1
               ok == (level = 2 /\ n <= loop[l].max) \/ (level = 0 /\ n >= loop[l].min)
    <3>2. n \in Int
      <4>1. k \in Keys
        BY DEF ControlledRS, Keys
      <4>2. replicasetMap[k] \in Int
        BY <4>1 DEF TypeOK, MapType
      <4>3. QED BY <4>2
    <3>3. loop' = [loop EXCEPT ![l].pc = IF ok THEN "put" ELSE "check", ![l].reps = IF ok THEN n ELSE 0]
      BY <3>1
    <3> HIDE DEF n, ok
    <3>4. \/ loop' = [loop EXCEPT ![l].pc = "put", ![l].reps = n]
          \/ loop' = [loop EXCEPT ![l].pc = "check", ![l].reps = 0]
      BY <3>3
    <3>5. \E pc \in {"check", "iter", "put"}, reps \in Int : Moves(l, pc, reps, loop[l].ring)
      BY <1>3, <3>2, <3>4
    <3>6. fails' \in 0..MaxFails
      <4>1. Measured(level)
        BY <3>1
      <4>2. QED BY <4>1, MeasuredFails
    <3>7. QED BY <2>0, <3>5, <3>6
  <2>3. QED BY <1>6, <2>1, <2>2 DEF Choose
<1>7. CASE PutControlled(l)
  <2>1. Moves(l, "check", 0, loop[l].ring)
    <3>1. loop' = [loop EXCEPT ![l].pc = "check", ![l].reps = 0]
      BY <1>7 DEF PutControlled
    <3>2. "check" \in {"check", "iter", "put"} /\ 0 \in Int
      OBVIOUS
    <3>3. QED BY <1>3, <3>1, <3>2
  <2>2. fails' \in 0..MaxFails
    BY <1>1, <1>7, AutoscalerAssumption DEF PutControlled
  <2>3. UNCHANGED <<store, rsEvents>> \/ \E n \in Int : Put("ownuid", n)
    BY <1>2, <1>7 DEF PutControlled
  <2>4. QED BY <1>7, <2>1, <2>2, <2>3 DEF PutControlled, history
<1>8. QED BY <1>5, <1>6, <1>7

-----------------------------------------------------------------------------
(* Types.                                                                  *)

\* The rings' part of TypeOK.
RingsFit == \A l \in Loops : Len(loop[l].ring) <= RingSize

\* A put keeps the types of the store and of its watch.
LEMMA PutType ==
    ASSUME TypeOK, NEW k \in Keys, NEW n \in Int, Put(k, n)
    PROVE  store' \in [Keys -> Int] /\ rsEvents' \in Seq(RsEvents)
<1>1. [key |-> k, replicas |-> n] \in RsEvents
  BY DEF RsEvents
<1>2. store \in [Keys -> Int] /\ rsEvents \in Seq(RsEvents)
  BY DEF TypeOK, StoreType
<1>3. QED BY <1>1, <1>2 DEF Put

\* What users and the other controllers do.
LEMMA OutsideType ==
    ASSUME TypeOK,
           \/ ApplyReplicaSet \/ DeleteReplicaSet \/ DeleteDeployment \/ LoadChanges
           \/ \E a \in Autoscalers, spec \in Specs \cup {None} : ChangeAutoscaler(a, spec)
           \/ \E k \in Keys : ControllersDelete(k)
    PROVE  TypeOK'
<1> USE DEF maps, history, events, etcdVars
<1>0. /\ changes \in 0..MaxChanges /\ fails \in 0..MaxFails /\ MaxChanges \in Nat /\ load \in {0, 1, 2}
      /\ crashed \in {"no", "close", "map"} /\ Levels \subseteq {0, 1, 2} /\ Absent \in Int
      /\ "rs" \in Keys /\ \A n \in 1..MaxReplicas : n \in Int
  BY AutoscalerAssumption DEF TypeOK, RestType, Absent, Keys
<1>1. MapType' /\ LoopType' /\ RingsFit'
  BY DEF TypeOK, MapType, LoopType, RingsFit, ApplyReplicaSet, DeleteReplicaSet, DeleteDeployment,
         LoadChanges, ChangeAutoscaler, ControllersDelete
<1>2. RestType'
  <2>1. changes' \in 0..MaxChanges
    <3>1. changes' = changes \/ User
      BY DEF ApplyReplicaSet, DeleteReplicaSet, DeleteDeployment, LoadChanges, ChangeAutoscaler,
             ControllersDelete
    <3>2. QED BY <1>0, <3>1 DEF User
  <2>2. fails' = fails /\ crashed' = crashed /\ load' \in {0, 1, 2}
    BY <1>0 DEF ApplyReplicaSet, DeleteReplicaSet, DeleteDeployment, LoadChanges, ChangeAutoscaler,
         ControllersDelete
  <2>3. QED BY <1>0, <2>1, <2>2 DEF RestType
<1>3. StoreType'
  <2>0. StoreType
    BY DEF TypeOK
  <2>1. CASE ApplyReplicaSet
    BY <1>0, <2>0, <2>1, PutType DEF ApplyReplicaSet, StoreType
  <2>2. CASE DeleteReplicaSet
    <3>1. Put("rs", 0) /\ 0 \in Int
      BY <2>2 DEF DeleteReplicaSet
    <3>2. store' \in [Keys -> Int] /\ rsEvents' \in Seq(RsEvents)
      BY <1>0, <3>1, PutType
    <3>3. QED BY <2>0, <2>2, <3>2 DEF DeleteReplicaSet, StoreType
  <2>3. CASE \E k \in Keys : ControllersDelete(k)
    <3>1. \E k \in Keys, n \in Int : Put(k, n)
      BY <1>0, <2>3 DEF ControllersDelete
    <3>2. store' \in [Keys -> Int] /\ rsEvents' \in Seq(RsEvents)
      BY <3>1, PutType
    <3>3. QED BY <2>0, <2>3, <3>2 DEF ControllersDelete, StoreType
  <2>4. CASE DeleteDeployment
    <3>1. dmEvents' \in Seq({"put", "delete"})
      BY <2>0, <2>4 DEF DeleteDeployment, StoreType
    <3>2. QED BY <2>0, <2>4, <3>1 DEF DeleteDeployment, StoreType
  <2>5. CASE LoadChanges
    BY <2>0, <2>5 DEF LoadChanges, StoreType
  <2>6. ASSUME NEW a \in Autoscalers, NEW spec \in Specs \cup {None}, ChangeAutoscaler(a, spec)
        PROVE  StoreType'
    <3>1. [name |-> a, spec |-> spec] \in AsEvents
      BY DEF AsEvents
    <3>2. asEvents' \in Seq(AsEvents) /\ applied' \in [Autoscalers -> Specs \cup {None}]
      BY <2>0, <2>6, <3>1 DEF ChangeAutoscaler, StoreType
    <3>3. QED BY <2>0, <2>6, <3>2 DEF ChangeAutoscaler, StoreType
  <2>7. QED BY <2>1, <2>2, <2>3, <2>4, <2>5, <2>6
<1>4. QED BY <1>1, <1>2, <1>3 DEF TypeOK, RingsFit

\* A handler that has found an entry.
LEMMA FoundType ==
    ASSUME TypeOK, NEW w \in Handlers, NEW t \in Targets, Found(w, t)
    PROVE  rest' \in [Handlers -> {None} \cup Closings \cup Installs] /\ raced' \subseteq Loops
<1> DEFINE l == object2autoscaler[t]
           r == IF l = 0 THEN None ELSE [do |-> "close", target |-> t, loop |-> l]
<1>1. l \in Loops \cup {0} /\ rest \in [Handlers -> {None} \cup Closings \cup Installs] /\ raced \subseteq Loops
  BY DEF TypeOK, MapType, LoopType
<1>2. rest' = [rest EXCEPT ![w] = r] /\ (raced' = raced \/ (l # 0 /\ raced' = raced \cup {l}))
  BY DEF Found
<1>3. r \in {None} \cup Closings \cup Installs
  BY <1>1 DEF Closings
<1> HIDE DEF r, l
<1>4. QED BY <1>1, <1>2, <1>3

\* The handlers of the three watches.
LEMMA WatchType ==
    ASSUME TypeOK, WatchAutoscaler \/ WatchReplicaset \/ WatchDeployment
    PROVE  TypeOK'
<1> USE DEF maps, history, events, etcdVars
<1>0. "as" \in Handlers /\ "rs" \in Handlers /\ "dm" \in Handlers /\ "rs" \in Targets /\ "dm" \in Targets
  BY DEF Handlers, Targets
<1>1. CASE WatchAutoscaler
  <2>0. asEvents \in Seq(AsEvents) /\ asEvents # <<>>
    BY <1>1 DEF TypeOK, StoreType, WatchAutoscaler
  <2> DEFINE e == Head(asEvents)
  <2>1. e \in AsEvents /\ asEvents' \in Seq(AsEvents)
    BY <1>1, <2>0 DEF WatchAutoscaler
  <2>2. e.name \in Autoscalers /\ e.spec \in Specs \cup {None}
    BY <2>1 DEF AsEvents
  <2>3. /\ rest' \in [Handlers -> {None} \cup Closings \cup Installs] /\ raced' \subseteq Loops
        /\ autoscalerMap' \in [Autoscalers -> Specs \cup {None}]
    <3>0. /\ rest \in [Handlers -> {None} \cup Closings \cup Installs] /\ raced \subseteq Loops
          /\ autoscalerMap \in [Autoscalers -> Specs \cup {None}]
      BY DEF TypeOK, MapType, LoopType
    <3>1. CASE /\ e.spec # None /\ UNCHANGED <<autoscalerMap, raced>>
               /\ \/ rest' = [rest EXCEPT !["as"] = [do |-> "install", name |-> e.name, spec |-> e.spec]]
                  \/ rest' = [rest EXCEPT !["as"] = None]
      <4>1. [do |-> "install", name |-> e.name, spec |-> e.spec] \in Installs
        BY <2>2, <3>1 DEF Installs
      <4>2. QED BY <1>0, <3>0, <3>1, <4>1
    <3>2. CASE /\ autoscalerMap[e.name] # None /\ Found("as", autoscalerMap[e.name].target)
               /\ autoscalerMap' = [autoscalerMap EXCEPT ![e.name] = None]
      <4>1. autoscalerMap[e.name] \in Specs
        BY <2>2, <3>0, <3>2
      <4>2. autoscalerMap[e.name].target \in Targets
        BY <4>1, AutoscalerAssumption DEF Targets
      <4>3. rest' \in [Handlers -> {None} \cup Closings \cup Installs] /\ raced' \subseteq Loops
        BY <1>0, <3>2, <4>2, FoundType
      <4>4. QED BY <2>2, <3>0, <3>2, <4>3
    <3>3. CASE UNCHANGED <<rest, autoscalerMap, raced>>
      BY <3>0, <3>3
    <3>4. QED BY <1>1, <3>1, <3>2, <3>3 DEF WatchAutoscaler
  <2>4. StoreType' /\ MapType' /\ LoopType'
    BY <1>1, <2>1, <2>3 DEF TypeOK, StoreType, MapType, LoopType, WatchAutoscaler
  <2>5. QED BY <1>1, <2>4 DEF TypeOK, RestType, WatchAutoscaler
<1>2. CASE WatchReplicaset
  <2>0. rsEvents \in Seq(RsEvents) /\ rsEvents # <<>>
    BY <1>2 DEF TypeOK, StoreType, WatchReplicaset
  <2> DEFINE e == Head(rsEvents)
  <2>1. e \in RsEvents /\ rsEvents' \in Seq(RsEvents)
    BY <1>2, <2>0 DEF WatchReplicaset
  <2>2. e.key \in Keys /\ e.replicas \in Int /\ Absent \in Int
    BY <2>1 DEF RsEvents, Absent
  <2>3. replicasetMap' \in [Keys -> Int] /\ newest' \in Keys
    BY <1>2, <2>2 DEF WatchReplicaset, MapAfter, TypeOK, MapType
  <2>4. rest' \in [Handlers -> {None} \cup Closings \cup Installs] /\ raced' \subseteq Loops
    <3>1. CASE Found("rs", "rs")
      BY <1>0, <3>1, FoundType
    <3>2. CASE UNCHANGED <<rest, raced>>
      BY <3>2 DEF TypeOK, MapType, LoopType
    <3>3. QED BY <1>2, <3>1, <3>2 DEF WatchReplicaset
  <2>5. stale' \subseteq Loops
    BY <1>2 DEF WatchReplicaset, TypeOK, LoopType
  <2>6. crashed' \in {"no", "close", "map"}
    BY <1>2 DEF WatchReplicaset
  <2>7. StoreType' /\ MapType' /\ LoopType'
    BY <1>2, <2>1, <2>3, <2>4, <2>5 DEF TypeOK, StoreType, MapType, LoopType, WatchReplicaset
  <2>8. QED BY <1>2, <2>6, <2>7 DEF TypeOK, RestType, WatchReplicaset
<1>3. CASE WatchDeployment
  <2>1. dmEvents' \in Seq({"put", "delete"})
    BY <1>3 DEF TypeOK, StoreType, WatchDeployment
  <2>2. deploymentMap' \in BOOLEAN
    BY <1>3 DEF WatchDeployment
  <2>3. rest' \in [Handlers -> {None} \cup Closings \cup Installs] /\ raced' \subseteq Loops
    <3>1. CASE Found("dm", "dm")
      BY <1>0, <3>1, FoundType
    <3>2. CASE UNCHANGED <<rest, raced>>
      BY <3>2 DEF TypeOK, MapType, LoopType
    <3>3. QED BY <1>3, <3>1, <3>2 DEF WatchDeployment
  <2>4. StoreType' /\ MapType' /\ LoopType'
    BY <1>3, <2>1, <2>2, <2>3 DEF TypeOK, StoreType, MapType, LoopType, WatchDeployment
  <2>5. QED BY <1>3, <2>4 DEF TypeOK, RestType, WatchDeployment
<1>4. QED BY <1>1, <1>2, <1>3

\* What the second steps of the handlers do: a loop is started, or a channel closed.
LEMMA InstallFacts ==
    ASSUME TypeOK, Install
    PROVE  \E spec \in Specs, a \in Autoscalers, l \in Loops :
              /\ spec.target \in Targets /\ loop[l].pc = "off"
              /\ loop' \in [Loops -> LoopStates] /\ \A m \in Loops \ {l} : loop'[m] = loop[m]
              /\ loop'[l].pc = "check" /\ loop'[l].target = spec.target /\ loop'[l].ring = <<>>
              /\ object2autoscaler' = [object2autoscaler EXCEPT ![spec.target] = l]
              /\ autoscalerMap' = [autoscalerMap EXCEPT ![a] = spec]
              /\ displaced' = displaced \cup ({object2autoscaler[spec.target]} \ {0})
              /\ rest["as"] \in Installs
<1>1. rest["as"] \in Installs
  BY DEF Install, TypeOK, MapType, Closings, Handlers
<1>2. rest["as"].spec \in Specs /\ rest["as"].name \in Autoscalers
  BY <1>1 DEF Installs
<1> DEFINE spec == rest["as"].spec
           new == [Off EXCEPT !.pc = "check", !.target = spec.target, !.min = spec.min, !.max = spec.max]
<1>3. PICK l \in Loops :
              /\ loop[l] = Off
              /\ loop' = [loop EXCEPT ![l] = new]
              /\ object2autoscaler' = [object2autoscaler EXCEPT ![spec.target] = l]
              /\ autoscalerMap' = [autoscalerMap EXCEPT ![rest["as"].name] = spec]
              /\ displaced' = displaced \cup ({object2autoscaler[spec.target]} \ {0})
  BY DEF Install
<1>4. spec.target \in Targets /\ spec.min \in Nat /\ spec.max \in Nat
  BY <1>2, AutoscalerAssumption DEF Targets
<1>6. new \in LoopStates /\ new.pc = "check" /\ new.target = spec.target /\ new.ring = <<>>
  BY <1>4, OffState DEF LoopStates
<1> HIDE DEF new
<1>7. loop \in [Loops -> LoopStates]
  BY DEF TypeOK, LoopType
<1>8. loop' \in [Loops -> LoopStates] /\ loop'[l] = new /\ \A m \in Loops \ {l} : loop'[m] = loop[m]
  BY <1>3, <1>6, <1>7
<1>9. loop[l].pc = "off"
  BY <1>3, OffState
<1>10. QED BY <1>1, <1>2, <1>3, <1>4, <1>6, <1>8, <1>9

\* They keep the types.
LEMMA SecondStepType ==
    ASSUME TypeOK, Install \/ \E w \in Handlers : Close(w)
    PROVE  TypeOK'
<1> USE DEF maps, history, events, etcdVars
<1>1. CASE Install
  <2>1. PICK spec \in Specs, a \in Autoscalers, l \in Loops :
              /\ spec.target \in Targets
              /\ loop' \in [Loops -> LoopStates] /\ \A m \in Loops \ {l} : loop'[m] = loop[m]
              /\ loop'[l].ring = <<>>
              /\ object2autoscaler' = [object2autoscaler EXCEPT ![spec.target] = l]
              /\ autoscalerMap' = [autoscalerMap EXCEPT ![a] = spec]
              /\ displaced' = displaced \cup ({object2autoscaler[spec.target]} \ {0})
    BY <1>1, InstallFacts
  <2>2. rest' = [rest EXCEPT !["as"] = None]
    BY <1>1 DEF Install
  <2>3. MapType'
    BY <1>1, <2>1, <2>2 DEF Install, TypeOK, MapType
  <2>4. LoopType'
    BY <1>1, <2>1 DEF Install, TypeOK, LoopType, MapType
  <2>5. RingsFit'
    <3>1. Len(<<>>) <= RingSize
      BY AutoscalerAssumption
    <3>2. QED BY <2>1, <3>1 DEF TypeOK, RingsFit
  <2>6. QED BY <1>1, <2>3, <2>4, <2>5 DEF Install, TypeOK, StoreType, RestType, RingsFit
<1>2. ASSUME NEW w \in Handlers, Close(w) PROVE TypeOK'
  <2>1. rest[w] \in Closings
    BY <1>2 DEF Close, TypeOK, MapType, Installs
  <2>2. rest[w].target \in Targets /\ rest[w].loop \in Loops
    BY <2>1 DEF Closings
  <2>3. MapType'
    BY <1>2, <2>2 DEF Close, EntryDeleted, TypeOK, MapType
  <2>4. LoopType'
    BY <1>2, <2>2 DEF Close, Closed, TypeOK, LoopType, MapType
  <2>5. crashed' \in {"no", "close", "map"}
    BY <1>2 DEF Close, TypeOK, RestType
  <2>6. QED BY <1>2, <2>3, <2>4, <2>5 DEF Close, TypeOK, StoreType, RestType
<1>3. QED BY <1>1, <1>2

\* The steps of the monitoring loops.
LEMMA LoopStepType ==
    ASSUME TypeOK, NEW l \in Loops,
           \/ Stopped(l) \/ ReplicasetRound(l) \/ Scale(l)
           \/ DeploymentRound(l) \/ Choose(l) \/ PutControlled(l)
    PROVE  TypeOK'
<1> USE DEF maps, history, events, etcdVars
<1>0. MapType' /\ UNCHANGED <<closed, displaced, raced, load, crashed, changes, deployed, wish, applied,
                              dmEvents, asEvents>>
  BY DEF TypeOK, MapType, Stopped, ReplicasetRound, Scale, DeploymentRound, Choose, PutControlled, Unscaled
<1>1. ASSUME NEW pc, NEW reps, NEW ring, Moves(l, pc, reps, ring), Len(ring) <= RingSize,
             stale' \subseteq Loops, fails' \in 0..MaxFails,
             store' \in [Keys -> Int], rsEvents' \in Seq(RsEvents)
      PROVE  TypeOK'
  <2>1. LoopType'
    BY <1>0, <1>1 DEF TypeOK, LoopType, Moves
  <2>2. RingsFit'
    BY <1>1 DEF TypeOK, RingsFit, Moves
  <2>3. QED BY <1>0, <1>1, <2>1, <2>2 DEF TypeOK, StoreType, RestType, RingsFit
<1>2. /\ Len(loop[l].ring) <= RingSize /\ stale \subseteq Loops /\ fails \in 0..MaxFails
      /\ store \in [Keys -> Int] /\ rsEvents \in Seq(RsEvents)
      /\ loop \in [Loops -> LoopStates] /\ loop[l] \in LoopStates
  BY DEF TypeOK, LoopType, RestType, StoreType
<1>3. CASE Stopped(l)
  <2> DEFINE off == [Off EXCEPT !.pc = "done"]
  <2>2. off \in LoopStates /\ off.ring = <<>>
    BY OffState DEF LoopStates
  <2>3. loop' = [loop EXCEPT ![l] = off]
    BY <1>3 DEF Stopped
  <2> HIDE DEF off
  <2>4. loop' \in [Loops -> LoopStates] /\ \A m \in Loops : loop'[m] = loop[m] \/ loop'[m].ring = <<>>
    BY <1>2, <2>2, <2>3
  <2>5. RingsFit'
    <3>1. Len(<<>>) <= RingSize
      BY AutoscalerAssumption
    <3>2. QED BY <2>4, <3>1 DEF TypeOK, RingsFit
  <2>6. UNCHANGED <<stale, fails, store, rsEvents>>
    BY <1>3 DEF Stopped, Unscaled
  <2>7. QED BY <1>0, <2>4, <2>5, <2>6 DEF TypeOK, StoreType, LoopType, RestType, RingsFit
<1>4. CASE ReplicasetRound(l)
  <2>1. UNCHANGED <<stale, store, rsEvents>>
    BY <1>4 DEF ReplicasetRound, Unscaled
  <2>2. QED BY <1>1, <1>2, <1>4, <2>1, RoundMoves
<1>5. CASE Scale(l)
  <2>1. NextReplicas(l) \in Int /\ "rs" \in Keys
    <3>1. loop[l].reps \in Int
      BY <1>2 DEF LoopStates
    <3>2. QED BY <3>1 DEF NextReplicas, Keys
  <2>2. CASE /\ Put("rs", NextReplicas(l)) /\ UNCHANGED fails
             /\ IF NextReplicas(l) = Goal(l)
                   THEN Moves(l, "check", 0, loop[l].ring) /\ stale' = stale \ {l}
                   ELSE Moves(l, loop[l].pc, NextReplicas(l), loop[l].ring) /\ stale' = stale
    <3>1. store' \in [Keys -> Int] /\ rsEvents' \in Seq(RsEvents)
      BY <2>1, <2>2, PutType
    <3>2. stale' \subseteq Loops /\ fails' \in 0..MaxFails
      BY <1>2, <2>2
    <3>3. Moves(l, "check", 0, loop[l].ring) \/ Moves(l, loop[l].pc, NextReplicas(l), loop[l].ring)
      BY <2>2
    <3>4. QED BY <1>1, <1>2, <3>1, <3>2, <3>3
  <2>3. CASE UNCHANGED <<store, rsEvents, loop, stale>> /\ fails' \in 0..MaxFails
    BY <1>0, <2>3 DEF TypeOK, StoreType, LoopType, RestType
  <2>4. QED BY <1>5, <2>2, <2>3, ScaleMoves
<1>6. CASE DeploymentRound(l) \/ Choose(l) \/ PutControlled(l)
  <2>1. /\ UNCHANGED stale /\ fails' \in 0..MaxFails
        /\ \E pc \in {"check", "iter", "put"}, reps \in Int : Moves(l, pc, reps, loop[l].ring)
        /\ UNCHANGED <<store, rsEvents>> \/ \E n \in Int : Put("ownuid", n)
    BY <1>6, DeploymentMoves
  <2>2. store' \in [Keys -> Int] /\ rsEvents' \in Seq(RsEvents)
    BY <1>2, <2>1, PutType DEF Keys
  <2>3. QED BY <1>1, <1>2, <2>1, <2>2
<1>7. QED BY <1>3, <1>4, <1>5, <1>6

\* Every step keeps the types.
LEMMA TypeNext == ASSUME TypeOK, [Next]_vars PROVE TypeOK'
<1>1. CASE UNCHANGED vars
  BY <1>1 DEF vars, etcdVars, events, maps, history, TypeOK, StoreType, MapType, LoopType, RestType
<1>2. QED BY <1>1, NextSteps, OutsideType, WatchType, SecondStepType, LoopStepType

\* The first states have them.
LEMMA TypeInit == Init => TypeOK
<1> SUFFICES ASSUME Init PROVE TypeOK
  OBVIOUS
<1> USE DEF Init
<1>1. StoreType
  <2>1. [key |-> "own", replicas |-> 1] \in RsEvents
    BY DEF RsEvents, Keys
  <2>2. <<[key |-> "own", replicas |-> 1]>> \in Seq(RsEvents)
    BY <2>1
  <2>3. <<"put">> \in Seq({"put", "delete"}) /\ <<>> \in Seq(AsEvents)
    OBVIOUS
  <2>4. store \in [Keys -> Int]
    BY DEF Absent
  <2>5. QED BY <2>2, <2>3, <2>4 DEF StoreType
<1>2. MapType
  <2>1. replicasetMap \in [Keys -> Int] /\ newest \in Keys
    BY DEF Keys, Absent
  <2>2. autoscalerMap \in [Autoscalers -> Specs \cup {None}] /\ object2autoscaler \in [Targets -> Loops \cup {0}]
    OBVIOUS
  <2>3. rest \in [Handlers -> {None} \cup Closings \cup Installs]
    BY DEF Handlers
  <2>4. QED BY <2>1, <2>2, <2>3 DEF MapType
<1>3. Off \in LoopStates /\ Len(Off.ring) <= RingSize
  <2>1. Len(<<>>) <= RingSize
    BY AutoscalerAssumption
  <2>2. QED BY <2>1, OffState
<1>4. LoopType
  BY <1>3 DEF LoopType
<1>5. RestType
  BY AutoscalerAssumption DEF RestType
<1>6. RingsFit
  BY <1>3 DEF RingsFit
<1>7. QED BY <1>1, <1>2, <1>4, <1>5, <1>6 DEF TypeOK, RingsFit

-----------------------------------------------------------------------------
(* Entries, handlers and stop channels.                                    *)

StopInv == TypeOK /\ RaceInv /\ LoopsCanBeStopped

\* Held, in terms of Closing.
LEMMA HeldClosing ==
    ASSUME TypeOK, NEW l
    PROVE  Held(l) <=> \E w \in Handlers : Closing(w) /\ rest[w].loop = l
BY DEF Held, Closing, TypeOK, MapType

\* Steps that touch no entry, no handler and no channel; a loop may end.
LEMMA StopFrame ==
    ASSUME StopInv, UNCHANGED <<object2autoscaler, rest, closed, displaced, raced>>,
           crashed' # "close",
           \A l \in Loops : loop[l].pc # "off" => loop'[l].pc # "off",
           \A l \in Loops : Running(l)' => Running(l) /\ loop'[l].target = loop[l].target
    PROVE  RaceInv' /\ LoopsCanBeStopped'
<1>0. /\ \A t \in Targets : object2autoscaler[t] # 0 => object2autoscaler[t] \in Loops
      /\ \A w \in Handlers : Closing(w) => rest[w].loop \in Loops
      /\ closed \subseteq Loops
  BY DEF StopInv, TypeOK, MapType, LoopType, Closing, Closings, Installs
<1>1. \A w \in Handlers : Closing(w)' <=> Closing(w)
  BY DEF Closing
<1>2. Known'
  BY <1>0, <1>1 DEF StopInv, RaceInv, Known
<1>3. raced' = {} => Unraced'
  BY <1>1 DEF StopInv, RaceInv, Unraced
<1>4. LoopsCanBeStopped'
  BY DEF StopInv, LoopsCanBeStopped, Held
<1>5. QED BY <1>2, <1>3, <1>4 DEF RaceInv, ClosedOnce

\* A handler takes on nothing, or an installation.
LEMMA RestFrame ==
    ASSUME StopInv, UNCHANGED <<object2autoscaler, loop, closed, displaced>>, raced \subseteq raced',
           crashed' # "close",
           \A v \in Handlers : Closing(v)' => Closing(v) /\ rest'[v] = rest[v],
           \A v \in Handlers : Closing(v) => Closing(v)' /\ rest'[v] = rest[v],
           TypeOK'
    PROVE  RaceInv' /\ LoopsCanBeStopped'
<1>1. Known'
  BY DEF StopInv, RaceInv, Known
<1>2. raced' = {} => Unraced'
  BY DEF StopInv, RaceInv, Unraced
<1>3. \A l : Held(l) => Held(l)'
  <2> SUFFICES ASSUME NEW l, Held(l) PROVE Held(l)'
    OBVIOUS
  <2>1. PICK w \in Handlers : Closing(w) /\ rest[w].loop = l
    BY HeldClosing DEF StopInv
  <2>2. QED BY <2>1 DEF Held, Closing, TypeOK, MapType
<1>4. LoopsCanBeStopped'
  BY <1>3 DEF StopInv, LoopsCanBeStopped, Running
<1>5. QED BY <1>1, <1>2, <1>4 DEF RaceInv, ClosedOnce

\* A handler reads the entry of a target: unless another holds it, its channel is open.
LEMMA FoundStop ==
    ASSUME StopInv, NEW w \in Handlers, rest[w] = None, NEW t \in Targets, Found(w, t),
           UNCHANGED <<object2autoscaler, loop, closed, displaced>>, crashed' # "close", TypeOK'
    PROVE  RaceInv' /\ LoopsCanBeStopped'
<1> DEFINE l == object2autoscaler[t]
<1>0. /\ rest \in [Handlers -> {None} \cup Closings \cup Installs] /\ l \in Loops \cup {0}
      /\ ~Closing(w)
  BY DEF StopInv, TypeOK, MapType, Closing
<1>1. raced' = IF l # 0 /\ Held(l) THEN raced \cup {l} ELSE raced
  BY DEF Found
<1>2. \A v \in Handlers \ {w} : rest'[v] = rest[v] /\ (Closing(v)' <=> Closing(v))
  BY <1>0 DEF Found, Closing
<1>3. CASE l = 0
  <2>1. rest'[w] = None
    BY <1>0, <1>3 DEF Found
  <2>2. ~Closing(w)'
    BY <2>1 DEF Closing
  <2>3. QED BY <1>0, <1>1, <1>2, <2>2, RestFrame
<1>4. CASE l # 0
  <2>1. rest'[w] = [do |-> "close", target |-> t, loop |-> l]
    BY <1>0, <1>4 DEF Found
  <2>2. rest'[w].target = t /\ rest'[w].loop = l
    BY <2>1
  <2>3. Known'
    <3>1. \A v \in Handlers : Closing(v)' => loop[rest'[v].loop].pc # "off"
      BY <1>2, <1>4, <2>2 DEF StopInv, RaceInv, Known
    <3>2. \A u \in Targets, v \in Handlers :
             Closing(v)' /\ object2autoscaler[u] = rest'[v].loop => rest'[v].target = u
      BY <1>2, <1>4, <2>2 DEF StopInv, RaceInv, Known
    <3>3. QED BY <3>1, <3>2 DEF StopInv, RaceInv, Known
  <2>4. raced' = {} => Unraced'
    <3> SUFFICES ASSUME raced' = {} PROVE Unraced'
      OBVIOUS
    <3>1. raced = {} /\ ~Held(l)
      BY <1>1, <1>4
    <3>2. Unraced
      BY <3>1 DEF StopInv, RaceInv
    <3>3. \A v \in Handlers \ {w} : Closing(v) => rest[v].loop # l
      BY <3>1, HeldClosing DEF StopInv
    <3>4. \A v \in Handlers : Closing(v)' => rest'[v].loop \notin closed
      BY <1>2, <2>2, <3>2 DEF Unraced
    <3>5. \A u, v \in Handlers : Closing(u)' /\ Closing(v)' /\ rest'[u].loop = rest'[v].loop => u = v
      BY <1>2, <2>2, <3>2, <3>3 DEF Unraced
    <3>6. QED BY <3>2, <3>4, <3>5 DEF Unraced
  <2>5. LoopsCanBeStopped'
    <3>1. \A m : Held(m) => Held(m)'
      <4> SUFFICES ASSUME NEW m, Held(m) PROVE Held(m)'
        OBVIOUS
      <4>1. PICK v \in Handlers : Closing(v) /\ rest[v].loop = m
        BY HeldClosing DEF StopInv
      <4>2. v # w
        BY <1>0, <4>1
      <4>3. QED BY <1>2, <4>1, <4>2 DEF Held, Closing, TypeOK, MapType
    <3>2. QED BY <3>1 DEF StopInv, LoopsCanBeStopped, Running
  <2>6. QED BY <2>3, <2>4, <2>5 DEF RaceInv, ClosedOnce
<1>5. QED BY <1>3, <1>4

\* The handlers of the three watches.
LEMMA WatchStop ==
    ASSUME StopInv, Alive, WatchAutoscaler \/ WatchReplicaset \/ WatchDeployment
    PROVE  RaceInv' /\ LoopsCanBeStopped'
<1>0. TypeOK' /\ TypeOK /\ rest \in [Handlers -> {None} \cup Closings \cup Installs]
  BY WatchType DEF StopInv, TypeOK, MapType
<1>1. UNCHANGED <<object2autoscaler, loop, closed, displaced>> /\ crashed' # "close"
  BY DEF WatchAutoscaler, WatchReplicaset, WatchDeployment, Alive
<1>2. "as" \in Handlers /\ "rs" \in Handlers /\ "dm" \in Handlers /\ "rs" \in Targets /\ "dm" \in Targets
  BY DEF Handlers, Targets
<1>3. CASE WatchAutoscaler
  <2> DEFINE e == Head(asEvents)
  <2>1. CASE /\ autoscalerMap[e.name] # None /\ Found("as", autoscalerMap[e.name].target)
    <3>1. e.name \in Autoscalers
      <4>1. asEvents \in Seq(AsEvents) /\ asEvents # <<>>
        BY <1>0, <1>3 DEF TypeOK, StoreType, WatchAutoscaler
      <4>2. e \in AsEvents
        BY <4>1
      <4>3. QED BY <4>2 DEF AsEvents
    <3>2. autoscalerMap[e.name] \in Specs
      BY <1>0, <2>1, <3>1 DEF TypeOK, MapType
    <3>3. autoscalerMap[e.name].target \in Targets
      BY <3>2, AutoscalerAssumption DEF Targets
    <3>4. rest["as"] = None
      BY <1>3 DEF WatchAutoscaler
    <3>5. QED BY <1>0, <1>1, <1>2, <2>1, <3>3, <3>4, FoundStop
  <2>2. CASE /\ raced' = raced
             /\ \/ UNCHANGED rest
                \/ rest' = [rest EXCEPT !["as"] = None]
                \/ rest' = [rest EXCEPT !["as"] = [do |-> "install", name |-> e.name, spec |-> e.spec]]
    <3>1. /\ \A v \in Handlers \ {"as"} : rest'[v] = rest[v]
          /\ rest["as"] = None
          /\ rest'["as"] = None \/ rest'["as"].do = "install"
      BY <1>0, <1>2, <1>3, <2>2 DEF WatchAutoscaler
    <3>2. \A v \in Handlers : /\ Closing(v)' => Closing(v) /\ rest'[v] = rest[v]
                              /\ Closing(v) => Closing(v)' /\ rest'[v] = rest[v]
      BY <3>1 DEF Closing
    <3>3. QED BY <1>0, <1>1, <2>2, <3>2, RestFrame
  <2>3. QED BY <1>3, <2>1, <2>2 DEF WatchAutoscaler
<1>4. CASE WatchReplicaset
  <2>1. CASE Found("rs", "rs")
    BY <1>0, <1>1, <1>2, <1>4, <2>1, FoundStop DEF WatchReplicaset
  <2>2. CASE UNCHANGED <<rest, raced>>
    <3>1. \A v \in Handlers : Closing(v)' <=> Closing(v)
      BY <2>2 DEF Closing
    <3>2. QED BY <1>0, <1>1, <2>2, <3>1, RestFrame
  <2>3. QED BY <1>4, <2>1, <2>2 DEF WatchReplicaset
<1>5. CASE WatchDeployment
  <2>1. CASE Found("dm", "dm")
    BY <1>0, <1>1, <1>2, <1>5, <2>1, FoundStop DEF WatchDeployment
  <2>2. CASE UNCHANGED <<rest, raced>>
    <3>1. \A v \in Handlers : Closing(v)' <=> Closing(v)
      BY <2>2 DEF Closing
    <3>2. QED BY <1>0, <1>1, <2>2, <3>1, RestFrame
  <2>3. QED BY <1>5, <2>1, <2>2 DEF WatchDeployment
<1>6. QED BY <1>3, <1>4, <1>5

\* A new loop takes the entry of its target; the one it displaces is recorded.
LEMMA InstallStop ==
    ASSUME StopInv, Alive, Install
    PROVE  RaceInv' /\ LoopsCanBeStopped'
<1>0. TypeOK /\ TypeOK' /\ crashed' # "close" /\ UNCHANGED <<closed, raced>>
  BY SecondStepType DEF StopInv, Install, Alive
<1>1. PICK spec \in Specs, a \in Autoscalers, l \in Loops :
              /\ spec.target \in Targets /\ loop[l].pc = "off"
              /\ \A m \in Loops \ {l} : loop'[m] = loop[m]
              /\ loop'[l].pc = "check" /\ loop'[l].target = spec.target
              /\ object2autoscaler' = [object2autoscaler EXCEPT ![spec.target] = l]
              /\ displaced' = displaced \cup ({object2autoscaler[spec.target]} \ {0})
              /\ rest["as"] \in Installs
  BY <1>0, InstallFacts
<1> DEFINE s == spec.target
<1>2. object2autoscaler \in [Targets -> Loops \cup {0}] /\ 0 \notin Loops /\ closed \subseteq Loops
  BY <1>0, AutoscalerAssumption DEF TypeOK, MapType, LoopType, Loops
<1>3. /\ object2autoscaler'[s] = l /\ \A t \in Targets \ {s} : object2autoscaler'[t] = object2autoscaler[t]
  BY <1>1, <1>2
<1>4. \A v \in Handlers : /\ Closing(v)' <=> Closing(v)
                          /\ Closing(v) => rest'[v] = rest[v]
  <2>1. rest' = [rest EXCEPT !["as"] = None] /\ rest["as"].do = "install"
    BY DEF Install
  <2>2. QED BY <1>0, <2>1 DEF Closing, TypeOK, MapType
<1>5. /\ \A t \in Targets : object2autoscaler[t] # l
      /\ \A w \in Handlers : Closing(w) => rest[w].loop # l /\ rest[w].loop \in Loops
      /\ l \notin closed
  <2>1. \A w \in Handlers : Closing(w) => rest[w].loop \in Loops
    BY <1>0 DEF TypeOK, MapType, Closing, Closings, Installs
  <2>2. QED BY <1>1, <1>2, <2>1 DEF StopInv, RaceInv, Known
<1>6. Known'
  <2>1. \A t \in Targets : object2autoscaler'[t] # 0 => loop'[object2autoscaler'[t]].pc # "off"
    <3> SUFFICES ASSUME NEW t \in Targets, object2autoscaler'[t] # 0
                 PROVE  loop'[object2autoscaler'[t]].pc # "off"
      OBVIOUS
    <3>1. CASE t = s
      BY <1>1, <1>3, <3>1
    <3>2. CASE t # s
      <4>1. object2autoscaler'[t] = object2autoscaler[t] /\ object2autoscaler[t] \in Loops \ {l}
        BY <1>2, <1>3, <1>5, <3>2
      <4>2. loop'[object2autoscaler[t]] = loop[object2autoscaler[t]]
        BY <1>1, <4>1
      <4>3. QED BY <4>1, <4>2 DEF StopInv, RaceInv, Known
    <3>3. QED BY <3>1, <3>2
  <2>2. \A w \in Handlers : Closing(w)' => loop'[rest'[w].loop].pc # "off"
    BY <1>1, <1>4, <1>5 DEF StopInv, RaceInv, Known
  <2>3. \A m \in closed' : loop'[m].pc # "off"
    BY <1>0, <1>1, <1>2, <1>5 DEF StopInv, RaceInv, Known
  <2>4. \A t, u \in Targets : object2autoscaler'[t] = object2autoscaler'[u] /\ t # u => object2autoscaler'[t] = 0
    BY <1>3, <1>5 DEF StopInv, RaceInv, Known
  <2>5. \A t \in Targets, w \in Handlers :
          Closing(w)' /\ object2autoscaler'[t] = rest'[w].loop => rest'[w].target = t
    BY <1>3, <1>4, <1>5 DEF StopInv, RaceInv, Known
  <2>6. QED BY <2>1, <2>2, <2>3, <2>4, <2>5 DEF Known
<1>7. raced' = {} => Unraced'
  <2> SUFFICES ASSUME raced' = {} PROVE Unraced'
    OBVIOUS
  <2>1. Unraced
    BY <1>0 DEF StopInv, RaceInv
  <2>2. \A t \in Targets : object2autoscaler'[t] \notin closed
    BY <1>3, <1>5, <2>1 DEF Unraced
  <2>3. QED BY <1>0, <1>4, <2>1, <2>2 DEF Unraced
<1>8. LoopsCanBeStopped'
  <2> SUFFICES ASSUME NEW m \in Loops, Running(m)'
               PROVE  (m \in closed \cup displaced \/ object2autoscaler[loop[m].target] = m \/ Held(m))'
    BY DEF LoopsCanBeStopped
  <2>1. CASE m = l
    BY <1>1, <1>3, <2>1
  <2>2. CASE m # l
    <3>1. loop'[m] = loop[m] /\ Running(m)
      BY <1>1, <2>2 DEF Running
    <3>2. CASE m \in closed \cup displaced
      BY <1>0, <1>1, <3>2
    <3>3. CASE object2autoscaler[loop[m].target] = m
      <4>1. CASE loop[m].target = s
        BY <1>1, <1>2, <3>3, <4>1
      <4>2. CASE loop[m].target # s
        BY <1>1, <1>2, <3>1, <3>3, <4>2
      <4>3. QED BY <4>1, <4>2
    <3>4. CASE Held(m)
      <4>1. PICK w \in Handlers : Closing(w) /\ rest[w].loop = m
        BY <1>0, <3>4, HeldClosing
      <4>2. QED BY <1>0, <1>4, <4>1 DEF Held, Closing, TypeOK, MapType
    <3>5. QED BY <3>1, <3>2, <3>3, <3>4 DEF StopInv, LoopsCanBeStopped
  <2>3. QED BY <2>1, <2>2
<1>9. QED BY <1>0, <1>6, <1>7, <1>8 DEF RaceInv, ClosedOnce

\* A channel is closed: it was open unless handlers raced, and no entry leads to it any more.
LEMMA CloseStop ==
    ASSUME StopInv, Alive, NEW w \in Handlers, Close(w)
    PROVE  RaceInv' /\ LoopsCanBeStopped'
<1> DEFINE l == rest[w].loop
           s == rest[w].target
<1>0. TypeOK /\ TypeOK' /\ UNCHANGED <<loop, raced>> /\ Closing(w)
  BY SecondStepType DEF StopInv, Close, Closing
<1>1. s \in Targets /\ l \in Loops /\ 0 \notin Loops /\ object2autoscaler \in [Targets -> Loops \cup {0}]
  BY <1>0, AutoscalerAssumption DEF TypeOK, MapType, Closing, Closings, Installs, Loops
<1>2. /\ object2autoscaler'[s] = 0 /\ \A t \in Targets \ {s} : object2autoscaler'[t] = object2autoscaler[t]
  BY <1>1 DEF Close, EntryDeleted
<1>3. /\ ~Closing(w)'
      /\ \A v \in Handlers \ {w} : rest'[v] = rest[v] /\ (Closing(v)' <=> Closing(v))
  <2>1. rest' = [rest EXCEPT ![w] = None]
    BY DEF Close
  <2>2. QED BY <1>0, <2>1 DEF Closing, TypeOK, MapType
<1>4. /\ closed' = closed \cup {l}
      /\ l \in closed \/ crashed' = crashed
      /\ displaced' = displaced \cup ({object2autoscaler[s]} \ {0, l})
  BY DEF Close, Closed
<1>5. Known'
  <2>1. loop[l].pc # "off"
    BY <1>0 DEF StopInv, RaceInv, Known
  <2>2. /\ \A t \in Targets : object2autoscaler'[t] # 0 => loop'[object2autoscaler'[t]].pc # "off"
        /\ \A v \in Handlers : Closing(v)' => loop'[rest'[v].loop].pc # "off"
        /\ \A m \in closed' : loop'[m].pc # "off"
    BY <1>0, <1>2, <1>3, <1>4, <2>1 DEF StopInv, RaceInv, Known
  <2>3. \A t, u \in Targets : object2autoscaler'[t] = object2autoscaler'[u] /\ t # u => object2autoscaler'[t] = 0
    BY <1>2 DEF StopInv, RaceInv, Known
  <2>4. \A t \in Targets, v \in Handlers :
          Closing(v)' /\ object2autoscaler'[t] = rest'[v].loop => rest'[v].target = t
    <3>1. \A v \in Handlers : Closing(v) => rest[v].loop # 0
      BY <1>0, <1>1 DEF TypeOK, MapType, Closing, Closings, Installs
    <3>2. QED BY <1>2, <1>3, <3>1 DEF StopInv, RaceInv, Known
  <2>5. QED BY <2>2, <2>3, <2>4 DEF Known
<1>6. raced' = {} => Unraced' /\ l \notin closed
  <2> SUFFICES ASSUME raced' = {} PROVE Unraced' /\ l \notin closed
    OBVIOUS
  <2>1. Unraced
    BY <1>0 DEF StopInv, RaceInv
  <2>2. l \notin closed
    BY <1>0, <2>1 DEF Unraced
  <2>3. \A v \in Handlers : Closing(v)' => rest'[v].loop \notin closed'
    BY <1>0, <1>3, <1>4, <2>1 DEF Unraced
  <2>4. \A t \in Targets : object2autoscaler'[t] \notin closed'
    <3>1. \A t \in Targets : object2autoscaler[t] = l => t = s
      BY <1>0 DEF StopInv, RaceInv, Known
    <3>2. 0 \notin closed'
      BY <1>0, <1>1 DEF TypeOK, LoopType
    <3>3. QED BY <1>2, <1>4, <2>1, <3>1, <3>2 DEF Unraced
  <2>5. QED BY <1>3, <2>1, <2>2, <2>3, <2>4 DEF Unraced
<1>7. ClosedOnce'
  BY <1>0, <1>4, <1>6 DEF ClosedOnce, Alive
<1>8. LoopsCanBeStopped'
  <2> SUFFICES ASSUME NEW m \in Loops, Running(m)
               PROVE  (m \in closed \cup displaced \/ object2autoscaler[loop[m].target] = m \/ Held(m))'
    BY <1>0 DEF LoopsCanBeStopped, Running
  <2>1. CASE m \in closed \cup displaced
    BY <1>4, <2>1
  <2>2. CASE object2autoscaler[loop[m].target] = m
    <3>1. CASE loop[m].target = s
      BY <1>1, <1>4, <2>2, <3>1
    <3>2. CASE loop[m].target # s
      BY <1>0, <1>1, <2>2, <3>2 DEF Close, EntryDeleted
    <3>3. QED BY <3>1, <3>2
  <2>3. CASE Held(m)
    <3>1. PICK v \in Handlers : Closing(v) /\ rest[v].loop = m
      BY <1>0, <2>3, HeldClosing
    <3>2. CASE v = w
      BY <1>4, <3>1, <3>2
    <3>3. CASE v # w
      BY <1>0, <1>3, <3>1, <3>3 DEF Held, Closing, TypeOK, MapType
    <3>4. QED BY <3>2, <3>3
  <2>4. QED BY <2>1, <2>2, <2>3 DEF StopInv, LoopsCanBeStopped
<1>9. QED BY <1>5, <1>6, <1>7, <1>8 DEF RaceInv

\* The steps of the loops: one that stops has its channel closed.
LEMMA LoopStop ==
    ASSUME StopInv, Alive, NEW l \in Loops,
           \/ Stopped(l) \/ ReplicasetRound(l) \/ Scale(l)
           \/ DeploymentRound(l) \/ Choose(l) \/ PutControlled(l)
    PROVE  RaceInv' /\ LoopsCanBeStopped'
<1>0. TypeOK /\ UNCHANGED <<object2autoscaler, rest, closed, displaced, raced>> /\ crashed' # "close"
  BY DEF StopInv, Alive, Stopped, ReplicasetRound, Scale, DeploymentRound, Choose, PutControlled, Unscaled,
         maps, history
<1>1. /\ \A m \in Loops : loop[m].pc # "off" => loop'[m].pc # "off"
      /\ \A m \in Loops : Running(m)' => Running(m) /\ loop'[m].target = loop[m].target
  <2>1. ASSUME NEW pc, NEW reps, NEW ring, Moves(l, pc, reps, ring), pc # "off",
               loop[l].pc \notin {"off", "done"}
        PROVE  /\ \A m \in Loops : loop[m].pc # "off" => loop'[m].pc # "off"
               /\ \A m \in Loops : Running(m)' => Running(m) /\ loop'[m].target = loop[m].target
    BY <2>1 DEF Moves, Running
  <2>2. CASE Stopped(l)
    <3>1. loop' = [loop EXCEPT ![l] = [Off EXCEPT !.pc = "done"]] /\ [Off EXCEPT !.pc = "done"].pc = "done"
      BY <2>2, OffState DEF Stopped, LoopStates
    <3>2. loop \in [Loops -> LoopStates]
      BY <1>0 DEF TypeOK, LoopType
    <3>3. loop'[l].pc = "done" /\ \A m \in Loops \ {l} : loop'[m] = loop[m]
      BY <3>1, <3>2
    <3>4. QED BY <3>3 DEF Running
  <2>3. CASE ReplicasetRound(l)
    <3>1. /\ loop[l].pc = "check"
          /\ \E pc \in {"check", "up", "down"}, ring \in Seq({0, 1, 2}) :
                Moves(l, pc, IF pc = "check" THEN 0 ELSE replicasetMap["rs"], ring)
      BY <1>0, <2>3, RoundMoves
    <3>2. QED BY <2>1, <3>1
  <2>4. CASE Scale(l)
    <3>1. /\ loop[l].pc \in {"up", "down"}
          /\ \/ Moves(l, "check", 0, loop[l].ring)
             \/ Moves(l, loop[l].pc, NextReplicas(l), loop[l].ring)
             \/ loop' = loop
      BY <1>0, <2>4, ScaleMoves
    <3>2. CASE loop' = loop
      BY <3>2 DEF Running
    <3>3. QED BY <2>1, <3>1, <3>2
  <2>5. CASE DeploymentRound(l) \/ Choose(l) \/ PutControlled(l)
    <3>1. /\ loop[l].pc \in {"check", "iter", "put"}
          /\ \E pc \in {"check", "iter", "put"}, reps \in Int : Moves(l, pc, reps, loop[l].ring)
      BY <1>0, <2>5, DeploymentMoves
    <3>2. QED BY <2>1, <3>1
  <2>6. QED BY <2>2, <2>3, <2>4, <2>5
<1>2. QED BY <1>0, <1>1, StopFrame

\* Every step keeps entries, handlers and channels in order.
LEMMA StopNext == ASSUME StopInv, [Next]_vars PROVE StopInv'
<1>0. TypeOK'
  BY TypeNext DEF StopInv
<1>1. CASE /\ Alive
           /\ \/ ApplyReplicaSet \/ DeleteReplicaSet \/ DeleteDeployment \/ LoadChanges
              \/ \E a \in Autoscalers, spec \in Specs \cup {None} : ChangeAutoscaler(a, spec)
              \/ \E k \in Keys : ControllersDelete(k)
  <2>1. UNCHANGED <<object2autoscaler, rest, closed, displaced, raced, crashed, loop>>
    BY <1>1 DEF ApplyReplicaSet, DeleteReplicaSet, DeleteDeployment, LoadChanges, ChangeAutoscaler,
                ControllersDelete, maps, history
  <2>2. QED BY <1>0, <1>1, <2>1, StopFrame DEF StopInv, Running, Alive
<1>2. CASE UNCHANGED vars
  <2>1. UNCHANGED <<object2autoscaler, rest, closed, displaced, raced, crashed, loop>>
    BY <1>2 DEF vars, maps, history
  <2>2. RaceInv' /\ LoopsCanBeStopped'
    BY <2>1 DEF StopInv, RaceInv, Known, Unraced, Closing, ClosedOnce, LoopsCanBeStopped, Held, Running
  <2>3. QED BY <1>0, <2>2 DEF StopInv
<1>3. QED
  BY <1>0, <1>1, <1>2, NextSteps, WatchStop, InstallStop, CloseStop, LoopStop DEF StopInv

\* At first no loop runs.
LEMMA StopInit == Init => StopInv
<1> SUFFICES ASSUME Init PROVE StopInv
  OBVIOUS
<1> USE DEF Init
<1>0. 0 \notin Loops /\ \A l \in Loops : loop[l].pc = "off"
  BY AutoscalerAssumption, OffState DEF Loops
<1>1. \A w \in Handlers : ~Closing(w)
  BY DEF Closing, Handlers
<1>2. RaceInv
  BY <1>0, <1>1 DEF RaceInv, Known, Unraced, ClosedOnce
<1>3. LoopsCanBeStopped
  BY <1>0 DEF LoopsCanBeStopped, Running
<1>4. QED BY <1>2, <1>3, TypeInit DEF StopInv

\* The invariant holds for ever.
LEMMA StopInvariant == Spec => []StopInv
BY StopInit, StopNext, PTL DEF Spec

\* Every variable of the controller has its type, and a RingQueue never outgrows its capacity.
THEOREM TypeCorrect == Spec => []TypeOK
<1>1. StopInv => TypeOK
  BY DEF StopInv
<1>2. QED BY <1>1, StopInvariant, PTL

\* Every monitoring loop that runs can be stopped through object2autoscaler, by a handler under
\* way or by its channel that is closed already, unless its entry was displaced.
THEOREM RunningLoopsStoppable == Spec => []LoopsCanBeStopped
<1>1. StopInv => LoopsCanBeStopped
  BY DEF StopInv
<1>2. QED BY <1>1, StopInvariant, PTL

\* The controller panics on a channel closed twice only if two handlers had read one entry.
THEOREM ChannelsClosedOnce == Spec => []ClosedOnce
<1>1. StopInv => ClosedOnce
  BY DEF StopInv, RaceInv
<1>2. QED BY <1>1, StopInvariant, PTL

-----------------------------------------------------------------------------
(* Deleted ReplicaSets.                                                    *)

\* What a put does to the watch.
LEMMA PutFacts ==
    ASSUME TypeOK, NEW k \in Keys, NEW n \in Int, Put(k, n)
    PROVE  /\ Len(rsEvents) \in Nat /\ Len(rsEvents') = Len(rsEvents) + 1
           /\ \A i \in 1..Len(rsEvents) : rsEvents'[i] = rsEvents[i]
           /\ rsEvents'[Len(rsEvents) + 1].key = k /\ rsEvents'[Len(rsEvents) + 1].replicas = n
           /\ store'[k] = n /\ \A j \in Keys \ {k} : store'[j] = store[j]
<1>1. [key |-> k, replicas |-> n] \in RsEvents
  BY DEF RsEvents
<1>2. store \in [Keys -> Int] /\ rsEvents \in Seq(RsEvents)
  BY DEF TypeOK, StoreType
<1>3. /\ Len(rsEvents) \in Nat /\ Len(rsEvents') = Len(rsEvents) + 1
      /\ \A i \in 1..Len(rsEvents) : rsEvents'[i] = rsEvents[i]
      /\ rsEvents'[Len(rsEvents) + 1] = [key |-> k, replicas |-> n]
  BY <1>1, <1>2 DEF Put
<1>4. store'[k] = n /\ \A j \in Keys \ {k} : store'[j] = store[j]
  BY <1>2 DEF Put
<1>5. QED BY <1>3, <1>4

\* A put of another ReplicaSet changes nothing for this one.
LEMMA OtherPut ==
    ASSUME TypeOK, DeleteInv, NEW k \in Keys \ {"rs"}, NEW n \in Int, Put(k, n)
    PROVE  /\ store'["rs"] = store["rs"] /\ EventCounts' /\ DeletionFollows'
           /\ ZeroPending' <=> ZeroPending
<1> DEFINE len == Len(rsEvents)
<1>1. /\ len \in Nat /\ Len(rsEvents') = len + 1
      /\ \A i \in 1..len : rsEvents'[i] = rsEvents[i]
      /\ rsEvents'[len + 1].key # "rs" /\ store'["rs"] = store["rs"]
  BY PutFacts DEF Keys
<1>2. \A i \in 1..len + 1 : rsEvents'[i].key = "rs" => i \in 1..len
  BY <1>1
<1>3. EventCounts'
  BY <1>1, <1>2 DEF DeleteInv, EventCounts
<1>4. ZeroPending' <=> ZeroPending
  BY <1>1, <1>2 DEF ZeroPending
<1>5. DeletionFollows'
  <2> SUFFICES ASSUME store["rs"] <= 0, NEW i \in 1..len,
                      rsEvents[i].key = "rs", rsEvents[i].replicas > 0
               PROVE  \E j \in (i + 1)..len + 1 : rsEvents'[j].key = "rs" /\ rsEvents'[j].replicas <= 0
    BY <1>1, <1>2 DEF DeletionFollows
  <2>1. PICK j \in (i + 1)..len : rsEvents[j].key = "rs" /\ rsEvents[j].replicas <= 0
    BY DEF DeleteInv, DeletionFollows
  <2>2. j \in 1..len /\ j \in (i + 1)..len + 1
    BY <1>1
  <2>3. QED BY <1>1, <2>1, <2>2
<1>6. QED BY <1>1, <1>3, <1>4, <1>5

\* A put of 0 or less is the deletion that follows all the older ones.
LEMMA OwnPut ==
    ASSUME TypeOK, DeleteInv, NEW n \in Int, n >= Absent, Put("rs", n)
    PROVE  /\ EventCounts' /\ DeletionFollows'
           /\ store'["rs"] <= 0 => ZeroPending'
<1> DEFINE len == Len(rsEvents)
<1>0. "rs" \in Keys
  BY DEF Keys
<1>1. /\ len \in Nat /\ Len(rsEvents') = len + 1
      /\ \A i \in 1..len : rsEvents'[i] = rsEvents[i]
      /\ rsEvents'[len + 1].key = "rs" /\ rsEvents'[len + 1].replicas = n /\ store'["rs"] = n
  BY <1>0, PutFacts
<1>2. \A i \in 1..len + 1 : i \in 1..len \/ i = len + 1
  BY <1>1
<1>3. EventCounts'
  BY <1>1, <1>2 DEF DeleteInv, EventCounts
<1>4. store'["rs"] <= 0 => ZeroPending'
  BY <1>1 DEF ZeroPending
<1>5. DeletionFollows'
  <2> SUFFICES ASSUME n <= 0, NEW i \in 1..len + 1, rsEvents'[i].replicas > 0
               PROVE  \E j \in (i + 1)..len + 1 : rsEvents'[j].key = "rs" /\ rsEvents'[j].replicas <= 0
    BY <1>1 DEF DeletionFollows
  <2>1. i # len + 1
    BY <1>1
  <2>2. len + 1 \in (i + 1)..len + 1
    BY <1>1, <1>2, <2>1
  <2>3. QED BY <1>1, <2>2
<1>6. QED BY <1>3, <1>4, <1>5

\* Steps that leave the watch alone: every loop that scales did so before, or the map has the
\* ReplicaSet.
LEMMA DeleteFrame ==
    ASSUME TypeOK, DeleteInv, UNCHANGED <<store, rsEvents, replicasetMap, stale>>, LoopCounts',
           \A l \in Loops : Scaling(l)' => Scaling(l) \/ replicasetMap["rs"] # Absent
    PROVE  DeleteInv'
<1>1. EventCounts' /\ MapCounts' /\ DeletionFollows'
  BY DEF DeleteInv, EventCounts, MapCounts, DeletionFollows
<1>2. DeletionSeen'
  BY DEF DeleteInv, DeletionSeen, ZeroPending
<1>3. QED BY <1>1, <1>2 DEF DeleteInv

\* Puts of others.
LEMMA OtherPutDelete ==
    ASSUME TypeOK, DeleteInv, NEW k \in Keys \ {"rs"}, NEW n \in Int, Put(k, n),
           UNCHANGED <<replicasetMap, stale>>, LoopCounts',
           \A l \in Loops : Scaling(l)' => Scaling(l)
    PROVE  DeleteInv'
<1>1. /\ store'["rs"] = store["rs"] /\ EventCounts' /\ DeletionFollows'
      /\ ZeroPending' <=> ZeroPending
  BY OtherPut
<1>2. DeletionSeen'
  BY <1>1 DEF DeleteInv, DeletionSeen
<1>3. QED BY <1>1, <1>2 DEF DeleteInv, MapCounts

\* What users and the other controllers do.
LEMMA OutsideDelete ==
    ASSUME TypeOK, DeleteInv,
           \/ ApplyReplicaSet \/ DeleteReplicaSet \/ DeleteDeployment \/ LoadChanges
           \/ \E a \in Autoscalers, spec \in Specs \cup {None} : ChangeAutoscaler(a, spec)
           \/ \E k \in Keys : ControllersDelete(k)
    PROVE  DeleteInv'
<1>0. UNCHANGED <<replicasetMap, stale, loop>>
  BY DEF ApplyReplicaSet, DeleteReplicaSet, DeleteDeployment, LoadChanges, ChangeAutoscaler,
         ControllersDelete, maps, history
<1>1. LoopCounts' /\ MapCounts' /\ \A l \in Loops : Scaling(l)' <=> Scaling(l)
  BY <1>0 DEF DeleteInv, LoopCounts, MapCounts, Scaling
<1>2. ASSUME NEW n \in Int, n >= Absent, Put("rs", n) PROVE DeleteInv'
  <2>1. EventCounts' /\ DeletionFollows' /\ (store'["rs"] <= 0 => ZeroPending')
    BY <1>2, OwnPut
  <2>2. QED BY <1>1, <2>1 DEF DeleteInv, DeletionSeen
<1>3. ASSUME UNCHANGED <<store, rsEvents>> PROVE DeleteInv'
  BY <1>0, <1>1, <1>3, DeleteFrame
<1>4. CASE ApplyReplicaSet
  <2>1. PICK n \in 1..MaxReplicas : Put("rs", n)
    BY <1>4 DEF ApplyReplicaSet
  <2>2. n \in Int /\ n >= Absent
    BY DEF Absent
  <2>3. QED BY <1>2, <2>1, <2>2
<1>5. CASE DeleteReplicaSet
  <2>1. 0 \in Int /\ 0 >= Absent
    BY DEF Absent
  <2>2. QED BY <1>2, <1>5, <2>1 DEF DeleteReplicaSet
<1>6. ASSUME NEW k \in Keys, ControllersDelete(k) PROVE DeleteInv'
  <2>1. PICK n \in {0, Absent} : Put(k, n)
    BY <1>6 DEF ControllersDelete
  <2>2. n \in Int /\ n >= Absent
    BY DEF Absent
  <2>3. CASE k = "rs"
    BY <1>2, <2>1, <2>2, <2>3
  <2>4. CASE k # "rs"
    BY <1>0, <1>1, <2>1, <2>2, <2>4, OtherPutDelete
  <2>5. QED BY <2>3, <2>4
<1>7. CASE DeleteDeployment
  BY <1>3, <1>7 DEF DeleteDeployment
<1>8. CASE LoadChanges
  BY <1>3, <1>8 DEF LoadChanges, etcdVars, events
<1>9. ASSUME NEW a \in Autoscalers, NEW spec \in Specs \cup {None}, ChangeAutoscaler(a, spec)
      PROVE  DeleteInv'
  BY <1>3, <1>9 DEF ChangeAutoscaler
<1>10. QED BY <1>4, <1>5, <1>6, <1>7, <1>8, <1>9

\* The handler of the ReplicaSets' watch: handling the last deletion empties the map's entry and
\* makes the loops that scale stale.
LEMMA WatchReplicasetDelete ==
    ASSUME TypeOK, DeleteInv, WatchReplicaset
    PROVE  DeleteInv'
<1> DEFINE e == Head(rsEvents)
           len == Len(rsEvents)
<1>0. /\ rsEvents \in Seq(RsEvents) /\ rsEvents # <<>> /\ UNCHANGED <<store, loop>>
      /\ store["rs"] \in Int
      /\ rsEvents' = Tail(rsEvents) /\ replicasetMap \in [Keys -> Int]
      /\ replicasetMap' = [replicasetMap EXCEPT ![e.key] = IF e.replicas = 0 THEN Absent ELSE e.replicas]
  BY DEF TypeOK, StoreType, MapType, WatchReplicaset, MapAfter, etcdVars, Keys
<1>1. /\ len \in Nat \ {0} /\ Len(rsEvents') = len - 1 /\ e = rsEvents[1] /\ 1 \in 1..len
      /\ \A i \in 1..len - 1 : rsEvents'[i] = rsEvents[i + 1] /\ i + 1 \in 1..len
      /\ \A i \in 1..len : i # 1 => i - 1 \in 1..len - 1 /\ (i - 1) + 1 = i
      /\ e \in RsEvents /\ \A i \in 1..len : rsEvents[i] \in RsEvents
  <2>1. /\ len \in Nat \ {0} /\ Len(rsEvents') = len - 1 /\ e = rsEvents[1] /\ 1 \in 1..len
        /\ e \in RsEvents /\ \A i \in 1..len : rsEvents[i] \in RsEvents
    BY <1>0
  <2>2. \A i \in 1..len - 1 : rsEvents'[i] = rsEvents[i + 1]
    BY <1>0, <2>1
  <2>3. /\ \A i \in 1..len - 1 : i + 1 \in 1..len
        /\ \A i \in 1..len : i # 1 => i - 1 \in 1..len - 1 /\ (i - 1) + 1 = i
    BY <2>1
  <2>4. QED BY <2>1, <2>2, <2>3
<1>2. e.key \in Keys /\ e.replicas \in Int /\ (e.key = "rs" => e.replicas >= Absent)
  BY <1>1 DEF RsEvents, DeleteInv, EventCounts
<1> HIDE DEF e, len
<1>3. EventCounts'
  BY <1>1 DEF DeleteInv, EventCounts, len
<1>4. LoopCounts' /\ \A l \in Loops : Scaling(l)' <=> Scaling(l)
  BY <1>0 DEF DeleteInv, LoopCounts, Scaling
<1>5. /\ e.key # "rs" => replicasetMap'["rs"] = replicasetMap["rs"]
      /\ e.key = "rs" => replicasetMap'["rs"] = IF e.replicas = 0 THEN Absent ELSE e.replicas
  BY <1>0, <1>2 DEF Keys
<1>6. e.key = "rs" /\ e.replicas <= 0 => replicasetMap'["rs"] = Absent
  BY <1>2, <1>5 DEF Absent
<1>7. MapCounts'
  BY <1>2, <1>5, <1>6 DEF DeleteInv, MapCounts
<1>8. DeletionFollows'
  <2> SUFFICES ASSUME store["rs"] <= 0, NEW i \in 1..len - 1,
                      rsEvents'[i].key = "rs", rsEvents'[i].replicas > 0
               PROVE  \E j \in (i + 1)..len - 1 : rsEvents'[j].key = "rs" /\ rsEvents'[j].replicas <= 0
    BY <1>0, <1>1 DEF DeletionFollows
  <2>1. i + 1 \in 1..len /\ rsEvents[i + 1].key = "rs" /\ rsEvents[i + 1].replicas > 0
    BY <1>1
  <2>2. PICK j \in (i + 1 + 1)..len : rsEvents[j].key = "rs" /\ rsEvents[j].replicas <= 0
    BY <2>1 DEF DeleteInv, DeletionFollows, len
  <2>3. j - 1 \in (i + 1)..len - 1 /\ j - 1 \in 1..len - 1 /\ (j - 1) + 1 = j
    BY <1>1
  <2>4. rsEvents'[j - 1] = rsEvents[j]
    BY <1>1, <2>3
  <2>5. QED BY <2>2, <2>3, <2>4
<1>9. DeletionSeen'
  <2> SUFFICES ASSUME store["rs"] <= 0, ~ZeroPending'
               PROVE  replicasetMap'["rs"] = Absent /\ \A l \in Loops : Scaling(l) => l \in stale'
    BY <1>0, <1>4 DEF DeletionSeen
  <2>1. CASE ZeroPending
    <3>1. PICK i \in 1..len : rsEvents[i].key = "rs" /\ rsEvents[i].replicas <= 0
      BY <2>1 DEF ZeroPending, len
    <3>2. i = 1
      <4> SUFFICES ASSUME i # 1 PROVE FALSE
        OBVIOUS
      <4>1. i - 1 \in 1..len - 1 /\ rsEvents'[i - 1] = rsEvents[i]
        BY <1>1
      <4>2. QED BY <1>1, <3>1, <4>1 DEF ZeroPending
    <3>3. e.key = "rs" /\ e.replicas <= 0
      BY <1>1, <3>1, <3>2
    <3>4. stale' = stale \cup {l \in Loops : loop[l].target = "rs" /\ Scaling(l)}
      BY <3>3 DEF WatchReplicaset, e
    <3>5. QED BY <1>6, <3>3, <3>4 DEF DeleteInv, LoopCounts
  <2>2. CASE ~ZeroPending
    <3>1. e.key # "rs"
      <4> SUFFICES ASSUME e.key = "rs" PROVE FALSE
        OBVIOUS
      <4>1. ~(e.replicas <= 0)
        BY <1>1, <2>2 DEF ZeroPending, len
      <4>2. rsEvents[1].key = "rs" /\ rsEvents[1].replicas > 0
        BY <1>1, <1>2, <4>1
      <4>3. PICK j \in (1 + 1)..len : rsEvents[j].key = "rs" /\ rsEvents[j].replicas <= 0
        BY <1>1, <4>2 DEF DeleteInv, DeletionFollows, len
      <4>4. j \in 1..len
        BY <1>1
      <4>5. QED BY <2>2, <4>3, <4>4 DEF ZeroPending, len
    <3>2. stale \subseteq stale'
      BY DEF WatchReplicaset
    <3>3. QED BY <1>5, <2>2, <3>1, <3>2 DEF DeleteInv, DeletionSeen
  <2>3. QED BY <2>1, <2>2
<1>10. QED BY <1>3, <1>4, <1>7, <1>8, <1>9 DEF DeleteInv

\* The other handlers' steps, and a loop that starts.
LEMMA OtherHandlersDelete ==
    ASSUME TypeOK, DeleteInv,
           WatchAutoscaler \/ WatchDeployment \/ Install \/ \E w \in Handlers : Close(w)
    PROVE  DeleteInv'
<1>0. UNCHANGED <<store, rsEvents, replicasetMap, stale>>
  BY DEF WatchAutoscaler, WatchDeployment, Install, Close, etcdVars, events
<1>1. \A l \in Loops : Scaling(l)' => loop'[l] = loop[l]
  <2>1. CASE WatchAutoscaler \/ WatchDeployment \/ \E w \in Handlers : Close(w)
    BY <2>1 DEF WatchAutoscaler, WatchDeployment, Close
  <2>2. CASE Install
    <3>1. \E l \in Loops : (\A m \in Loops \ {l} : loop'[m] = loop[m]) /\ loop'[l].pc = "check"
      BY <2>2, InstallFacts
    <3>2. QED BY <3>1 DEF Scaling
  <2>3. QED BY <2>1, <2>2
<1>2. \A l \in Loops : Scaling(l)' => Scaling(l)
  BY <1>1 DEF Scaling
<1>3. LoopCounts'
  BY <1>1, <1>2 DEF DeleteInv, LoopCounts
<1>4. QED BY <1>0, <1>2, <1>3, DeleteFrame

\* A loop that begins to scale found the ReplicaSet in the map; one that goes on stays between
\* its bounds.
LEMMA LoopDelete ==
    ASSUME TypeOK, DeleteInv, NEW l \in Loops,
           \/ Stopped(l) \/ ReplicasetRound(l) \/ Scale(l)
           \/ DeploymentRound(l) \/ Choose(l) \/ PutControlled(l)
    PROVE  DeleteInv'
<1>0. /\ UNCHANGED replicasetMap /\ loop \in [Loops -> LoopStates] /\ loop[l] \in LoopStates
      /\ loop[l].reps \in Int /\ loop[l].min \in Nat /\ loop[l].max \in Nat
  BY DEF Stopped, ReplicasetRound, Scale, DeploymentRound, Choose, PutControlled, Unscaled, maps,
         TypeOK, LoopType, LoopStates
<1>1. ASSUME \A m \in Loops \ {l} : loop'[m] = loop[m], ~Scaling(l)'
      PROVE  LoopCounts' /\ \A m \in Loops : Scaling(m)' => Scaling(m)
  BY <1>1 DEF DeleteInv, LoopCounts, Scaling
<1>2. CASE Stopped(l)
  <2>1. loop' = [loop EXCEPT ![l] = [Off EXCEPT !.pc = "done"]] /\ [Off EXCEPT !.pc = "done"].pc = "done"
    BY <1>2, OffState DEF Stopped, LoopStates
  <2>2. loop'[l].pc = "done" /\ \A m \in Loops \ {l} : loop'[m] = loop[m]
    BY <1>0, <2>1
  <2>3. LoopCounts' /\ \A m \in Loops : Scaling(m)' => Scaling(m)
    BY <1>1, <2>2 DEF Scaling
  <2>4. UNCHANGED <<store, rsEvents, stale>>
    BY <1>2 DEF Stopped, Unscaled, etcdVars, events
  <2>5. QED BY <1>0, <2>3, <2>4, DeleteFrame
<1>3. CASE ReplicasetRound(l)
  <2>0. UNCHANGED <<store, rsEvents, stale>>
    BY <1>3 DEF ReplicasetRound, Unscaled, etcdVars, events
  <2>1. PICK pc \in {"check", "up", "down"}, ring \in Seq({0, 1, 2}) :
           /\ Moves(l, pc, IF pc = "check" THEN 0 ELSE replicasetMap["rs"], ring)
           /\ pc = "down" => replicasetMap["rs"] > loop[l].min
    BY <1>3, RoundMoves
  <2>2. loop[l].target = "rs" /\ replicasetMap["rs"] # Absent /\ replicasetMap["rs"] > 0
    BY <1>3, RoundMoves DEF DeleteInv, MapCounts
  <2>3. \A m \in Loops \ {l} : loop'[m] = loop[m]
    BY <2>1 DEF Moves
  <2>4. Scaling(l)' => /\ loop'[l].target = "rs" /\ loop'[l].reps > 0
                       /\ loop'[l].pc = "down" => loop'[l].reps > loop'[l].min
    BY <2>1, <2>2 DEF Moves, Scaling
  <2>5. LoopCounts'
    BY <2>3, <2>4 DEF DeleteInv, LoopCounts, Scaling
  <2>6. QED BY <1>0, <2>0, <2>2, <2>5, DeleteFrame
<1>4. CASE Scale(l)
  <2>0. /\ Scaling(l) /\ loop[l].target = "rs" /\ loop[l].reps > 0
        /\ loop[l].pc = "down" => loop[l].reps > loop[l].min
    BY <1>4 DEF Scale, DeleteInv, LoopCounts
  <2>1. CASE UNCHANGED <<store, rsEvents, loop, stale>>
    <3>1. LoopCounts' /\ \A m \in Loops : Scaling(m)' => Scaling(m)
      BY <2>1 DEF DeleteInv, LoopCounts, Scaling
    <3>2. QED BY <1>0, <2>1, <3>1, DeleteFrame
  <2>2. CASE /\ Put("rs", NextReplicas(l))
             /\ IF NextReplicas(l) = Goal(l)
                   THEN Moves(l, "check", 0, loop[l].ring) /\ stale' = stale \ {l}
                   ELSE Moves(l, loop[l].pc, NextReplicas(l), loop[l].ring) /\ stale' = stale
    <3>1. /\ NextReplicas(l) \in Nat
          /\ loop[l].pc = "up" => NextReplicas(l) > 0
          /\ loop[l].pc = "down" => NextReplicas(l) >= loop[l].min
      BY <1>0, <2>0 DEF NextReplicas, Scaling
    <3>2. NextReplicas(l) \in Int /\ NextReplicas(l) >= Absent
      BY <3>1 DEF Absent
    <3>3. EventCounts' /\ DeletionFollows' /\ (store'["rs"] <= 0 => ZeroPending')
      BY <2>2, <3>2, OwnPut
    <3>4. LoopCounts'
      <4>1. CASE NextReplicas(l) = Goal(l)
        <5>1. loop'[l].pc = "check" /\ \A m \in Loops \ {l} : loop'[m] = loop[m]
          BY <2>2, <4>1 DEF Moves
        <5>2. QED BY <1>1, <5>1 DEF Scaling
      <4>2. CASE NextReplicas(l) # Goal(l)
        <5>1. /\ \A m \in Loops \ {l} : loop'[m] = loop[m]
              /\ loop'[l].pc = loop[l].pc /\ loop'[l].reps = NextReplicas(l)
              /\ loop'[l].target = loop[l].target /\ loop'[l].min = loop[l].min
          BY <2>2, <4>2 DEF Moves
        <5>2. loop[l].pc = "down" => NextReplicas(l) # loop[l].min
          BY <4>2 DEF Goal
        <5>3. loop[l].pc = "down" => NextReplicas(l) > loop[l].min
          BY <1>0, <3>1, <5>2
        <5>4. NextReplicas(l) > 0
          BY <1>0, <2>0, <3>1, <5>3 DEF Scaling
        <5>5. QED BY <2>0, <5>1, <5>3, <5>4 DEF DeleteInv, LoopCounts, Scaling
      <4>3. QED BY <4>1, <4>2
    <3>5. QED BY <1>0, <3>3, <3>4 DEF DeleteInv, MapCounts, DeletionSeen
  <2>3. QED BY <1>4, <2>1, <2>2, ScaleMoves
<1>5. CASE DeploymentRound(l) \/ Choose(l) \/ PutControlled(l)
  <2>1. /\ UNCHANGED stale
        /\ \E pc \in {"check", "iter", "put"}, reps \in Int : Moves(l, pc, reps, loop[l].ring)
        /\ UNCHANGED <<store, rsEvents>> \/ \E n \in Int : Put("ownuid", n)
    BY <1>5, DeploymentMoves
  <2>2. loop'[l].pc \in {"check", "iter", "put"} /\ \A m \in Loops \ {l} : loop'[m] = loop[m]
    BY <2>1 DEF Moves
  <2>3. LoopCounts' /\ \A m \in Loops : Scaling(m)' => Scaling(m)
    BY <1>1, <2>2 DEF Scaling
  <2>4. CASE UNCHANGED <<store, rsEvents>>
    BY <1>0, <2>1, <2>3, <2>4, DeleteFrame
  <2>5. CASE \E n \in Int : Put("ownuid", n)
    <3>1. "ownuid" \in Keys \ {"rs"}
      BY DEF Keys
    <3>2. QED BY <1>0, <2>1, <2>3, <2>5, <3>1, OtherPutDelete
  <2>6. QED BY <2>1, <2>4, <2>5
<1>6. QED BY <1>2, <1>3, <1>4, <1>5

\* Every step keeps the invariant of deletions.
LEMMA DeleteNext == ASSUME TypeOK, DeleteInv, [Next]_vars PROVE DeleteInv'
<1>1. CASE UNCHANGED vars
  BY <1>1 DEF vars, etcdVars, events, maps, history, DeleteInv, LoopCounts, EventCounts, MapCounts,
              DeletionFollows, DeletionSeen, ZeroPending, Scaling
<1>2. QED
  BY <1>1, NextSteps, OutsideDelete, WatchReplicasetDelete, OtherHandlersDelete, LoopDelete

\* At first there is no ReplicaSet of the user.
LEMMA DeleteInit == Init => DeleteInv
<1> SUFFICES ASSUME Init PROVE DeleteInv
  OBVIOUS
<1>1. \A l \in Loops : ~Scaling(l)
  BY OffState DEF Init, Scaling
<1>2. Len(rsEvents) = 1 /\ rsEvents[1].key = "own" /\ replicasetMap["rs"] = Absent
  BY DEF Init, Keys
<1>3. \A i \in 1..Len(rsEvents) : rsEvents[i].key # "rs"
  BY <1>2
<1>4. QED
  BY <1>1, <1>2, <1>3
  DEF DeleteInv, LoopCounts, EventCounts, MapCounts, DeletionFollows, DeletionSeen

\* A put of the deleted ReplicaSet that nobody asked for comes from a stale loop, or from a
\* loop that the deletion has not reached.
LEMMA DeleteStep ==
    ASSUME TypeOK, DeleteInv, [Next]_vars, ~wish', store["rs"] <= 0, store'["rs"] > 0
    PROVE  (\E l \in stale : loop[l] # loop'[l]) \/ ZeroPending
<1>0. store["rs"] \in Int /\ store' # store
  BY DEF TypeOK, StoreType, Keys
<1>1. \E l \in Loops : Scale(l)
  <2>1. ~ApplyReplicaSet
    BY DEF ApplyReplicaSet
  <2>2. ~DeleteReplicaSet
    BY <1>0 DEF DeleteReplicaSet
  <2>3. ~ \E k \in Keys : ControllersDelete(k)
    <3> SUFFICES ASSUME NEW k \in Keys, ControllersDelete(k) PROVE FALSE
      OBVIOUS
    <3>1. PICK n \in {0, Absent} : Put(k, n)
      BY DEF ControllersDelete
    <3>2. n \in Int /\ n <= 0
      BY DEF Absent
    <3>3. store'["rs"] = store["rs"] \/ store'["rs"] = n
      BY <3>1, <3>2, PutFacts DEF Keys
    <3>4. QED BY <1>0, <3>2, <3>3
  <2>4. ASSUME NEW l \in Loops, DeploymentRound(l) \/ Choose(l) \/ PutControlled(l) PROVE FALSE
    <3>1. UNCHANGED store \/ \E n \in Int : Put("ownuid", n)
      BY <2>4, DeploymentMoves
    <3>2. store'["rs"] = store["rs"]
      BY <3>1, PutFacts DEF Keys
    <3>3. QED BY <1>0, <3>2
  <2>5. ASSUME NEW l \in Loops, Stopped(l) \/ ReplicasetRound(l) PROVE store' = store
    BY <2>5 DEF Stopped, ReplicasetRound, Unscaled, etcdVars
  <2>6. ASSUME NEW a \in Autoscalers, NEW spec \in Specs \cup {None}, ChangeAutoscaler(a, spec)
        PROVE  store' = store
    BY <2>6 DEF ChangeAutoscaler
  <2>7. ASSUME NEW w \in Handlers, Close(w) PROVE store' = store
    BY <2>7 DEF Close, etcdVars
  <2>8. DeleteDeployment \/ LoadChanges \/ WatchAutoscaler \/ Install \/ WatchReplicaset
           \/ WatchDeployment \/ UNCHANGED vars => store' = store
    BY DEF DeleteDeployment, LoadChanges, WatchAutoscaler, Install, WatchReplicaset, WatchDeployment, vars,
           etcdVars
  <2>9. QED BY <1>0, <2>1, <2>2, <2>3, <2>4, <2>5, <2>6, <2>7, <2>8, NextSteps
<1>2. PICK l \in Loops : Scale(l)
  BY <1>1
<1>3. \/ Moves(l, "check", 0, loop[l].ring)
      \/ Moves(l, loop[l].pc, NextReplicas(l), loop[l].ring)
  BY <1>0, <1>2, ScaleMoves
<1>4. /\ loop[l].pc \in {"up", "down"} /\ loop[l].reps \in Int /\ Scaling(l)
      /\ NextReplicas(l) # loop[l].reps
  <2>1. loop[l].reps \in Int
    BY DEF TypeOK, LoopType, LoopStates
  <2>2. loop[l].pc \in {"up", "down"} /\ Scaling(l)
    BY <1>2 DEF Scale, Scaling
  <2>3. QED BY <2>1, <2>2 DEF NextReplicas
<1>5. loop'[l] # loop[l]
  BY <1>3, <1>4 DEF Moves
<1>6. QED BY <1>4, <1>5 DEF DeleteInv, DeletionSeen

\* A deleted ReplicaSet is put again only by a loop that began to scale it before the deletion
\* reached the controller's map.
THEOREM DeletedByStaleLoop == Spec => DeletedStaysDeleted
<1> DEFINE Inv == TypeOK /\ DeleteInv
           Step == ~wish' /\ store["rs"] <= 0 /\ store'["rs"] > 0
                      => \/ \E l \in stale : loop[l] # loop'[l]
                         \/ \E i \in DOMAIN rsEvents : rsEvents[i].key = "rs" /\ rsEvents[i].replicas <= 0
<1>1. Init => Inv
  BY TypeInit, DeleteInit
<1>2. Inv /\ [Next]_vars => Inv'
  BY TypeNext, DeleteNext
<1>3. Inv /\ [Next]_vars => Step
  <2>1. TypeOK => DOMAIN rsEvents = 1..Len(rsEvents)
    BY DEF TypeOK, StoreType
  <2>2. QED BY <2>1, DeleteStep DEF ZeroPending
<1>4. QED BY <1>1, <1>2, <1>3, PTL DEF Spec, DeletedStaysDeleted
=============================================================================
