----------------------------- MODULE Autoscaler -----------------------------
(***************************************************************************)
(* The autoscaler controller: its three watches (autoscalers, ReplicaSets, *)
(* Deployments), the maps they share, and the monitoring loop each applied *)
(* autoscaler starts, for one ReplicaSet and one Deployment.               *)
(*                                                                         *)
(* A handler reads object2autoscaler and deletes and closes in a second    *)
(* step; another watch's handler may come between.  A loop reads the       *)
(* number of replicas once and then counts from there.  A level is 2 when  *)
(* some metric is above its bound, 0 when all are below, 1 otherwise.      *)
(***************************************************************************)
EXTENDS Integers, Sequences

CONSTANTS
    Autoscalers,  \* names
    Specs,        \* [target, min, max] of an Autoscaler
    RingSize,     \* capacity of the ring queues (5 in the code)
    Levels,       \* bound: the levels the pods are seen at, of 0, 1, 2
    MaxReplicas,  \* bound: replicas a user asks for
    MaxQueue,     \* bound: events of ReplicaSets in flight
    MaxChanges,   \* bound: changes by users
    MaxLoops,     \* bound: monitoring loops started
    MaxFails      \* bound: requests that fail and measurements without data

ASSUME AutoscalerAssumption ==
    /\ RingSize \in Nat \ {0} /\ MaxReplicas \in Nat \ {0} /\ MaxQueue \in Nat \ {0} /\ Levels \subseteq {0, 1, 2}
    /\ MaxChanges \in Nat /\ MaxLoops \in Nat /\ MaxFails \in Nat
    /\ \A spec \in Specs : spec.target \in {"rs", "dm"} /\ spec.min \in Nat /\ spec.max \in Nat

Targets == {"rs", "dm"}
\* The keys of ReplicaSets: the user's, the Deployment's, and the one the deployment loop puts
\* (the name, which ends in the UID, and the UID once more).
Keys == {"rs", "own", "ownuid"}
Loops == 1..MaxLoops
Absent == -1
None == <<>>

VARIABLES
    store,          \* etcd: the replicas of each ReplicaSet, or Absent
    deployed,       \* etcd: the Deployment is there
    rsEvents, dmEvents, asEvents,   \* the watches
    applied,        \* etcd: [Autoscalers -> Specs or None]
    replicasetMap, newest,          \* replicasetMap and the key with the highest version
    deploymentMap, autoscalerMap,
    object2autoscaler,              \* [Targets -> the loop whose stopCh is stored, or 0]
    rest,           \* [watches -> what is left of the handler, or None]
    loop,           \* [Loops -> the monitoring loop]
    closed,         \* stop channels that are closed
    load,           \* the level the pods are at
    wish,           \* the user wants the ReplicaSet
    crashed,        \* "no", "close" (of a closed channel), "map" (iterated while written)
    displaced,      \* history: loops whose entry another handler overwrote or removed
    raced,          \* history: two handlers held the same entry
    stale,          \* history: loops still scaling by a number the map has dropped since
    changes, fails

etcdVars == <<store, deployed, applied, wish>>
events == <<rsEvents, dmEvents, asEvents>>
maps == <<replicasetMap, newest, deploymentMap, autoscalerMap, object2autoscaler>>
history == <<displaced, raced, stale>>
vars == <<etcdVars, events, maps, rest, loop, closed, load, crashed, history, changes, fails>>

Off == [pc |-> "off", target |-> "", min |-> 0, max |-> 0, reps |-> 0, ring |-> <<>>]

\* The Deployment and its ReplicaSet have just been applied.
Init ==
    /\ store = [k \in Keys |-> IF k = "own" THEN 1 ELSE Absent] /\ deployed = TRUE
    /\ rsEvents = <<[key |-> "own", replicas |-> 1]>> /\ dmEvents = <<"put">> /\ asEvents = <<>>
    /\ applied = [a \in Autoscalers |-> None]
    /\ replicasetMap = [k \in Keys |-> Absent] /\ newest = "own"
    /\ deploymentMap = FALSE /\ autoscalerMap = [a \in Autoscalers |-> None]
    /\ object2autoscaler = [t \in Targets |-> 0]
    /\ rest = [w \in {"as", "rs", "dm"} |-> None]
    /\ loop = [l \in Loops |-> Off] /\ closed = {} /\ load = 1 /\ wish = FALSE
    /\ crashed = "no" /\ displaced = {} /\ raced = {} /\ stale = {}
    /\ changes = 0 /\ fails = 0

Put(k, n) ==
    /\ Len(rsEvents) < MaxQueue
    /\ store' = [store EXCEPT ![k] = n]
    /\ rsEvents' = Append(rsEvents, [key |-> k, replicas |-> n])

-----------------------------------------------------------------------------
(* Users and the other controllers.                                        *)

User == changes < MaxChanges /\ changes' = changes + 1

\* userAddRS, and deleteRS of a ReplicaSet that has replicas.
ApplyReplicaSet ==
    /\ User
    /\ \E n \in 1..MaxReplicas : Put("rs", n)
    /\ wish' = TRUE
    /\ UNCHANGED <<deployed, applied, dmEvents, asEvents, maps, rest, loop, closed, load, crashed,
                   history, fails>>

DeleteReplicaSet ==
    /\ User /\ store["rs"] > 0
    /\ Put("rs", 0) /\ wish' = FALSE
    /\ UNCHANGED <<deployed, applied, dmEvents, asEvents, maps, rest, loop, closed, load, crashed,
                   history, fails>>

\* The ReplicaSet controller deletes one that is down to 0; the Deployment controller scales the
\* ReplicaSet of a deleted Deployment to 0.
ControllersDelete(k) ==
    /\ \/ store[k] = 0 /\ Put(k, Absent)
       \/ k = "own" /\ ~deployed /\ store[k] > 0 /\ Put(k, 0)
    /\ UNCHANGED <<deployed, applied, wish, dmEvents, asEvents, maps, rest, loop, closed, load, crashed,
                   history, changes, fails>>

DeleteDeployment ==
    /\ User /\ deployed
    /\ deployed' = FALSE /\ dmEvents' = Append(dmEvents, "delete")
    /\ UNCHANGED <<store, applied, wish, rsEvents, asEvents, maps, rest, loop, closed, load, crashed,
                   history, fails>>

ChangeAutoscaler(a, spec) ==
    /\ User /\ (spec # None \/ applied[a] # None)
    /\ applied' = [applied EXCEPT ![a] = spec]
    /\ asEvents' = Append(asEvents, [name |-> a, spec |-> spec])
    /\ UNCHANGED <<store, deployed, wish, rsEvents, dmEvents, maps, rest, loop, closed, load, crashed,
                   history, fails>>

LoadChanges ==
    /\ load' \in Levels \ {load}
    /\ UNCHANGED <<etcdVars, events, maps, rest, loop, closed, crashed, history, changes, fails>>

-----------------------------------------------------------------------------
(* The watches.                                                            *)

Held(l) == \E w \in DOMAIN rest : rest[w] # None /\ rest[w].do = "close" /\ rest[w].loop = l

\* A deletion has found the entry of the target: Del and close are to follow.
Found(w, target) ==
    LET l == object2autoscaler[target]
    IN  /\ rest' = [rest EXCEPT ![w] =
               IF l = 0 THEN None ELSE [do |-> "close", target |-> target, loop |-> l]]
        /\ raced' = IF l # 0 /\ Held(l) THEN raced \cup {l} ELSE raced

\* handleAutoscalerPut up to the lookup of the object, and handleAutoscalerDel.
WatchAutoscaler ==
    /\ rest["as"] = None /\ asEvents # <<>>
    /\ LET e == Head(asEvents)
           known == \/ e.spec.target = "rs" /\ replicasetMap["rs"] # Absent
                    \/ e.spec.target = "dm" /\ deploymentMap
       IN  \/ /\ e.spec # None
              /\ rest' = [rest EXCEPT !["as"] =
                     IF known THEN [do |-> "install", name |-> e.name, spec |-> e.spec] ELSE None]
              /\ UNCHANGED <<autoscalerMap, raced>>
           \/ /\ e.spec = None /\ autoscalerMap[e.name] # None
              /\ Found("as", autoscalerMap[e.name].target)
              /\ autoscalerMap' = [autoscalerMap EXCEPT ![e.name] = None]
           \/ /\ e.spec = None /\ autoscalerMap[e.name] = None
              /\ UNCHANGED <<rest, autoscalerMap, raced>>
    /\ asEvents' = Tail(asEvents)
    /\ UNCHANGED <<etcdVars, rsEvents, dmEvents, replicasetMap, newest, deploymentMap,
                   object2autoscaler, loop, closed, load, crashed, displaced, stale, changes, fails>>

Running(l) == loop[l].pc \notin {"off", "done"}

\* The rest of handleAutoscalerPut: the maps, and a new loop.
Install ==
    /\ rest["as"] # None /\ rest["as"].do = "install"
    /\ LET spec == rest["as"].spec
       IN  \E l \in Loops :
              /\ loop[l] = Off /\ \A m \in 1..(l - 1) : loop[m] # Off
              /\ loop' = [loop EXCEPT ![l] = [Off EXCEPT !.pc = "check", !.target = spec.target,
                                                         !.min = spec.min, !.max = spec.max]]
              /\ object2autoscaler' = [object2autoscaler EXCEPT ![spec.target] = l]
              /\ autoscalerMap' = [autoscalerMap EXCEPT ![rest["as"].name] = spec]
              /\ displaced' = displaced \cup ({object2autoscaler[spec.target]} \ {0})
    /\ rest' = [rest EXCEPT !["as"] = None]
    /\ UNCHANGED <<etcdVars, events, replicasetMap, newest, deploymentMap, closed, load, crashed, raced,
                   stale, changes, fails>>

\* Mutant: the entry stays.
EntryStays(target) == object2autoscaler

EntryDeleted(target) == [object2autoscaler EXCEPT ![target] = 0]

\* Mutant: the channel is not closed.
LeftOpen(l) == closed

Closed(l) == closed \cup {l}

\* The rest of a deletion: whatever entry is there goes, and the channel that was read is closed.
Close(w) ==
    /\ rest[w] # None /\ rest[w].do = "close"
    /\ LET l == rest[w].loop
       IN  /\ object2autoscaler' = EntryDeleted(rest[w].target)
           /\ displaced' = displaced \cup ({object2autoscaler[rest[w].target]} \ {0, l})
           /\ IF l \in closed
                 THEN crashed' = "close" /\ UNCHANGED closed
                 ELSE closed' = Closed(l) /\ UNCHANGED crashed
    /\ rest' = [rest EXCEPT ![w] = None]
    /\ UNCHANGED <<etcdVars, events, replicasetMap, newest, deploymentMap, autoscalerMap, loop, load,
                   raced, stale, changes, fails>>

\* Mutant: a ReplicaSet of 0 replicas stays in the map.
MapKeepsZero(e) == [replicasetMap EXCEPT ![e.key] = e.replicas]

\* watchReplicaset: 0 replicas count as deleted.
MapAfter(e) == [replicasetMap EXCEPT ![e.key] = IF e.replicas = 0 THEN Absent ELSE e.replicas]

Scaling(l) == loop[l].pc \in {"up", "down"}

\* A deployment loop may be iterating over the map, which SnapShot does not copy.
WatchReplicaset ==
    /\ rest["rs"] = None /\ rsEvents # <<>>
    /\ LET e == Head(rsEvents)
       IN  /\ replicasetMap' = MapAfter(e)
           /\ newest' = IF e.replicas > 0 THEN e.key ELSE newest
           /\ stale' = IF e.key = "rs" /\ e.replicas <= 0
                          THEN stale \cup {l \in Loops : loop[l].target = "rs" /\ Scaling(l)}
                          ELSE stale
           /\ IF e.key = "rs" /\ e.replicas = Absent THEN Found("rs", "rs") ELSE UNCHANGED <<rest, raced>>
    /\ rsEvents' = Tail(rsEvents)
    /\ crashed' \in {"no"} \cup {"map" : l \in {m \in Loops : loop[m].pc = "iter"}}
    /\ UNCHANGED <<etcdVars, dmEvents, asEvents, deploymentMap, autoscalerMap, object2autoscaler, loop,
                   closed, load, displaced, changes, fails>>

WatchDeployment ==
    /\ rest["dm"] = None /\ dmEvents # <<>>
    /\ deploymentMap' = (Head(dmEvents) = "put")
    /\ IF Head(dmEvents) = "delete" THEN Found("dm", "dm") ELSE UNCHANGED <<rest, raced>>
    /\ dmEvents' = Tail(dmEvents)
    /\ UNCHANGED <<etcdVars, rsEvents, asEvents, replicasetMap, newest, autoscalerMap,
                   object2autoscaler, loop, closed, load, crashed, displaced, stale, changes, fails>>

-----------------------------------------------------------------------------
(* The loops.                                                              *)

Goto(l, pc) == loop' = [loop EXCEPT ![l].pc = pc]
Unscaled == UNCHANGED <<etcdVars, events, maps, rest, closed, load, crashed, displaced, raced, changes>>

\* The channel is looked at once per round.
Stopped(l) ==
    /\ loop[l].pc = "check" /\ l \in closed
    /\ loop' = [loop EXCEPT ![l] = [Off EXCEPT !.pc = "done"]]
    /\ UNCHANGED <<stale, fails>> /\ Unscaled

\* getPodsResourcePercentage: a pod without data is left out, so that the average of the others
\* may be lower or higher, and no pods are at 0.
Measured(level) ==
    \/ level = load /\ UNCHANGED fails
    \/ level # load /\ fails < MaxFails /\ fails' = fails + 1

\* Mutant: a full ring takes nothing.
PushUntilFull(ring, level) == IF Len(ring) < RingSize THEN Append(ring, level) ELSE ring

\* RingQueue.Push.
Push(ring, level) ==
    IF Len(ring) < RingSize THEN Append(ring, level) ELSE Append(Tail(ring), level)

\* monitoringReplicasetLoop: the highest of the last levels decides.
ReplicasetRound(l) ==
    /\ loop[l].pc = "check" /\ loop[l].target = "rs" /\ l \notin closed
    /\ replicasetMap["rs"] # Absent
    /\ \E level \in {0, 1, 2} :
          /\ Measured(level)
          /\ LET ring == Push(loop[l].ring, level)
                 reps == replicasetMap["rs"]
                 high == \E i \in DOMAIN ring : ring[i] = 2
                 low == \A i \in DOMAIN ring : ring[i] = 0
                 pc == IF high /\ reps < loop[l].max THEN "up"
                       ELSE IF low /\ reps > loop[l].min THEN "down" ELSE "check"
             IN  loop' = [loop EXCEPT ![l].ring = ring, ![l].pc = pc,
                                      ![l].reps = IF pc = "check" THEN 0 ELSE reps]
    /\ UNCHANGED stale /\ Unscaled

\* The number of the next put.
NextReplicas(l) == IF loop[l].pc = "up" THEN loop[l].reps + 1 ELSE loop[l].reps - 1

\* Mutant: the number is taken back after every put.
TakenBack(l) == loop[l].reps

\* The number the loop goes on with after a put that succeeded.
AfterPut(l) == NextReplicas(l)

\* The bound it counts to.
Goal(l) == IF loop[l].pc = "up" THEN loop[l].max ELSE loop[l].min

\* One turn of the inner loop, which looks at neither stopCh nor the map; after a failed put the
\* number is tried again.
Scale(l) ==
    /\ Scaling(l)
    /\ LET done == AfterPut(l) = Goal(l)
       IN  \/ /\ Put("rs", NextReplicas(l))
              /\ loop' = [loop EXCEPT ![l].reps = IF done THEN 0 ELSE AfterPut(l),
                                      ![l].pc = IF done THEN "check" ELSE @]
              /\ stale' = IF done THEN stale \ {l} ELSE stale
              /\ UNCHANGED fails
           \/ /\ fails < MaxFails /\ fails' = fails + 1
              /\ UNCHANGED <<store, rsEvents, loop, stale>>
    /\ UNCHANGED <<deployed, applied, wish, dmEvents, asEvents, maps, rest, closed, load, crashed,
                   displaced, raced, changes>>

\* monitoringDeploymentLoop: SnapShot.
DeploymentRound(l) ==
    /\ loop[l].pc = "check" /\ loop[l].target = "dm" /\ l \notin closed
    /\ deploymentMap
    /\ Goto(l, "iter")
    /\ UNCHANGED <<stale, fails>> /\ Unscaled

\* getControlledRS: the newest of the ReplicaSets the Deployment owns.
ControlledRS == {k \in {"own", "ownuid"} : /\ replicasetMap[k] # Absent
                                           /\ k = newest \/ replicasetMap[newest] = Absent \/ newest = "rs"}

Choose(l) ==
    /\ loop[l].pc = "iter"
    /\ \/ ControlledRS = {} /\ Goto(l, "check") /\ UNCHANGED fails
       \/ \E k \in ControlledRS, level \in {0, 1, 2} :
             /\ Measured(level)
             /\ LET n == replicasetMap[k] + level - 1
                    ok == (level = 2 /\ n <= loop[l].max) \/ (level = 0 /\ n >= loop[l].min)
                IN  loop' = [loop EXCEPT ![l].pc = IF ok THEN "put" ELSE "check",
                                         ![l].reps = IF ok THEN n ELSE 0]
    /\ UNCHANGED stale /\ Unscaled

\* The put goes to rs.Name + rs.UID.
PutControlled(l) ==
    /\ loop[l].pc = "put"
    /\ loop' = [loop EXCEPT ![l].pc = "check", ![l].reps = 0]
    /\ \/ Put("ownuid", loop[l].reps) /\ UNCHANGED fails
       \/ fails < MaxFails /\ fails' = fails + 1 /\ UNCHANGED <<store, rsEvents>>
    /\ UNCHANGED <<deployed, applied, wish, dmEvents, asEvents, maps, rest, closed, load, crashed,
                   history, changes>>

-----------------------------------------------------------------------------
Alive == crashed = "no"
Environment ==
    /\ Alive
    /\ \/ ApplyReplicaSet \/ DeleteReplicaSet \/ DeleteDeployment \/ LoadChanges
       \/ \E a \in Autoscalers, spec \in Specs \cup {None} : ChangeAutoscaler(a, spec)
Controllers == Alive /\ \E k \in Keys : ControllersDelete(k)
Watch(w) ==
    /\ Alive
    /\ \/ w = "as" /\ (WatchAutoscaler \/ Install)
       \/ w = "rs" /\ WatchReplicaset
       \/ w = "dm" /\ WatchDeployment
       \/ Close(w)
Loop(l) ==
    /\ Alive
    /\ \/ Stopped(l) \/ ReplicasetRound(l) \/ Scale(l)
       \/ DeploymentRound(l) \/ Choose(l) \/ PutControlled(l)

Next ==
    \/ Environment \/ Controllers
    \/ \E w \in {"as", "rs", "dm"} : Watch(w)
    \/ \E l \in Loops : Loop(l)

\* Goroutines run.  Strong fairness for the loops: their puts wait for room in the bounded queue,
\* which the code's has not got.
Fairness ==
    /\ WF_vars(Controllers)
    /\ \A w \in {"as", "rs", "dm"} : WF_vars(Watch(w))
    /\ \A l \in Loops : SF_vars(Loop(l))

Spec == Init /\ [][Next]_vars
FairSpec == Spec /\ Fairness

-----------------------------------------------------------------------------
\* Every loop that runs can be stopped: its stop channel is closed already, or the entry of its
\* target leads to it, or a handler that read the entry is about to close it; unless a second
\* autoscaler of the target, or a handler between another's two steps, took the entry away.
LoopsCanBeStopped ==
    \A l \in Loops : Running(l) =>
       \/ l \in closed \cup displaced
       \/ object2autoscaler[loop[l].target] = l
       \/ Held(l)

\* The controller closes no channel twice, unless the autoscaler and its object are deleted at
\* the same time and both handlers have read the entry.
ClosedOnce == crashed = "close" => raced # {}

\* A deleted ReplicaSet is put again only by a loop that began to scale it before the deletion
\* reached the controller's map (such a loop counts on to its bound).
DeletedStaysDeleted ==
    [][~wish' /\ store["rs"] <= 0 /\ store'["rs"] > 0
         => \/ \E l \in stale : loop[l] # loop'[l]
            \/ \E i \in DOMAIN rsEvents : rsEvents[i].key = "rs" /\ rsEvents[i].replicas <= 0]_vars

\* The inner loops come to an end: a loop whose channel is closed ends.
StoppedLoopEnds ==
    \A l \in Loops : <>[](l \in closed => loop[l].pc = "done" \/ ~Alive)

OnlyLoop(l) ==
    /\ Running(l) /\ l \notin closed /\ loop[l].target = "rs"
    /\ \A m \in Loops \ {l} : ~Running(m) \/ loop[m].target # "rs"

\* The one loop of a ReplicaSet that stays busy scales it to the maximum, that of an idle one to
\* the minimum, whatever the user asked for in between.
ScalesToBound ==
    \A l \in Loops :
       /\ (<>[](load = 2 /\ wish /\ Alive /\ OnlyLoop(l))) => <>[](store["rs"] >= loop[l].max)
       /\ (<>[](load = 0 /\ wish /\ Alive /\ OnlyLoop(l))) => <>[](store["rs"] <= loop[l].min)

=============================================================================
