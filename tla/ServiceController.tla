-------------------------- MODULE ServiceController --------------------------
(***************************************************************************)
(* The Service controller on one Service name.                             *)
(*                                                                         *)
(* Manager.watchServiceConfig handles the puts of the Service's            *)
(* configuration one by one; every apply makes a RuntimeService (a         *)
(* "generation"; a modification deletes the old one first).  A generation  *)
(* owns a syncLoop, a timer goroutine and a command channel, and keeps the *)
(* pods it selected; it stores them in the runtime entry of the Service,   *)
(* which the generations share and the kube-proxies watch.                 *)
(*                                                                         *)
(* Pods are the ones that match the selector, numbered in key order.  A    *)
(* pod is Running with its latest IP or it is Down, which stands for every *)
(* other phase and for no runtime entry: a poll treats them alike.         *)
(*                                                                         *)
(* rwLock is held across a step only by a syncLoop between its poll and    *)
(* selectPods and by DeleteService while it waits on timerStopChan.        *)
(***************************************************************************)
EXTENDS Naturals, Sequences

CONSTANTS
    NumPods,       \* pods that match the selector
    MaxEndpoints,  \* pods a Service selects at most (5 in selectPods)
    MaxStarts,     \* bound: how often each pod starts; every start is a new IP
    MaxApplies,    \* bound: how often the Service is applied
    MaxDeletes,    \* bound: how often it is deleted
    MaxFails       \* bound: requests to the API server that fail (those of one poll count once)

ASSUME ServiceAssumption ==
    /\ NumPods \in Nat /\ MaxEndpoints \in Nat \ {0} /\ MaxStarts \in Nat
    /\ MaxApplies \in Nat /\ MaxDeletes \in Nat /\ MaxFails \in Nat

Pods == 1..NumPods
KeyOrder == [i \in Pods |-> i]
Ips == 1..MaxStarts
Gens == 1..MaxApplies
NoGen == 0
Endpoint == [pod : Pods, ip : Ips]
\* The phase of a Service as the user writes it: the empty string.
Unset == ""
ServicePhases == {Unset, "Running", "Failed"}
NoEntry == [gen |-> NoGen, endpoints |-> <<>>, phase |-> Unset]

VARIABLES
    starts,       \* how often each pod has started: the number of its latest IP
    running,      \* the pods whose runtime entry says Running
    svcEvents,    \* puts of the Service's configuration the manager has not seen yet
    manager,      \* watchServiceConfig: [at, gen, create]
    serviceMap,   \* Manager.serviceMap at this name
    chosen,       \* RuntimeService.pods, with the IP each had when it was selected
    bad,          \* the pods whose cached phase is not Running; only selectPods drops them
    spec,         \* serviceConfig.Spec.PodNameAndIps
    phase,        \* serviceConfig.Status.Phase
    canPollSend,
    polls,        \* Poll commands in commandChan
    closed,       \* commandChan is closed
    syncLoop,     \* "off", "idle", "select" (holding rwLock) or "exited"
    timer,        \* "off", "idle", "wantLock" or "exited"
    entry,        \* etcd: the runtime entry of the Service, or NoEntry
    late,         \* history: generations deleted with a poll still in commandChan, or
                  \* whose entry could not be deleted
    missed,       \* history: generations whose last change of the entry was not stored
    applies, deletes, fails

podVars == <<starts, running>>
genVars == <<chosen, bad, spec, phase, canPollSend, polls, closed, syncLoop, timer>>
boundVars == <<applies, deletes>>
putVars == <<entry, missed, fails>>
vars == <<podVars, svcEvents, manager, serviceMap, genVars, putVars, late, boundVars>>

ManagerIdle == [at |-> "idle", gen |-> NoGen, create |-> NoGen]

Init ==
    /\ starts = [p \in Pods |-> 0] /\ running = {}
    /\ svcEvents = <<>>
    /\ manager = ManagerIdle /\ serviceMap = NoGen
    /\ chosen = [g \in Gens |-> <<>>] /\ bad = [g \in Gens |-> {}]
    /\ spec = [g \in Gens |-> <<>>] /\ phase = [g \in Gens |-> Unset]
    /\ canPollSend = [g \in Gens |-> FALSE]
    /\ polls = [g \in Gens |-> 0] /\ closed = [g \in Gens |-> FALSE]
    /\ syncLoop = [g \in Gens |-> "off"] /\ timer = [g \in Gens |-> "off"]
    /\ entry = NoEntry /\ late = {} /\ missed = {}
    /\ applies = 0 /\ deletes = 0 /\ fails = 0

Stopping(g) == manager.at = "stopping" /\ manager.gen = g
LockFree(g) == syncLoop[g] # "select" /\ ~Stopping(g)
Names(endpoints) == {endpoints[i].pod : i \in DOMAIN endpoints}

-----------------------------------------------------------------------------
(* The pods and the user.                                                  *)

PodStarts(p) ==
    /\ p \notin running /\ starts[p] < MaxStarts
    /\ starts' = [starts EXCEPT ![p] = @ + 1]
    /\ running' = running \cup {p}
    /\ UNCHANGED <<svcEvents, manager, serviceMap, genVars, putVars, late, boundVars>>

PodStops(p) ==
    /\ p \in running
    /\ running' = running \ {p}
    /\ UNCHANGED <<starts, svcEvents, manager, serviceMap, genVars, putVars, late, boundVars>>

\* AddService puts the configuration.
ApplyService ==
    /\ applies < MaxApplies
    /\ applies' = applies + 1
    /\ svcEvents' = Append(svcEvents, applies + 1)
    /\ UNCHANGED <<podVars, manager, serviceMap, genVars, putVars, late, deletes>>

\* deleteService puts it with Phase DELETED.
DeleteService ==
    /\ applies > 0 /\ deletes < MaxDeletes
    /\ deletes' = deletes + 1
    /\ svcEvents' = Append(svcEvents, NoGen)
    /\ UNCHANGED <<podVars, manager, serviceMap, genVars, putVars, late, applies>>

-----------------------------------------------------------------------------
(* selectPods.                                                             *)

\* The elements of s that are in S, in their order.
Filter(s, S) ==
    LET f[i \in 0..Len(s)] ==
           IF i = 0 THEN <<>> ELSE IF s[i] \in S THEN Append(f[i - 1], s[i]) ELSE f[i - 1]
    IN  f[Len(s)]

\* The pods that are still all right, filled up with running ones in key order.
Selected(g) ==
    LET ok == Filter(chosen[g], {e \in Endpoint : e.pod \notin bad[g]})
        fresh == Filter(KeyOrder, running \ Names(ok))
        room == IF Len(ok) < MaxEndpoints THEN MaxEndpoints - Len(ok) ELSE 0
        added == SubSeq(fresh, 1, IF Len(fresh) < room THEN Len(fresh) ELSE room)
    IN  ok \o [i \in DOMAIN added |-> [pod |-> added[i], ip |-> starts[added[i]]]]

\* Mutant: only the length is compared.
LengthsDiffer(old, new) == Len(old) # Len(new)

\* compareOldAndNew: by length and name; the IPs are not looked at.
CompareOldAndNew(old, new) == Len(old) # Len(new) \/ ~(Names(old) \subseteq Names(new))

\* The put of the runtime Service; its error is kept in service.Err, which nobody reads.
UpdateRuntimeService(e) ==
    \/ entry' = e /\ missed' = missed \ {e.gen} /\ UNCHANGED fails
    \/ /\ fails < MaxFails /\ fails' = fails + 1
       /\ missed' = missed \cup {e.gen} /\ UNCHANGED entry

\* selectPods returns before it has done anything.
ListFails ==
    /\ fails < MaxFails /\ fails' = fails + 1
    /\ UNCHANGED <<chosen, bad, spec, phase, entry, missed>>

Select(g, new, isInit) ==
    LET lost == new = <<>> /\ (spec[g] # <<>> \/ isInit)
        found == new # <<>> /\ CompareOldAndNew(chosen[g], new)
        newSpec == IF found THEN new ELSE IF lost THEN <<>> ELSE spec[g]
        newPhase == IF found THEN "Running" ELSE IF lost THEN "Failed" ELSE phase[g]
    IN  /\ chosen' = [chosen EXCEPT ![g] = new]
        /\ bad' = [bad EXCEPT ![g] = {}]
        /\ spec' = [spec EXCEPT ![g] = newSpec]
        /\ phase' = [phase EXCEPT ![g] = newPhase]
        /\ IF lost \/ found \/ isInit
              THEN UpdateRuntimeService([gen |-> g, endpoints |-> newSpec, phase |-> newPhase])
              ELSE UNCHANGED putVars

SelectPods(g, isInit) == ListFails \/ \E new \in {Selected(g)} : Select(g, new, isInit)

-----------------------------------------------------------------------------
(* The manager: watchServiceConfig.                                        *)

\* A deletion of an unknown Service is ignored; a known one is deleted first.
WatchServiceConfig ==
    /\ manager.at = "idle" /\ svcEvents # <<>>
    /\ LET create == Head(svcEvents) IN
          manager' = IF serviceMap # NoGen
                        THEN [at |-> "lock", gen |-> serviceMap, create |-> create]
                        ELSE IF create # NoGen
                                THEN [at |-> "new", gen |-> NoGen, create |-> create]
                                ELSE ManagerIdle
    /\ svcEvents' = Tail(svcEvents)
    /\ UNCHANGED <<podVars, serviceMap, genVars, putVars, late, boundVars>>

\* Mutant: without rwLock.
LockServiceAnyway ==
    /\ manager.at = "lock"
    /\ manager' = [manager EXCEPT !.at = "stopping"]
    /\ UNCHANGED <<podVars, svcEvents, serviceMap, genVars, putVars, late, boundVars>>

\* RuntimeService.DeleteService takes rwLock ...
LockService ==
    /\ manager.at = "lock" /\ LockFree(manager.gen)
    /\ manager' = [manager EXCEPT !.at = "stopping"]
    /\ UNCHANGED <<podVars, svcEvents, serviceMap, genVars, putVars, late, boundVars>>

\* ... hands `true` to the timer goroutine, closes the channel and deletes the entry.
StopService ==
    /\ manager.at = "stopping" /\ timer[manager.gen] = "idle"
    /\ timer' = [timer EXCEPT ![manager.gen] = "exited"]
    /\ closed' = [closed EXCEPT ![manager.gen] = TRUE]
    /\ \/ /\ entry' = NoEntry /\ UNCHANGED fails
          /\ late' = IF polls[manager.gen] > 0 THEN late \cup {manager.gen} ELSE late
       \/ /\ fails < MaxFails /\ fails' = fails + 1 /\ UNCHANGED entry
          /\ late' = late \cup {manager.gen}
    /\ serviceMap' = NoGen
    /\ manager' = IF manager.create = NoGen THEN ManagerIdle ELSE [manager EXCEPT !.at = "new"]
    /\ UNCHANGED <<podVars, svcEvents, chosen, bad, spec, phase, canPollSend, polls, syncLoop,
                   missed, boundVars>>

NewRuntimeService ==
    /\ manager.at = "new"
    /\ LET g == manager.create IN
          /\ SelectPods(g, TRUE)
          /\ syncLoop' = [syncLoop EXCEPT ![g] = "idle"]
          /\ timer' = [timer EXCEPT ![g] = "idle"]
          /\ canPollSend' = [canPollSend EXCEPT ![g] = TRUE]
          /\ serviceMap' = g
    /\ manager' = ManagerIdle
    /\ UNCHANGED <<podVars, svcEvents, polls, closed, late, boundVars>>

-----------------------------------------------------------------------------
(* A generation's timer goroutine and syncLoop.                            *)

Tick(g) ==
    /\ timer[g] = "idle" /\ LockFree(g) /\ canPollSend[g]
    /\ polls' = [polls EXCEPT ![g] = @ + 1]
    /\ canPollSend' = [canPollSend EXCEPT ![g] = FALSE]
    /\ UNCHANGED <<podVars, svcEvents, manager, serviceMap, chosen, bad, spec, phase, closed,
                   syncLoop, timer, putVars, late, boundVars>>

\* A tick while DeleteService holds rwLock.
TickBlocks(g) ==
    /\ timer[g] = "idle" /\ Stopping(g)
    /\ timer' = [timer EXCEPT ![g] = "wantLock"]
    /\ UNCHANGED <<podVars, svcEvents, manager, serviceMap, chosen, bad, spec, phase, canPollSend,
                   polls, closed, syncLoop, putVars, late, boundVars>>

\* Mutant: a full Service is not checked.
CallSelectIfRoom(g, down) == Len(chosen[g]) < MaxEndpoints

\* Mutant: selectPods only replaces pods that are down.
CallSelectIfDown(g, down) == down # {}

CallSelect(g, down) == down # {} \/ Len(chosen[g]) < MaxEndpoints

\* PollCommand up to selectPods: GetRuntimePod of every selected pod.  A pod that could not be
\* read keeps the phase it had in the cache, and so does one that is Running again.
Poll(g) ==
    /\ syncLoop[g] = "idle" /\ polls[g] > 0 /\ LockFree(g)
    /\ polls' = [polls EXCEPT ![g] = @ - 1]
    /\ \E unread \in SUBSET Names(chosen[g]) :
          LET down == Names(chosen[g]) \ (running \cup unread) IN
          /\ unread # {} => fails < MaxFails
          /\ fails' = IF unread = {} THEN fails ELSE fails + 1
          /\ bad' = [bad EXCEPT ![g] = @ \cup down]
          /\ IF CallSelect(g, down)
                THEN syncLoop' = [syncLoop EXCEPT ![g] = "select"] /\ UNCHANGED canPollSend
                ELSE canPollSend' = [canPollSend EXCEPT ![g] = TRUE] /\ UNCHANGED syncLoop
    /\ UNCHANGED <<podVars, svcEvents, manager, serviceMap, chosen, spec, phase, closed, timer,
                   entry, missed, late, boundVars>>

\* Mutant: rwLock is not released.
PollSelectKeepsLock(g) ==
    /\ syncLoop[g] = "select"
    /\ SelectPods(g, FALSE)
    /\ canPollSend' = [canPollSend EXCEPT ![g] = TRUE]
    /\ UNCHANGED <<podVars, svcEvents, manager, serviceMap, polls, closed, syncLoop, timer, late,
                   boundVars>>

PollSelect(g) ==
    /\ syncLoop[g] = "select"
    /\ SelectPods(g, FALSE)
    /\ canPollSend' = [canPollSend EXCEPT ![g] = TRUE]
    /\ syncLoop' = [syncLoop EXCEPT ![g] = "idle"]
    /\ UNCHANGED <<podVars, svcEvents, manager, serviceMap, polls, closed, timer, late, boundVars>>

\* The channel is closed and drained; what the RuntimeService held is garbage.
SyncLoopExit(g) ==
    /\ syncLoop[g] = "idle" /\ polls[g] = 0 /\ closed[g]
    /\ syncLoop' = [syncLoop EXCEPT ![g] = "exited"]
    /\ chosen' = [chosen EXCEPT ![g] = <<>>] /\ bad' = [bad EXCEPT ![g] = {}]
    /\ spec' = [spec EXCEPT ![g] = <<>>] /\ phase' = [phase EXCEPT ![g] = Unset]
    /\ canPollSend' = [canPollSend EXCEPT ![g] = FALSE]
    /\ missed' = missed \ {g}
    /\ UNCHANGED <<podVars, svcEvents, manager, serviceMap, polls, closed, timer, entry, late, fails,
                   boundVars>>

-----------------------------------------------------------------------------
Manager == WatchServiceConfig \/ LockService \/ StopService \/ NewRuntimeService
SyncLoop(g) == Poll(g) \/ PollSelect(g) \/ SyncLoopExit(g)

Next ==
    \/ \E p \in Pods : PodStarts(p) \/ PodStops(p)
    \/ ApplyService \/ DeleteService
    \/ Manager
    \/ \E g \in Gens : Tick(g) \/ TickBlocks(g) \/ SyncLoop(g)

\* The broker delivers, goroutines run, a ticker never stops by itself, and a Go mutex does
\* not starve a goroutine that waits for it (hence strong fairness on LockService).
Fairness ==
    /\ WF_vars(Manager) /\ SF_vars(LockService)
    /\ \A g \in Gens : WF_vars(Tick(g)) /\ WF_vars(SyncLoop(g))

Spec == Init /\ [][Next]_vars
FairSpec == Spec /\ Fairness

-----------------------------------------------------------------------------
\* Every variable has its type; in particular canPollSend keeps a generation at one Poll in its
\* channel, so that the timer goroutine never blocks on it holding rwLock.
TypeOK ==
    /\ starts \in [Pods -> 0..MaxStarts] /\ running \subseteq Pods
    /\ svcEvents \in Seq(Gens \cup {NoGen})
    /\ manager \in [at : {"idle", "lock", "stopping", "new"}, gen : Gens \cup {NoGen},
                    create : Gens \cup {NoGen}]
    /\ serviceMap \in Gens \cup {NoGen}
    /\ chosen \in [Gens -> Seq(Endpoint)] /\ bad \in [Gens -> SUBSET Pods]
    /\ spec \in [Gens -> Seq(Endpoint)] /\ phase \in [Gens -> ServicePhases]
    /\ canPollSend \in [Gens -> BOOLEAN]
    /\ polls \in [Gens -> 0..1]
    /\ closed \in [Gens -> BOOLEAN]
    /\ syncLoop \in [Gens -> {"off", "idle", "select", "exited"}]
    /\ timer \in [Gens -> {"off", "idle", "wantLock", "exited"}]
    /\ entry \in [gen : Gens \cup {NoGen}, endpoints : Seq(Endpoint), phase : ServicePhases]
    /\ late \subseteq Gens /\ missed \subseteq Gens /\ fails \in 0..MaxFails
    /\ applies \in 0..MaxApplies /\ deletes \in 0..MaxDeletes

\* The entry of the current Service names exactly the pods its RuntimeService has selected,
\* none of them twice (kube-proxy keys its chains by the pod's name), and is Failed exactly when
\* there are none, unless a deleted generation wrote it later or the put of the last change
\* failed: the next change makes good for it, and nothing else does.
EntryIsSelection ==
    serviceMap \notin missed \cup {NoGen} /\ entry.gen = serviceMap =>
       /\ Names(entry.endpoints) = Names(chosen[serviceMap])
       /\ \A i, j \in DOMAIN entry.endpoints :
             i # j => entry.endpoints[i].pod # entry.endpoints[j].pod
       /\ entry.phase = IF chosen[serviceMap] = <<>> THEN "Failed" ELSE "Running"

\* The entry belongs to the RuntimeService in serviceMap, unless a deleted one stored it: one
\* that had a poll in its channel when DeleteService closed it, which syncLoop still handles,
\* or one whose entry DeleteService could not delete.  Such a ghost outlives a deletion, or
\* replaces the entry of the Service applied after it.
EntryHasOwner == entry.gen \in {NoGen, serviceMap} \cup late

\* DeleteService waits for the timer goroutine, which waits for rwLock.
StopCycle == \E g \in Gens : Stopping(g) /\ timer[g] = "wantLock"

\* A Service that is left alone while some pod stays running ends Running, unless the put failed.
RecoversWithPods ==
    \A p \in Pods :
       <>[](manager.at = "idle" /\ p \in running /\ serviceMap \notin missed) =>
          <>[](serviceMap # NoGen /\ entry.gen = serviceMap => entry.phase = "Running")

\* A pod that stops and stays down does not stay an endpoint of the Service, unless the put
\* failed.
DeadPodIsDropped ==
    \A p \in Pods :
       <>[](manager.at = "idle" /\ p \notin running /\ serviceMap \notin missed) =>
          <>[](entry.gen = serviceMap => p \notin Names(entry.endpoints))

\* What the report says of fault tolerance, read at the IPs kube-proxy forwards to: once a pod
\* stays running, the Service's endpoint for it, if any, has the pod's IP.
EndpointsFollowPods ==
    \A p \in Pods :
       <>[](manager.at = "idle" /\ p \in running) =>
          <>[](entry.gen = serviceMap =>
                  \A i \in DOMAIN entry.endpoints :
                     entry.endpoints[i].pod = p => entry.endpoints[i].ip = starts[p])

\* Every event is handled in the end, except through the one cycle of timerStopChan and
\* rwLock.
ManagerProceeds == []<>(manager.at = "idle" \/ StopCycle)

=============================================================================
