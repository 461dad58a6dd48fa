# A TLA+ verification of minik8s

minik8s is a small Kubernetes in Go: an API server over etcd, controllers and a
scheduler that watch etcd through RabbitMQ, and kubelets and kube-proxies that carry
out on every worker node what etcd asks for. This directory holds TLA+ models of its
control logic, the TLC runs that check them, and TLAPS proofs of the main invariants.
`PROJECT.json` maps every definition to the lines it models, lists the runs, a mutant
for every property, the hazards of the code and the findings. Paths below are under
`src/`.

## 1. Inventory

| Component | State it keeps | Operations | Correct when | Model |
|---|---|---|---|---|
| API server handlers (`pkg/apiserver/app`) | none of its own; etcd | read-modify-write of podConfig, rsConfig, service..., generic put/get/del | an accepted request is not undone by a concurrent one without a trace | PodDispatch, ReplicaSetController, ServiceController, Autoscaler, Gateway |
| Watch registry (`httpserver.go`), list-watch (`pkg/listerwatcher`), store (`pkg/etcdstore`) | tickets and a cancel function per watched key | watch, withdraw, daemon | every event after a watch reaches its watcher; a watch nobody holds is cancelled | WatchRegistry |
| Messaging (`pkg/messaging`) | redo log of subscriptions | Subscribe, Unsubscribe, reconnect, recover | subscriptions survive a reconnection, stopped ones do not | Subscriber; the publisher in WatchRegistry |
| Scheduler (`pkg/scheduler`) | queue of pods without a node | watchNewPod, worker, schedulePod | every pod gets a node | PodDispatch |
| Kubelet (`pkg/kubelet/kubelet.go`, podManager, podConfig) | updates channel, name2pod, Err | watchPod, syncLoop, HandlePod* | runs exactly the pods assigned to it | PodDispatch |
| Pod runtime (`pkg/kubelet/pod`, podWorker, dockerClient) | phase, container ids, two channels, three goroutines per incarnation | NewPodfromConfig, DeletePod, SyncLoop, listeningResponse, StartProbe, releaseResource | containers and runtime entry follow the pod; nobody blocks for ever | PodRuntime |
| ReplicaSet controller (`pkg/controller/replicaset`) | cp map, queue of keys | addRS, podOperation, syncReplicaSet, manageReplicas, putReplicaSet | the number of pods becomes the number asked for | ReplicaSetController |
| Deployment controller (`pkg/controller/deployment`) | dm2rs, replicasetMap, one goroutine per modification | putDeployment, update, deleteDeployment | rolling updates stay within surge and availability and end | DeploymentController |
| Service controller (`pkg/service`) | serviceMap; per Service the selected pods, a timer, a channel | watchServiceConfig, selectPods, poll, DeleteService; DNS and gateway | endpoints are the live pods; a deleted Service leaves nothing | ServiceController; DNS and gateway in Gateway |
| Kube-proxy (`pkg/kubeproxy`) | chains per Service, iptables | watchRuntimeService, UpdateRule, PreSetService, DNS files | iptables route to exactly the endpoints, evenly | KubeProxy, which implements ServiceRouting; DNS files in Gateway |
| Autoscaler (`pkg/controller/autoscaler`) | maps of objects, autoscalers, locks; a loop per autoscaler | put/del of autoscalers and objects, monitoring loops | every loop can be stopped and ends, a deleted object stays deleted, replicas reach the bound the load calls for | Autoscaler |
| Job controller, GPU runner | accounts | putJob | one pod per job | not modelled |
| Node and cluster IP allocation (`pkg/etcdstore/*ConfigStore`) | name to node, name to IP | AddNewNode, DeleteNode, JudgeAndAllocClusterIp | names and IPs are unique | not modelled (registration of the node: KubeProxy) |
| Mesh (`pkg/mesh`) | endpoint weights | UpsertEndpoints, GetEndPoint, socket proxy | choice follows the weights | not modelled |
| netSupport, monitor, kubectl, utilities | - | shell commands, metrics, parsing, a locked map and queue | - | not modelled, except the ring queue and SnapShot (Autoscaler) |

**How they interact.** All state that is shared lives in etcd and is written by HTTP
requests to the API server. Every put or removal under a watched prefix is published
to a RabbitMQ exchange; a subscriber calls its handler for one event after the other.
So each component sees every change of a key in order, but different components (and
two subscriptions of one component) are at different points of that order, and a
handler that reads etcd reads something newer than the event it handles.

**What is hard here.** Decisions on state that is stale when they are carried out
(watchPod against the queued updates, the ReplicaSet worker against pods that have not
started, the scheduler's copy of a pod, the autoscaler's count of replicas, the object a
DNS writer puts back); read-modify-write across two requests; goroutines that share what
is keyed by a *name* or a *number* (container names, runtime entries, SEP chains, ticket
numbers, slots of the redo log) although they belong to different owners; a lock held
while waiting on a channel whose receiver wants the lock (pod.go, runtimerService.go); a
restart that keeps half of the state (the nat table, etcd) and loses the other (maps,
tickets, subscriptions); requests that fail, or succeed and are not answered, in the
middle of a sequence. The full list, with lines, is "hazards" in `PROJECT.json`.

## 2. Modules

Each component module declares its bounds as CONSTANTS (every one is commented
"bound:"), has one action per handler or atomic step, and states its properties at the
end. `MC*.tla` only names sets for the configurations. No definition is replaced by a
configuration. "Mutant" definitions are plausible bugs, used only to show that each
property can fail. `*_proofs.tla` extends a component's module with its inductive invariants,
theorems and proofs (section 4).

**PodDispatch** - one pod's configuration from kubectl to the nodes. `podConfig` is the
etcd entry (version of the apply, node, deleted); `request` is the pod an AddPod or
deletePod handler has read and will put; `schedEvents`, `events[n]` are undelivered
events; `schedQueue`, `updates[n]` the Go queues; `name2pod[n]`, `Err[n]` the kubelet.
The three host selections are a choice of any registered node. The updates channel holds
at most `UpdatesCap` entries and watchPod blocks on a full one. schedulePod may fail
(`SchedulePodFails`): the pod is dequeued and forgotten, and `fails` counts it, which the
liveness property excepts.

**PodRuntime** - successive incarnations ("generations") of one pod name on one node.
Per incarnation: the worker (which carries out docker calls one step at a time), the
listener and the prober; shared by name: the container group in `docker` and the runtime
entry `etcd`. Docker, the volumes and the API server may fail according to `Faults`. The
containers of a pod are one group: a loop over them that fails in the middle may have
stopped the group or not, and has not removed it (`Stopped`).
Critical sections of `rwLock` are single actions, except the two that hold the lock
while waiting.

**ReplicaSetController** - one ReplicaSet: the user's rsConfig, the runtime copy, `cp`,
the queue, and the worker, one request at a time: list, each creation or deletion, put;
pods become visible when a kubelet uploads them. podOperation is split where it reads the
runtime ReplicaSet. Each request may fail. A list that fails counts as an empty one,
because its error is dropped; the errors of creations and deletions are logged and the
sync goes on to its put, whose error ends in the worker's log. `lost` counts the failures
after which nothing makes the controller look again.

**DeploymentController** - one Deployment: `putEvents` and `delEvents` are separate
subscriptions; each modification is a goroutine with its locals in `upd[r]`; every
request is answered, refused, or carried out and not answered. `calm` is a history
variable: so far the user waited for each change before the next.

**ServiceController** - one Service name and the RuntimeServices ("generations") its
applies make; `entry` is the runtime Service in etcd, tagged with the generation that
wrote it. Pods are Running with a given IP, or down. A poll's GetRuntimePod calls are
one step, the list and the rest of selectPods another, so pods may change between them.
Every request of a RuntimeService may fail: a GetRuntimePod leaves the pod's cached phase
as it was, a list ends selectPods before it has done anything, a put leaves the entry out
of date (`missed` names the generation whose selection is not in etcd until the next
difference), a deletion leaves the entry behind. `late` is the history of the generations
deleted with a poll still in their channel, or whose entry stayed. The loops of selectPods
over the cached and the listed pods are one recursive function, `Filter`, so that what
they compute can be proved about.

**KubeProxy** - one node's kube-proxy over the nat table. `nat` maps a chain to its rules.
An event (and Boot) becomes a `plan` of iptables commands, and `Execute` runs one of them
per step, because the kernel uses the table after each and kube-proxy may die in between.
A command is refused when iptables refuses it (a chain that exists, is missing, is referred
to or not empty); its `scope` says which of the following commands the code then skips: the
rest of the DeleteRule it belongs to, or none. Commands do not fail for other reasons. A
crash loses `svcChains`, the plan and the events and keeps `nat`; a restart finds the node
registered, so that PreSetService lists nothing, and SERVICE in the table, so that Boot does
nothing. The history variables name the Services a property excepts: `void` (met another's
SEP chain, share one between two ports with the same target port, were known to or being
handled by a kube-proxy that died; all of them when it died in Boot with SERVICE made and
not yet entered from OUTPUT and PREROUTING, which no later Boot repairs), `outdated` (an
update changed what UpdateRule does not look at), `missed` (changed while nobody watched).

**ServiceRouting** - the abstract specification of kube-proxy: a Service is unpublished
or has, per port, a list of distinct addresses with an even spread. One Service at a time
is `changing`, in steps: a port appears with its final list and disappears as a whole, and
an update meanwhile reaches only addresses it reached before or is to reach; no other
Service is touched; the change ends with the table it began for. KubeProxy instantiates it
with `routes` computed by following the rules of the table from OUTPUT and PREROUTING over
SERVICE to DNAT (an endpoint entered before its DNAT rule leads nowhere) and `changing`
taken from what kube-proxy remembers; `ImplementsRouting` is its specification.

**WatchRegistry** - watching one key, from etcd to the handlers: tickets, the daemon that
installs a watch after the request was answered, the etcd watch with its publishing
goroutine (a cancelled one still publishes what it holds), the exchange, Watch and
WatchNonBlocking of the clients. The API server may restart, after which numbers are sold
again from 1, and the publisher may lose its connection (a Publish between a failed dial
and the next panics, which is a restart). A client's own connection may drop: its queue is
auto-delete, and what was in it or comes before recover binds a new one is lost (`Rebind`;
how recover does it is Subscriber's). An etcd watch does not end by itself. `leaked`,
`robbed`, `troubled` are the histories of the cases in which a ticket or an event goes astray.

**Subscriber** - the subscriptions of one process over a connection that drops:
Subscribe in three steps (open, log, NotifyClose), its stop goroutine, the redo log, and
the rerun goroutine per connection with reconnect and recover. The amqp library's
notification, which waits for each receiver in turn, is modelled from its use (`Wedged`:
it waits for a goroutine that has returned). A Subscribe that meets a wedged connection
waits for ever on its mutex, and recover with it (`Stuck`); the liveness properties except
that, and nothing else about goroutines left over from older connections. `lost`, `doubled`
are histories.

**Autoscaler** - one ReplicaSet, one Deployment with its ReplicaSet, the three watches
(a handler's read of object2autoscaler and its deletion are two steps, so that handlers
of different watches cross) and the two kinds of monitoring loop. What is measured is a
level: above some bound (2), below all (0), between (1); a pod without data is left out of
the average, which may then be any level. `displaced`, `raced`, `stale`
are histories. `crashed` is the close of a closed channel, or a map iterated while it is
written, which SnapShot makes possible.

**Gateway** - one DnsAndTrans from apply to the nginx directory and CoreDNS file of every
node and the gateway's Service, through the phases "", FileCreated, ServiceCreated and
Delete. Writers and manager put back the object they were told of. The gateway's Service
is removed and made anew when it is applied again. `lagged` (the user's
request overtook work on an earlier one) and `dropped` (a request failed that nobody
repeats) are histories.

They are separate modules because the components meet only in etcd; where one needs
another it keeps the other's visible effect as a nondeterministic action
(ReplicaSetController's kubelets, ServiceController's pods, KubeProxy's store). PodDispatch ends where
PodRuntime begins: `name2pod`.

## 3. Runs

| Run | Bounds | What it shows |
|---|---|---|
| pod_dispatch | 2 nodes, 1 kubelet, 2 concurrent requests, 3 applies, 1 deletion, channel of 1, 1 failed request | A kubelet that has caught up runs the pod assigned to it (`AssignedPodRuns`); if it runs an old version, `Err` is set (`LostUpdateLeavesError`); a pod without a node gets one unless the scheduler's request for it failed (`UnassignedGetsNode`). |
| pod_runtime | 2 incarnations, docker calls fail | Channels hold at most 3 messages of 100 (`ChannelsNeverFill`), probes carry ids, containers are orphaned only if DeletePod overtook ADD_POD or docker refused, a left-over runtime entry is always a resurrected pod, Pending ends, deletion ends (except by the stopChan cycle). |
| pod_runtime_faults | 2 incarnations, every external call fails | A pod that exited is not taken for alive again, neither in memory nor by the entry IsPodActive reads, except by the slow upload of its own creation (pod.go:183) or another incarnation's listener (`ExitedIsFinal`). |
| replica_set | 4 pod keys, up to 2 replicas, 1 death or failed request | Over-creation is corrected and never over-corrected (`NeverDeletesTooMany`), and the number asked for is reached (`SteadyConverges`) unless a request failed that nothing repeats (`lost`). |
| deployment | up to 2 replicas, surge 0-1, 3 applies, 1 removal, 2 failed requests | `SurgeRespected`, `StaysAvailable`, `RolloutCompletes` for changes that do not overlap. |
| service | 2 pods for 1 place, 2 starts, 2 generations, 1 deletion, 1 failed request | The entry is the current selection (unless its put failed) and belongs to the deployed Service (or to one deleted with a poll pending or whose entry could not be deleted); a Service recovers when a pod starts, drops a pod that stays down, and the manager goes on (except by the timerStopChan cycle). |
| kube_proxy | 2 Services, 2 pods, 3 ports (two with one target port), 3 changes, 2 events in flight, 1 crash between any two iptables commands; symmetric in the Services | Once all is handled the table routes what the store says (`RoutesMatchStore`); deleted Services leave no chain or rule (`NoLeftovers`); every single command keeps to the Service being handled and to its old and new endpoints, and the last one leaves an even spread (`ImplementsRouting`). |
| watch_registry | 2 clients, 3 events, 3 tickets, 1 restart or lost connection (the server's or a client's) | The set of tickets is that of the holders but for leaked and robbed ones (`TicketsMatchHolders`), events arrive one after the other (`InOrder`) and all of them once the watch is installed (`Delivered`). |
| subscriber | 2 subscriptions (one of them also after a drop), 2 drops, 2 dials, the other one may be stopped (`Stoppable`) | The redo log forgets nobody (`LogIsComplete`), nobody is called twice (`OneChannel`), what is subscribed comes back (`Resumed`) and what is unsubscribed does not (`StopWins`), except for `lost`, `doubled` and a call that waits on a wedged connection. `StopWins` does not except `lost`. |
| autoscaler | 1 name, 2 targets, ring of 2, levels 0 and 2, 3 changes, 2 loops, 1 failure | A loop that runs can be stopped or is `displaced` (`LoopsCanBeStopped`), channels are closed once (`ClosedOnce`), what is deleted is not put again (`DeletedStaysDeleted`), a stopped loop ends and a load that lasts reaches the bound (`StoppedLoopEnds`, `ScalesToBound`). |
| gateway | 2 nodes, 2 applies, 1 deletion, 1 failure | Once all is quiet the user's last word is in etcd (`LastWordStands`) and served by every node (`NodesServe`); what is applied gets deployed (`GetsDeployed`). |

One run refutes a comment: **pod_dispatch_delete**, watchPod's "already deleted"
(`pkg/kubelet/kubelet.go`): the pod's ADD is still queued, the deletion is dropped and the
pod runs for ever. It is the finding of `PROJECT.json`.

Seven more configurations are kept as diagnostics and are not among the runs: in each, TLC
shows a behaviour in which an ideal statement fails, and a passing run checks the
statement with that case excepted by name.

| Configuration | Statement that fails, and how |
|---|---|
| `PodRuntimeClose.cfg` | `NoSendOnClosedChannel`: the worker sends on the responseChan releaseResource has closed, and the kubelet panics. |
| `PodRuntimeFailedAdd.cfg` | `FailedCreateReported`: pod.go:210 panics before line 211 looks at the error of the ADD_POD. |
| `ReplicaSetScale.cfg` | `ReplicasConverge`: scaling to zero leaves pods that were starting. |
| `DeploymentOverlap.cfg` | `ExpectedReplicasReached`: two modifications in quick succession leave a ReplicaSet nobody owns. |
| `ServiceEndpoints.cfg` | `EndpointsFollowPods`: a pod remade under its name keeps its old IP in the Service. |
| `KubeProxyPreset.cfg` | `ExistingServicesPulled` (the comment at kubeproxy.go:53): the node is registered before, so PreSetService returns at once. |
| `GatewayDelete.cfg` | `DeletedHostGoes` (`doc/结题报告.md:181`): neither dnsConfigWriter.go:89 nor manager.go:172 acts on the removal `kubectl del dns` makes. |

**Bounds.** They are the smallest with which the interesting cases occur: two requests
and two versions are needed for a lost update, a third apply for one behind a full
channel; two incarnations for one to meet the containers and the entry of the other;
four pod keys so that two replicas can be created twice before any is visible, or after a
failed list (`Listed` lets a list fail only while there are keys enough for the pods a sync
then creates; the theorem has no such limit on the number of keys); three applies for a creation and two successive rollouts; two pods for one place for a pod to be
replaced (three pods for two places, with one start, pass too, but take nearly 5 minutes);
two Services on one pod and port, or two ports with one target port, for a shared SEP chain,
and three changes to publish, update and withdraw one (four pass too, with three of the
seven specifications); three tickets for a number to be
used by two clients and for a second watcher; two drops for a reconnection to be overtaken
by the next; two loops for one to displace the other; two nodes for a slow writer. The channel
capacities 50 and 100 become 1 (PodDispatch, where fullness matters) or are shown never to be reached (PodRuntime). Five endpoints become one, ring
queues of five become two.
Undelivered pod events and queued keys of the ReplicaSet controller are capped by
`MaxBacklog`, its dying pods and failed requests together by `MaxUpsets`. CHECK_DEADLOCK is off because all these systems may rest: nothing obliges a
user to act again.

**Fairness.** Weak fairness on what Go or the broker guarantees: a delivered event is
handled, a runnable goroutine runs, a polling loop polls. None on users, pods dying,
failures or (PodRuntime) the probe timer. `WF(Tick)` in ServiceController is the ticker.
`SF(LockService)`: a Go mutex hands over to the longest waiter after 1 ms, so
DeleteService cannot be starved by the syncLoop. `SF(Loop(l))` in Autoscaler: a loop's put
is disabled only while the queue of events is at its model bound, and the real one has
none. Nothing is assumed of connections dropping or of what a Dial answers beyond the
retries the code makes. A request fails a bounded number of times (`MaxFails`, `MaxRefusals`,
`MaxFailures`, `MaxFaults`), which is what "does not fail for ever" means.
kube_proxy checks safety only and needs no fairness.

**Exceptions are in the properties.** Where a race in the code breaks the ideal
statement, the property names the race (`StopCycle`, `late`, `deleteResult = "noIds"`,
`Err`, `calm`, and the histories of section 2) instead of the model hiding it.

## 4. Proofs

Checked by TLAPS for every value of the constants that satisfies the named ASSUMEs.

*DeploymentController_proofs* (`DeploymentAssumption`: bounds are naturals).
- `TypeCorrect`: TypeOK is not inductive, since nothing in it bounds `newReplicas` when it
  is raised or says that there is an old ReplicaSet to lower. `TypeInv` adds the loop's
  bookkeeping (`LocalsOK`: the next size is in range until newDone; an old size other
  than 0 belongs to a ReplicaSet), that pending removals were made, and that a key not
  stored counts 0.
- `SurgeBound`, `Availability`: while `calm`, `CalmInv` says that at most one change is
  under way (`OneChange`), what etcd and the maps hold when none is (`AtRest`), and, per
  program point of `update`, how the two sizes in etcd relate to the loop's counters and
  the number of failures. One lemma per step of the loop; the two bounds follow by
  arithmetic (`CalmInvBounds`).

*PodDispatch_proofs* (`DispatchAssumption`; any nodes, clients and channel capacity).
- `TypeCorrect`, `AssignedRuns`, `LostUpdateReported` rest on
  `DispatchInv == TypeOK /\ EventsCurrent /\ ConfigCarried`: the last undelivered event of a
  kubelet is the current configuration; once it is handled, that configuration is the
  last entry of the updates channel, or is about to be added again, or podManager has it
  or has refused it and set Err. It is the last entry that matters, so the order of the
  channel and the one-by-one handling are what carries the proof. Failing requests of the
  scheduler do not weaken it.

*PodRuntime_proofs* (`MaxGenAssumption`, `FaultsAssumption`; any number of incarnations,
any subset of the external calls failing).
- `TypeCorrect` needs that syncLoop holds an incarnation exactly where it uses one and that
  a container group is in a docker state.
- `ChannelsAreShort`, `ProbesHaveIds`, `OrphansExplained`, `GhostsAreResurrected` and the
  action property `ExitedStays` rest on `RuntimeInv`. Its part `LocalInv(g)` concerns one
  incarnation: ADD_POD is the first command and is in one place at most (a channel, the
  worker, the listener), a probe likewise, and a probe carries ids. `SyncInv` ties the
  incarnations to syncLoop and name2pod. `WithinBudget` counts: an incarnation is sent one
  ADD, one DELETE and the next PROBE only after the last was answered, which bounds what is
  outstanding by three although nothing in the code limits
  it. `DeletionInv` follows a DELETE until docker has answered. Every step touches one
  incarnation, so the lemmas come in pairs: what the step does to its own (`...Local`), and
  that the others are the same. `ExitedStays` is about the phase and the uploaded entry: by
  `GoroutineUploads` the only steps that store an entry are the creation's upload and a
  listener's, and an incarnation's own listener has no probe under way once it exited.

*ReplicaSetController_proofs* (`RSAssumption`; any finite set of keys).
- `NeverBelowWanted`: that enough pods are kept is not inductive, since the next sync
  deletes on the strength of a list that may be old. `SteadyInv` says, while the user leaves
  the ReplicaSet alone: every copy of it has the same number (`OneNumber`); a pod that is to
  be deleted has at least that many pods *with larger keys* which are visible and stay
  (`DoomedForOthers`); and in the list the worker holds, whatever has been deleted since or
  is about to be has that many others of the list above it (`ListIsGood`), at every one of its requests and
  whichever of them fail. That
  getPodsToDelete takes the pods in key order, so that two syncs agree on whom to spare,
  is what carries the proof: by `VictimsAreLowest` (a counting lemma, by the pigeonhole
  principle on ranks) a spared pod has fewer than n above it, so it cannot be doomed.

*WatchRegistry_proofs* (`WatchRegistryAssumption`).
- `SetMatchesHolders`: `RegistryInv` adds that there are watchers enough for the tickets
  sold, that the registry has a watcher if and only if its set has a ticket and only that
  one runs, that a holder's ticket is of this run of the server or an earlier one, and that
  the ticket the daemon handles is of this run and has a holder or is leaked.
- `EventsInOrder`: `OrderInv` says that the events between etcd and the broker are
  consecutive, and that the queue of an undisturbed client continues them: its last event
  is the one before the next to be published.

*Subscriber_proofs* (`SubscriberAssumption`; that callers are not goroutine numbers,
`Subs \cap Epochs = {}`, is about how the model names them).
- `LogForgetsNobody`: `LogInv` says that only one rerun goroutine recovers, that users call
  for themselves, and that a subscription is covered from the moment its call has logged it.
- `HandledOnce`: `ChannelInv` says that a subscription is in one place at most (`OnePlace`:
  a slot, recover's copy or a call that has not logged it), that one nobody asked for is
  nowhere, and that what recover has still to open has no channel or is `doubled`.

*Autoscaler_proofs* (`AutoscalerAssumption`; any autoscalers and specifications).
- `RunningLoopsStoppable`, `ChannelsClosedOnce`: `StopInv` says who may close a channel:
  an entry of the map or a handler that has read it, and two of them only if `raced`.
- `DeletedByStaleLoop` (an action property): `DeleteInv` follows a deletion from etcd through
  the queue of events to replicasetMap; once it is seen there, a loop that scales is `stale`.

*ServiceManager_proofs*: the two halves of `pkg/service`, Gateway (`GatewayAssumption`: bounds
are naturals and there is a node; without one nothing prepares the files the manager waits
for) and ServiceController (`ServiceAssumption`: bounds are naturals and a Service has room
for a pod). They share no variable; the names of Gateway's specification begin with `Gateway`.
- `UserHasLastWord`, `NodesServeStore`: `LastInv` says how far the last request has come while
  no request overtook another and none was dropped: each writer's and the manager's last
  pending event is that of the last version, and a node has prepared its files or has the
  event that makes it.
- `ServiceTypeCorrect`, `EntryOwned`, `EndpointsAreTheSelection` (ServiceController, for any
  number of pods, places, generations and failing requests). None of the three is inductive.
  `ServiceInv` adds: canPollSend, the channel and syncLoop hold one turn between them
  (`OnePoll`), which is what bounds the channel; the puts the manager has not handled are of
  distinct generations and a generation not yet made has left no trace (`Queue`, `NoTrace`); the
  manager holds the generation of serviceMap while it stops it, whose syncLoop does not select
  then, because both need rwLock (`ManagerInv`); a syncLoop that can still store an entry is the
  one of serviceMap or is in `late` (`Owned`). For the endpoints, `Selections` says that what a
  generation has selected are distinct pods and that Spec.PodNameAndIps names them, and
  `EntryStored` that etcd has what the generation last put unless that put was `missed`. A
  selection keeps them because compareOldAndNew looks at length and old names only: with
  distinct names on both sides, equal length and one inclusion make the two sets equal
  (`SameNames`, by counting). What `Filter` returns - elements of the list that are in
  the set, each from a place of its own - is induction over its index; it is proved by taking
  the least index at which the statement fails (`LeastElement`, `UpTo`), a *set* instead of
  the operator the library's induction theorems want.

**Only model-checked**
- All liveness properties: fairness and ENABLED are outside the prover.
- `RoutesMatchStore`, `NoLeftovers` and the refinement `ImplementsRouting` (KubeProxy): an
  event's plan is a concatenation over ports, endpoints and rules, whose bodies are operators
  passed as parameters, and a refused command skips a part of it. A proof would need an
  invariant on the whole table for every place in the plan of each function of chain.go. The general
  statement also needs that a runtime Service lists no pod twice, which
  `EndpointsAreTheSelection` proves of what the Service controller stores.

The inductive invariants were model-checked on small instances before they were proved.

## 5. Not modelled

- *Job controller and GPU runner*: putJob is one allocation and two puts of a goroutine;
  the runner is ssh and scp.
- *Node and cluster IP allocation*: sequential counters. That the third field of a cluster
  IP has no limit a unit test would show.
- *Mesh*: a table of weights behind a lock, and a proxy that copies bytes.
- *Monitoring, kubectl's parsing and printing, netSupport's shell commands*: I/O. The rest
  of the kubelet (DoMonitor, watchSharedData) changes no pod.
- checkAndBoot (CoreDNS, deployed once), CloseConnection (tests only), lockMap (copies of
  a mutex, which exclude nobody), `deploymentMap`'s resync loop of the Deployment controller
  (never read).

Assumed: the modules of the controllers let their watches deliver everything in order,
which WatchRegistry and Subscriber show up to their named exceptions (an event between
the answer to a watch and its installation, a subscription lost in a reconnection).
Controllers do not crash (their maps would be lost). Byte formats and logging are left out.

## 6. Plan

1. Proofs about KubeProxy: its plans as recursive functions, as `Filter` of ServiceController,
   the effect of each function of chain.go on the table, then `NoLeftovers`.
2. ServiceController and KubeProxy composed over `entry`: a Service routes to live pods.
3. Allocators, with an injectivity theorem; the job controller.
4. Restarts of the Deployment controller, which loses dm2rs.
