----------------------------- MODULE PodDispatch -----------------------------
(***************************************************************************)
(* How one pod's configuration travels from kubectl to the nodes.          *)
(*                                                                         *)
(*   kubectl  --PUT/DELETE-->  API server (AddPod, deletePod)  -->  etcd   *)
(*   etcd     --watch events-> scheduler (watchNewPod, worker, schedulePod)*)
(*   etcd     --watch events-> every kubelet (watchPod -> updates channel  *)
(*                             -> syncLoop -> podManager)                  *)
(*                                                                         *)
(* Every put of podConfig/<name> is delivered, in order, to the scheduler  *)
(* and to every kubelet; each subscriber handles its events one by one.    *)
(* The API server's handlers read etcd and write it back in two steps.     *)
(* What podManager does with a pod once it has it is module PodRuntime.    *)
(***************************************************************************)
EXTENDS Naturals, Sequences, FiniteSets

CONSTANTS
    Nodes,       \* worker nodes
    Kubelets,    \* the nodes whose kubelet is followed: kubelets meet only in etcd
    Clients,     \* concurrent HTTP requests to the API server
    MaxApplies,  \* bound: how often the pod is applied (each is a new version)
    MaxDeletes,  \* bound: how often it is deleted
    UpdatesCap,  \* capacity of a kubelet's updates channel (50 in podConfig)
    MaxBacklog,  \* bound: events a kubelet may lag behind when the scheduler puts
    MaxFails,    \* bound: requests of the scheduler that fail
    NoNode       \* Spec.NodeName = ""

ASSUME DispatchAssumption ==
    /\ NoNode \notin Nodes
    /\ Kubelets \subseteq Nodes
    /\ MaxApplies \in Nat /\ MaxDeletes \in Nat /\ MaxBacklog \in Nat /\ MaxFails \in Nat
    /\ UpdatesCap \in Nat \ {0}

Versions == 1..MaxApplies
NodeNames == Nodes \cup {NoNode}
\* A stored podConfig: which apply wrote it, Spec.NodeName, Status.Phase = "DELETED".
Pod == [ver : Versions, node : NodeNames, deleted : BOOLEAN]
Absent == [ver |-> 0, node |-> NoNode, deleted |-> FALSE]
Ops == {"ADD", "UPDATE", "DELETE"}
NotRunning == 0

VARIABLES
    podConfig,    \* etcd: podConfig/default/<name>, or Absent
    applies, deletes,
    request,      \* the pod an AddPod / deletePod handler is about to put, or Absent
    nodes,        \* etcd: the registered nodes
    schedEvents,  \* events not yet handled by watchNewPod
    schedQueue,   \* Scheduler.queue
    fails,        \* how often schedulePod returned an error
    events,       \* per kubelet: events not yet handled by watchPod
    updates,      \* per kubelet: the PodUpdate channel, with the update blocked on it
    readd,        \* per kubelet: the pod HandlePodUpdates has deleted and must add, or Absent
    name2pod,     \* per kubelet: version of the pod podManager holds, or NotRunning
    Err           \* per kubelet: Kubelet.Err is set

apiVars == <<podConfig, applies, deletes, request, nodes>>
schedVars == <<schedEvents, schedQueue, fails>>
kubeletVars == <<events, updates, readd, name2pod, Err>>
vars == <<apiVars, schedVars, kubeletVars>>

Init ==
    /\ podConfig = Absent
    /\ applies = 0 /\ deletes = 0
    /\ request = [c \in Clients |-> Absent]
    /\ nodes = {}
    /\ schedEvents = <<>> /\ schedQueue = <<>> /\ fails = 0
    /\ events = [n \in Kubelets |-> <<>>]
    /\ updates = [n \in Kubelets |-> <<>>]
    /\ readd = [n \in Kubelets |-> Absent]
    /\ name2pod = [n \in Kubelets |-> NotRunning]
    /\ Err = [n \in Kubelets |-> FALSE]

\* store.Put: etcd stores the pod and the watchers are told.
StorePut(pod) ==
    /\ podConfig' = pod
    /\ events' = [n \in Kubelets |-> Append(events[n], pod)]

-----------------------------------------------------------------------------
(* The API server.                                                         *)

\* AddPod up to its Put: a pod without UID inherits the stored pod's NodeName.
AddPodGet(c) ==
    /\ request[c] = Absent
    /\ applies < MaxApplies
    /\ applies' = applies + 1
    /\ request' = [request EXCEPT
           ![c] = [ver |-> applies + 1, node |-> podConfig.node, deleted |-> FALSE]]
    /\ UNCHANGED <<podConfig, deletes, nodes, schedVars, kubeletVars>>

\* deletePod up to its Put; without a stored pod it answers 400.
DeletePodGet(c) ==
    /\ request[c] = Absent
    /\ podConfig # Absent
    /\ deletes < MaxDeletes
    /\ deletes' = deletes + 1
    /\ request' = [request EXCEPT ![c] = [podConfig EXCEPT !.deleted = TRUE]]
    /\ UNCHANGED <<podConfig, applies, nodes, schedVars, kubeletVars>>

\* The Put that ends AddPod and deletePod.
RequestPut(c) ==
    /\ request[c] # Absent
    /\ StorePut(request[c])
    /\ schedEvents' = Append(schedEvents, request[c])
    /\ request' = [request EXCEPT ![c] = Absent]
    /\ UNCHANGED <<applies, deletes, nodes, schedQueue, fails, updates, readd, name2pod, Err>>

\* addNode: a kubelet registers its node.
AddNode(n) ==
    /\ n \notin nodes
    /\ nodes' = nodes \cup {n}
    /\ UNCHANGED <<podConfig, applies, deletes, request, schedVars, kubeletVars>>

-----------------------------------------------------------------------------
(* The scheduler.                                                          *)

WatchNewPod ==
    /\ schedEvents # <<>>
    /\ schedEvents' = Tail(schedEvents)
    /\ schedQueue' = IF Head(schedEvents).node = NoNode
                        THEN Append(schedQueue, Head(schedEvents))
                        ELSE schedQueue
    /\ UNCHANGED <<apiVars, fails, kubeletVars>>

\* selectHost*: any registered node (random, round robin or by label), "" if none is.
SelectHost(ns) == IF ns = {} THEN {NoNode} ELSE ns

\* Mutant: without a node to choose, the pod is dropped instead of put back.
SchedulePodOrDrop ==
    /\ schedQueue # <<>>
    /\ \A n \in Kubelets : Len(events[n]) < MaxBacklog
    /\ IF nodes = {} THEN UNCHANGED <<podConfig, events, schedEvents>>
       ELSE \E host \in nodes :
          LET pod == [Head(schedQueue) EXCEPT !.node = host] IN
             /\ StorePut(pod)
             /\ schedEvents' = Append(schedEvents, pod)
    /\ schedQueue' = Tail(schedQueue)
    /\ UNCHANGED <<applies, deletes, request, nodes, fails, updates, readd, name2pod, Err>>

\* worker and schedulePod: the copy taken from the event is put back with a node.  It
\* carries a UID, so AddPod stores it as it is.
SchedulePod ==
    /\ schedQueue # <<>>
    /\ \A n \in Kubelets : Len(events[n]) < MaxBacklog
    /\ \E host \in SelectHost(nodes) :
          LET pod == [Head(schedQueue) EXCEPT !.node = host] IN
             /\ StorePut(pod)
             /\ schedEvents' = Append(schedEvents, pod)
    /\ schedQueue' = Tail(schedQueue)
    /\ UNCHANGED <<applies, deletes, request, nodes, fails, updates, readd, name2pod, Err>>

\* getNodes or UpdateConfigPod fails: the worker does not look at the error schedulePod returns,
\* and the pod has left the queue.
SchedulePodFails ==
    /\ schedQueue # <<>> /\ fails < MaxFails
    /\ schedQueue' = Tail(schedQueue) /\ fails' = fails + 1
    /\ UNCHANGED <<apiVars, schedEvents, kubeletVars>>

-----------------------------------------------------------------------------
(* A kubelet.                                                              *)

CheckIfPodExist(n) == name2pod[n] # NotRunning

\* What watchPod asks for when it sees a put of the pod: an operation, or nothing.
OpFor(n, pod) ==
    LET wanted == pod.node = n /\ ~pod.deleted
    IN  CASE pod.node = NoNode -> "none"
          [] pod.node # NoNode /\ wanted -> IF CheckIfPodExist(n) THEN "UPDATE" ELSE "ADD"
          [] OTHER -> IF CheckIfPodExist(n) THEN "DELETE" ELSE "none"

\* watchPod looks the pod up and then sends.  A send to a full channel blocks, and with it
\* the subscription: updates holds the blocked one too, as if the channel were one longer.
WatchPod(n) ==
    /\ events[n] # <<>>
    /\ Len(updates[n]) <= UpdatesCap
    /\ LET pod == Head(events[n])
           op == OpFor(n, pod)
       IN  IF op = "none" THEN UNCHANGED updates
           ELSE updates' = [updates EXCEPT ![n] = Append(@, [op |-> op, pod |-> pod])]
    /\ events' = [events EXCEPT ![n] = Tail(@)]
    /\ UNCHANGED <<apiVars, schedVars, readd, name2pod, Err>>

\* syncLoopIteration receives an update for `op`.
Receive(n, op) ==
    /\ readd[n] = Absent
    /\ updates[n] # <<>>
    /\ Head(updates[n]).op = op
    /\ updates' = [updates EXCEPT ![n] = Tail(@)]
    /\ UNCHANGED <<apiVars, schedVars, events>>

\* Mutant: a taken name is ignored.
AddPodSilently(n, pod) ==
    /\ name2pod' = [name2pod EXCEPT ![n] = IF CheckIfPodExist(n) THEN @ ELSE pod.ver]
    /\ UNCHANGED Err

\* podManager.AddPod: an error if the name is taken.
AddPod(n, pod) ==
    IF CheckIfPodExist(n)
       THEN Err' = [Err EXCEPT ![n] = TRUE] /\ UNCHANGED name2pod
       ELSE name2pod' = [name2pod EXCEPT ![n] = pod.ver] /\ UNCHANGED Err

HandlePodAdditions(n) ==
    /\ Receive(n, "ADD")
    /\ AddPod(n, Head(updates[n]).pod)
    /\ UNCHANGED readd

\* Mutant: an update whose deletion fails is given up.
HandlePodUpdatesGivesUp(n) ==
    /\ Receive(n, "UPDATE")
    /\ Err' = [Err EXCEPT ![n] = @ \/ ~CheckIfPodExist(n)]
    /\ name2pod' = [name2pod EXCEPT ![n] = NotRunning]
    /\ readd' = [readd EXCEPT ![n] = IF CheckIfPodExist(n) THEN Head(updates[n]).pod ELSE @]

\* HandlePodUpdates deletes the old pod first ...
HandlePodUpdates(n) ==
    /\ Receive(n, "UPDATE")
    /\ Err' = [Err EXCEPT ![n] = @ \/ ~CheckIfPodExist(n)]
    /\ name2pod' = [name2pod EXCEPT ![n] = NotRunning]
    /\ readd' = [readd EXCEPT ![n] = Head(updates[n]).pod]

\* ... and then adds the new one, whether or not there was one to delete.
HandlePodUpdatesAdd(n) ==
    /\ readd[n] # Absent
    /\ AddPod(n, readd[n])
    /\ readd' = [readd EXCEPT ![n] = Absent]
    /\ UNCHANGED <<apiVars, schedVars, events, updates>>

\* A pod that is not there is an error that is only printed.
HandlePodRemoves(n) ==
    /\ Receive(n, "DELETE")
    /\ name2pod' = [name2pod EXCEPT ![n] = NotRunning]
    /\ UNCHANGED <<readd, Err>>

-----------------------------------------------------------------------------
Kubelet(n) ==
    \/ WatchPod(n) \/ HandlePodAdditions(n) \/ HandlePodUpdates(n)
    \/ HandlePodUpdatesAdd(n) \/ HandlePodRemoves(n)

Next ==
    \/ \E c \in Clients : AddPodGet(c) \/ DeletePodGet(c) \/ RequestPut(c)
    \/ \E n \in Nodes : AddNode(n)
    \/ \E n \in Kubelets : Kubelet(n)
    \/ WatchNewPod \/ SchedulePod \/ SchedulePodFails

\* The API server finishes what it began, the broker delivers, the scheduler polls its
\* queue every second and the sync loop always receives; users and nodes come as they like.
Fairness ==
    /\ \A c \in Clients : WF_vars(RequestPut(c))
    /\ WF_vars(WatchNewPod) /\ WF_vars(SchedulePod)
    /\ \A n \in Kubelets :
          /\ WF_vars(WatchPod(n))
          /\ WF_vars(HandlePodAdditions(n) \/ HandlePodUpdates(n)
                       \/ HandlePodUpdatesAdd(n) \/ HandlePodRemoves(n))

Spec == Init /\ [][Next]_vars
FairSpec == Spec /\ Fairness

-----------------------------------------------------------------------------
\* Every variable has its type: whatever is stored, requested, queued or delivered is a pod
\* some user applied.
TypeOK ==
    /\ podConfig \in Pod \cup {Absent}
    /\ applies \in 0..MaxApplies /\ deletes \in 0..MaxDeletes
    /\ request \in [Clients -> Pod \cup {Absent}]
    /\ nodes \subseteq Nodes
    /\ schedEvents \in Seq(Pod) /\ schedQueue \in Seq(Pod) /\ fails \in 0..MaxFails
    /\ events \in [Kubelets -> Seq(Pod)]
    /\ updates \in [Kubelets -> Seq([op : Ops, pod : Pod])]
    /\ readd \in [Kubelets -> Pod \cup {Absent}]
    /\ name2pod \in [Kubelets -> Versions \cup {NotRunning}]
    /\ Err \in [Kubelets -> BOOLEAN]

\* Nothing is under way on node n.
Settled(n) == events[n] = <<>> /\ updates[n] = <<>> /\ readd[n] = Absent

\* However events, updates and the sync loop interleave, a kubelet that has handled
\* everything runs the pod that is assigned to it (not necessarily its newest version).
AssignedPodRuns ==
    \A n \in Kubelets :
       Settled(n) /\ podConfig.node = n /\ ~podConfig.deleted => CheckIfPodExist(n)

\* A kubelet that runs an outdated version of its pod knows it: the update it lost was an
\* addition that podManager refused, and Kubelet.Err says so.
LostUpdateLeavesError ==
    \A n \in Kubelets :
       /\ Settled(n) /\ podConfig.node = n /\ ~podConfig.deleted
       /\ name2pod[n] # podConfig.ver
       => Err[n]

\* A stored pod without a node gets one once there are nodes (watchNewPod re-queues what
\* was put back without one), however it is overwritten meanwhile; only a failed request of
\* the scheduler, which nobody repeats, leaves it without.
UnassignedGetsNode ==
    podConfig # Absent /\ podConfig.node = NoNode /\ nodes # {}
       ~> podConfig.node # NoNode \/ fails > 0

\* A deleted configuration that stays deleted ends the pod on every node: watchPod's
\* "asked to delete and already deleted, just return" (kubelet.go:166).
DeleteHonoured ==
    <>[](podConfig.deleted) => <>[](\A n \in Kubelets : ~CheckIfPodExist(n))

=============================================================================
