------------------------ MODULE ReplicaSetController ------------------------
(***************************************************************************)
(* The ReplicaSet controller on one ReplicaSet.                            *)
(*                                                                         *)
(* The user's ReplicaSet is rsConfig; the controller's own copy in etcd,   *)
(* written after a sync that changed something, is runtimeRS.  addRS is    *)
(* told of every put of rsConfig, podOperation of every put of a runtime   *)
(* pod; both store a ReplicaSet in the map cp and enqueue its key, and one *)
(* worker syncs: it lists the runtime pods, creates or deletes podConfigs  *)
(* and stores runtimeRS.  A pod is in the runtime list only once a kubelet *)
(* has uploaded it, and leaves it only once a kubelet has removed it.      *)
(*                                                                         *)
(* Pods are numbered by the order of their keys in etcd (the key ends in a *)
(* random UID, so a new pod may sort anywhere); the number of a pod that   *)
(* is gone is used again.                                                  *)
(***************************************************************************)
EXTENDS Naturals, Sequences, FiniteSets

CONSTANTS
    PodKeys,      \* keys a pod may have: a finite set of naturals, in key order
    MaxReplicas,  \* largest Spec.Replicas the user asks for
    MaxApplies,   \* bound: puts of rsConfig by the user
    MaxBacklog,   \* bound: pod events, and queued keys, the controller lags behind
    MaxUpsets     \* bound: pods that die or that the user deletes by hand, and failed requests

ASSUME RSAssumption ==
    /\ PodKeys \subseteq Nat /\ IsFiniteSet(PodKeys)
    /\ MaxReplicas \in Nat
    /\ MaxApplies \in Nat /\ MaxBacklog \in Nat /\ MaxUpsets \in Nat

Replicas == 0..MaxReplicas
None == MaxReplicas + 1   \* no such entry
\* "new" has a podConfig only; "dead" is Failed or Exited.
PodStates == {"none", "new", "Pending", "Running", "dead"}

VARIABLES
    rsConfig,    \* etcd: /registry/rsConfig/default/<name>: Spec.Replicas
    rsEvents,    \* puts of rsConfig addRS has not seen yet, oldest first
    runtimeRS,   \* etcd: /registry/rs/default/<name>: Spec.Replicas
    cp,          \* rsc.cp at this ReplicaSet's key: Spec.Replicas
    queue,       \* how often the key is in rsc.queue
    worker,      \* syncReplicaSet: [at, want, more, victims]
    pods,        \* state of each pod
    doomed,      \* pods whose podConfig has Phase DELETED
    podEvents,   \* puts of runtime pods podOperation has not seen yet
    found,       \* the ReplicaSet podOperation has read and must enqueue: Spec.Replicas
    applies,     \* how often the user applied the ReplicaSet
    upsets,      \* how many pods died or were deleted by the user
    fails,       \* how many lists of the pods failed
    lost         \* how many other requests of the controller failed: nothing repeats them

userVars == <<applies, upsets, fails, lost>>
vars == <<rsConfig, rsEvents, runtimeRS, cp, queue, worker, pods, doomed, podEvents, found,
          userVars>>

\* A sync that has `more` pods to create or `victims` to delete.
Syncing(want, more, victims) ==
    [at |-> "manage", want |-> want, more |-> more, victims |-> victims]
Resting == [Syncing(0, 0, {}) EXCEPT !.at = "idle"]

Init ==
    /\ rsConfig = None /\ runtimeRS = None /\ cp = None
    /\ rsEvents = <<>>
    /\ queue = 0
    /\ worker = Resting
    /\ pods = [p \in PodKeys |-> "none"]
    /\ doomed = {}
    /\ podEvents = 0 /\ found = None
    /\ applies = 0 /\ upsets = 0 /\ fails = 0 /\ lost = 0

\* FilterActivePods of the runtime list: neither Failed nor Exited.
ActivePods == {p \in PodKeys : pods[p] \in {"Pending", "Running"}}

\* Bound: one more thing may go wrong.
MayUpset == upsets + fails + lost < MaxUpsets

\* A put of a runtime pod, with the watch event podOperation will get.
UploadPod(p, state) ==
    /\ podEvents < MaxBacklog
    /\ pods' = [pods EXCEPT ![p] = state]
    /\ podEvents' = podEvents + 1

-----------------------------------------------------------------------------
(* The user, through the API server.                                       *)

\* The generic put of rsConfig.
ApplyRS(n) ==
    /\ applies < MaxApplies
    /\ rsConfig' = n
    /\ rsEvents' = Append(rsEvents, n)
    /\ applies' = applies + 1
    /\ UNCHANGED <<runtimeRS, cp, queue, worker, pods, doomed, podEvents, found, upsets, fails,
                   lost>>

\* deleteRS: the first deletion only sets Replicas to zero.
DeleteRS ==
    /\ rsConfig \notin {0, None}
    /\ rsConfig' = 0
    /\ rsEvents' = Append(rsEvents, 0)
    /\ UNCHANGED <<runtimeRS, cp, queue, worker, pods, doomed, podEvents, found, userVars>>

\* deleteRS of a ReplicaSet at zero removes the key; addRS ignores the DELETE event.
DeleteRSForReal ==
    /\ rsConfig = 0
    /\ rsConfig' = None
    /\ UNCHANGED <<rsEvents, runtimeRS, cp, queue, worker, pods, doomed, podEvents, found, userVars>>

\* kubectl del pod on one of the replicas.
UserDeletesPod(p) ==
    /\ MayUpset
    /\ pods[p] # "none" /\ p \notin doomed
    /\ doomed' = doomed \cup {p}
    /\ upsets' = upsets + 1
    /\ UNCHANGED <<rsConfig, rsEvents, runtimeRS, cp, queue, worker, pods, podEvents, found,
                   applies, fails, lost>>

-----------------------------------------------------------------------------
(* The kubelets, as far as the controller can see them.                    *)

KubeletStarts(p) ==
    /\ pods[p] = "new"
    /\ UploadPod(p, "Pending")
    /\ UNCHANGED <<rsConfig, rsEvents, runtimeRS, cp, queue, worker, doomed, found, userVars>>

KubeletRuns(p) ==
    /\ pods[p] = "Pending"
    /\ UploadPod(p, "Running")
    /\ UNCHANGED <<rsConfig, rsEvents, runtimeRS, cp, queue, worker, doomed, found, userVars>>

\* A probe finds the pod's containers exited.
PodDies(p) ==
    /\ MayUpset
    /\ pods[p] = "Running"
    /\ UploadPod(p, "dead")
    /\ upsets' = upsets + 1
    /\ UNCHANGED <<rsConfig, rsEvents, runtimeRS, cp, queue, worker, doomed, found, applies, fails,
                   lost>>

\* DeleteRuntimePod: podOperation ignores the DELETE event.
KubeletDeletes(p) ==
    /\ pods[p] # "none" /\ p \in doomed
    /\ pods' = [pods EXCEPT ![p] = "none"]
    /\ doomed' = doomed \ {p}
    /\ UNCHANGED <<rsConfig, rsEvents, runtimeRS, cp, queue, worker, podEvents, found, userVars>>

-----------------------------------------------------------------------------
(* The controller's two watch handlers.                                    *)

AddRS ==
    /\ rsEvents # <<>>
    /\ queue < MaxBacklog
    /\ cp' = Head(rsEvents)
    /\ rsEvents' = Tail(rsEvents)
    /\ queue' = queue + 1
    /\ UNCHANGED <<rsConfig, runtimeRS, worker, pods, doomed, podEvents, found, userVars>>

\* A request, or what is left when it fails and the controller goes on without it.
Requested(answered, failed) ==
    \/ answered /\ UNCHANGED lost
    \/ MayUpset /\ failed /\ lost' = lost + 1

\* podOperation: GetRuntimeRS; the pod's ReplicaSet is taken from runtimeRS, not from
\* rsConfig, and nothing more happens when there is none or it cannot be read ...
PodOperation ==
    /\ podEvents > 0 /\ found = None
    /\ podEvents' = podEvents - 1
    /\ Requested(found' = runtimeRS, UNCHANGED found)
    /\ UNCHANGED <<rsConfig, rsEvents, runtimeRS, cp, queue, worker, pods, doomed, applies,
                   upsets, fails>>

\* ... and what was found is stored and enqueued, however old it is by now.
PodOperationPut ==
    /\ found # None
    /\ queue < MaxBacklog
    /\ cp' = found /\ found' = None
    /\ queue' = queue + 1
    /\ UNCHANGED <<rsConfig, rsEvents, runtimeRS, worker, pods, doomed, podEvents, userVars>>

-----------------------------------------------------------------------------
(* The worker: syncReplicaSet in the steps its HTTP calls make of it.      *)

\* Keys no pod has.
FreeKeys == {p \in PodKeys : pods[p] = "none"}

\* GetRSPods: the error of a failed list is dropped, and it counts as no pods.  Bound: a list
\* fails only while there are keys for the pods that are created then and, unless enough
\* pods are there to stay, in the next sync.
Listed(active) ==
    \/ active = ActivePods /\ UNCHANGED fails
    \/ /\ active = {} /\ ActivePods # {}
       /\ MayUpset
       /\ Cardinality(FreeKeys) >= IF Cardinality(ActivePods \ doomed) >= cp THEN cp ELSE 2 * cp - 1
       /\ fails' = fails + 1

\* Mutant: off by one.
OnePodTooMany(active, diff) ==
    {p \in active : Cardinality({q \in active : q < p}) <= diff}

\* Mutant: off by one the other way.
OnePodTooFew(active, diff) ==
    {p \in active : Cardinality({q \in active : q < p}) + 1 < diff}

\* getPodsToDelete: the first diff pods of the list, which etcd sorts by key.
PodsToDelete(active, diff) ==
    {p \in active : Cardinality({q \in active : q < p}) < diff}

\* What syncReplicaSet and manageReplicas decide from a list: nothing with the right number
\* of active pods, else how many to create or which to delete.
ManageReplicas(active, want) ==
    LET n == Cardinality(active) IN
    IF n = want THEN Resting
    ELSE IF n < want THEN Syncing(want, want - n, {})
    ELSE Syncing(want, 0, PodsToDelete(active, n - want))

\* Dequeue, cp.Get, GetRSPods and the decision.
SyncList ==
    /\ worker.at = "idle"
    /\ queue > 0
    /\ queue' = queue - 1
    /\ \E active \in {ActivePods, {}} :
          /\ Listed(active)
          /\ worker' = ManageReplicas(active, cp)
    /\ UNCHANGED <<rsConfig, rsEvents, runtimeRS, cp, pods, doomed, podEvents, found, applies,
                   upsets, lost>>

\* CreateRSPod, under a fresh random key; an error is only logged and the loop goes on.
CreateRSPod ==
    /\ worker.at = "manage" /\ worker.more > 0
    /\ \E p \in FreeKeys : Requested(pods' = [pods EXCEPT ![p] = "new"], UNCHANGED pods)
    /\ worker' = [worker EXCEPT !.more = @ - 1]
    /\ UNCHANGED <<rsConfig, rsEvents, runtimeRS, cp, queue, doomed, podEvents, found, applies,
                   upsets, fails>>

\* DeleteConfigPod on the next pod to delete; an error is only logged and the loop goes on.
DeleteConfigPod(p) ==
    /\ worker.at = "manage"
    /\ p \in worker.victims /\ \A q \in worker.victims : p <= q
    /\ Requested(doomed' = IF pods[p] = "none" THEN doomed ELSE doomed \cup {p},
                 UNCHANGED doomed)
    /\ worker' = [worker EXCEPT !.victims = @ \ {p}]
    /\ UNCHANGED <<rsConfig, rsEvents, runtimeRS, cp, queue, pods, podEvents, found, applies,
                   upsets, fails>>

\* putReplicaSet: a ReplicaSet at zero is really deleted; nobody looks at the error.
PutReplicaSet ==
    /\ worker.at = "manage" /\ worker.more = 0 /\ worker.victims = {}
    /\ Requested(runtimeRS' = (IF worker.want = 0 THEN None ELSE worker.want),
                 UNCHANGED runtimeRS)
    /\ worker' = Resting
    /\ UNCHANGED <<rsConfig, rsEvents, cp, queue, pods, doomed, podEvents, found, applies,
                   upsets, fails>>

-----------------------------------------------------------------------------
Worker ==
    \/ SyncList \/ CreateRSPod \/ PutReplicaSet
    \/ \E p \in PodKeys : DeleteConfigPod(p)
Kubelets(p) == KubeletStarts(p) \/ KubeletRuns(p) \/ KubeletDeletes(p)

Next ==
    \/ \E n \in Replicas \ {0} : ApplyRS(n)
    \/ DeleteRS \/ DeleteRSForReal
    \/ \E p \in PodKeys : UserDeletesPod(p) \/ PodDies(p) \/ Kubelets(p)
    \/ AddRS \/ PodOperation \/ PodOperationPut
    \/ Worker

\* The broker delivers, the worker polls, kubelets do what a podConfig asks; nothing makes
\* the user act or a pod die.
Fairness ==
    /\ WF_vars(AddRS) /\ WF_vars(PodOperation \/ PodOperationPut) /\ WF_vars(Worker)
    /\ \A p \in PodKeys : WF_vars(Kubelets(p))

Spec == Init /\ [][Next]_vars
FairSpec == Spec /\ Fairness

-----------------------------------------------------------------------------
\* Every variable has its type: the controller syncs and stores only numbers of replicas a
\* user asked for.
TypeOK ==
    /\ rsConfig \in Replicas \cup {None}
    /\ rsEvents \in Seq(Replicas)
    /\ runtimeRS \in Replicas \cup {None}
    /\ cp \in Replicas \cup {None}
    /\ queue \in 0..MaxBacklog
    /\ worker \in [at : {"idle", "manage"}, want : Replicas, more : Replicas,
                   victims : SUBSET PodKeys]
    /\ pods \in [PodKeys -> PodStates]
    /\ doomed \subseteq PodKeys
    /\ podEvents \in 0..MaxBacklog
    /\ found \in Replicas \cup {None}
    /\ applies \in 0..MaxApplies /\ upsets \in 0..MaxUpsets /\ fails \in 0..MaxUpsets
    /\ lost \in 0..MaxUpsets

\* The user applied one ReplicaSet and touched nothing since, and no pod died.
Steady == applies = 1 /\ rsConfig \in Replicas \ {0} /\ upsets = 0

Kept == {p \in PodKeys : pods[p] # "none"} \ doomed

\* Left alone, the controller never deletes below what it was asked for: however many
\* pods it created because the first ones were not visible yet or because a list failed, in
\* whatever order they become visible and vanish, and whichever of its requests fail, it
\* asks for a deletion only while enough other pods stay undeleted.
NeverDeletesTooMany == Steady /\ doomed # {} => Cardinality(Kept) >= rsConfig

\* Left alone, it settles at exactly the replicas asked for: the surplus of over-creation,
\* that after a failed list included, is found and deleted.  It does not when one of its
\* other requests failed: CreateRSPod, DeleteConfigPod and putReplicaSet drop the error,
\* podOperation drops the event it could not read the ReplicaSet for, and nobody retries.
SteadyConverges ==
    <>[](Steady /\ lost = 0) => <>[](Cardinality(ActivePods) = rsConfig /\ doomed = {})

\* The report: the controller "creates or deletes pods so that the number of replicas is
\* the number the user configured".
ReplicasConverge ==
    \A n \in Replicas : <>[](rsConfig = n) => <>[](Cardinality(ActivePods \ doomed) = n)

=============================================================================
