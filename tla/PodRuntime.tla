----------------------------- MODULE PodRuntime -----------------------------
(***************************************************************************)
(* One pod name on one node, as pkg/kubelet/pod runs it.  The kubelet's    *)
(* sync loop creates and deletes successive incarnations ("generations")   *)
(* of the pod through podManager; every incarnation owns three goroutines  *)
(* (podWorker.SyncLoop, listeningResponse, the prober of StartProbe), a    *)
(* command channel and a response channel.  The incarnations share what    *)
(* is keyed by the pod's NAME: the docker containers (RealName) and the    *)
(* runtime entry /registry/pod/default/<name>.                             *)
(*                                                                         *)
(* p.rwLock is held across a step only while releaseResource waits on      *)
(* stopChan and after listeningResponse panicked inside its critical       *)
(* section (the deferred releaseResource then waits for the lock its own   *)
(* goroutine holds); every other critical section is one action.           *)
(***************************************************************************)
EXTENDS Naturals, Sequences

CONSTANTS
    MaxGen,   \* bound: how many incarnations the sync loop creates
    Faults    \* which external calls may fail: see FaultNames

FaultNames == {"volume", "create", "probe", "remove", "api"}

ASSUME MaxGenAssumption == MaxGen \in Nat
ASSUME FaultsAssumption == Faults \subseteq FaultNames

Gens == 1..MaxGen
NoGen == 0

\* Status.Phase of configPod; "unborn" is an incarnation not created yet.
Phases == {"unborn", "Pending", "Failed", "Running", "Exited", "created", "deleted"}
\* Mutants of Unprobed: the guard forgets a phase.
UnprobedButPending == {"Failed", "deleted", "Exited"}
UnprobedButExited == {"Pending", "Failed", "deleted"}
\* Phases in which StartProbe's loop sends no probe (pod.go:350).
Unprobed == {"Pending", "Failed", "deleted", "Exited"}
Absent == "absent"

CommandTypes == {"ADD", "PROBE", "DELETE"}
Command == [type : CommandTypes, ids : BOOLEAN]
Results == {"ok", "err", "running", "created", "exited"}
Response == [type : CommandTypes, result : Results]

WorkerSteps == {"off", "idle", "inspectNames", "removeNamed", "create", "probe",
                "stop", "remove", "respond", "exited"}
ListenerSteps == {"off", "idle", "handle", "panicked", "release", "stopping", "exited"}
ProberSteps == {"off", "idle", "wantLock", "exited"}
SyncSteps == {"idle", "sendAdd", "marshal", "put", "lockDelete", "dead"}

VARIABLES
    phase,        \* configPod.Status.Phase of each incarnation
    ids,          \* p.containers holds the container ids docker answered
    canProbeWork,
    commandChan,  \* Go channels: what was sent and not yet received
    responseChan,
    closed,       \* releaseResource closed both channels
    worker,       \* podWorker.SyncLoop: [at, job, result]
    listener,     \* listeningResponse: [at, resp]
    prober,       \* the goroutine of StartProbe
    sync,         \* the kubelet's sync loop: [at, gen, snapshot]
    name2pod,     \* podManager.name2pod at this name
    docker,       \* the container group with this pod's names: [gen, state]
    etcd,         \* phase stored at /registry/pod/default/<name>
    deleteResult  \* history: how the DELETE command of an incarnation ended

goroutines == <<worker, listener, prober, sync>>
podVars == <<phase, ids, canProbeWork>>
channels == <<commandChan, responseChan, closed>>
vars == <<podVars, channels, goroutines, name2pod, docker, etcd, deleteResult>>

NoCommand == [type |-> "DELETE", ids |-> FALSE]
NoResponse == [type |-> "DELETE", result |-> "err"]
NoGroup == [gen |-> NoGen, state |-> "none"]
\* A worker without a command, a listener without a response.
WorkerAt(step) == [at |-> step, job |-> NoCommand, result |-> "err"]
SyncIdle == [at |-> "idle", gen |-> NoGen, snapshot |-> "unborn"]
ListenerAt(step) == [at |-> step, resp |-> NoResponse]

Init ==
    /\ phase = [g \in Gens |-> "unborn"]
    /\ ids = [g \in Gens |-> FALSE]
    /\ canProbeWork = [g \in Gens |-> FALSE]
    /\ commandChan = [g \in Gens |-> <<>>]
    /\ responseChan = [g \in Gens |-> <<>>]
    /\ closed = [g \in Gens |-> FALSE]
    /\ worker = [g \in Gens |-> WorkerAt("off")]
    /\ listener = [g \in Gens |-> ListenerAt("off")]
    /\ prober = [g \in Gens |-> "off"]
    /\ sync = SyncIdle
    /\ name2pod = NoGen
    /\ docker = NoGroup
    /\ etcd = Absent
    /\ deleteResult = [g \in Gens |-> "none"]

LockFree(g) == listener[g].at \notin {"panicked", "stopping"}

\* An HTTP call that writes `value` at the runtime key; its error is only printed.
Upload(value) == etcd' = value \/ ("api" \in Faults /\ UNCHANGED etcd)

Send(g, type) ==
    commandChan' = [commandChan EXCEPT ![g] = Append(@, [type |-> type, ids |-> ids[g]])]

-----------------------------------------------------------------------------
(* The sync loop: podManager.AddPod / DeletePod.                           *)

\* podManager.AddPod up to the goroutines StartPod launches.
NewPod(g) ==
    /\ sync.at = "idle"
    /\ name2pod = NoGen
    /\ phase[g] = "unborn"
    /\ \A h \in Gens : h < g => phase[h] # "unborn"
    /\ \E status \in {"Pending"} \cup (IF "volume" \in Faults THEN {"Failed"} ELSE {}) :
          phase' = [phase EXCEPT ![g] = status]
    /\ canProbeWork' = [canProbeWork EXCEPT ![g] = TRUE]
    /\ worker' = [worker EXCEPT ![g] = WorkerAt("idle")]
    /\ listener' = [listener EXCEPT ![g] = ListenerAt("idle")]
    /\ prober' = [prober EXCEPT ![g] = "idle"]
    /\ sync' = [sync EXCEPT !.at = "sendAdd", !.gen = g]
    /\ UNCHANGED <<ids, channels, name2pod, docker, etcd, deleteResult>>

\* newPod.commandChan <- podCommand
SendAdd ==
    /\ sync.at = "sendAdd"
    /\ Send(sync.gen, "ADD")
    /\ sync' = [sync EXCEPT !.at = "marshal"]
    /\ UNCHANGED <<podVars, responseChan, closed, worker, listener, prober, name2pod,
                   docker, etcd, deleteResult>>

\* uploadPod outside the lock: the pod is marshalled in one step ...
MarshalPod ==
    /\ sync.at = "marshal"
    /\ sync' = [sync EXCEPT !.at = "put", !.snapshot = phase[sync.gen]]
    /\ UNCHANGED <<podVars, channels, worker, listener, prober, name2pod, docker, etcd, deleteResult>>

\* ... and stored in another; then podManager enters the pod in name2pod.
PutNewPod ==
    /\ sync.at = "put"
    /\ Upload(sync.snapshot)
    /\ name2pod' = sync.gen
    /\ sync' = SyncIdle
    /\ UNCHANGED <<podVars, channels, worker, listener, prober, docker,
                   deleteResult>>

\* podManager.DeletePod found the pod and calls pod.DeletePod, which takes rwLock.
DeletePod ==
    /\ sync.at = "idle"
    /\ name2pod # NoGen
    /\ sync' = [sync EXCEPT !.at = "lockDelete", !.gen = name2pod]
    /\ UNCHANGED <<podVars, channels, worker, listener, prober, name2pod, docker, etcd, deleteResult>>

\* Mutant of DeletePodLocked: DeleteRuntimePod is forgotten.
DeletePodKeepsEntry ==
    /\ sync.at = "lockDelete"
    /\ LockFree(sync.gen)
    /\ phase' = [phase EXCEPT ![sync.gen] = "deleted"]
    /\ Send(sync.gen, "DELETE")
    /\ name2pod' = NoGen
    /\ sync' = SyncIdle
    /\ UNCHANGED <<ids, canProbeWork, responseChan, closed, worker, listener, prober,
                   docker, etcd, deleteResult>>

\* The critical section of pod.DeletePod, then delete(p.name2pod, podName).
DeletePodLocked ==
    /\ sync.at = "lockDelete"
    /\ LockFree(sync.gen)
    /\ phase' = [phase EXCEPT ![sync.gen] = "deleted"]
    /\ Send(sync.gen, "DELETE")
    /\ Upload(Absent)
    /\ name2pod' = NoGen
    /\ sync' = SyncIdle
    /\ UNCHANGED <<ids, canProbeWork, responseChan, closed, worker, listener, prober,
                   docker, deleteResult>>

-----------------------------------------------------------------------------
(* The prober of StartProbe.  A tick that finds the lock taken for a       *)
(* moment is the same as a later tick, so waiting is a state of its own    *)
(* only where the lock is not coming back.                                 *)

ProbeAllowed(g) == canProbeWork[g] /\ phase[g] \notin Unprobed

\* Mutant of ProberTick: canProbeWork is not cleared.
ProberTickKeepsProbing(g) ==
    /\ prober[g] = "idle"
    /\ LockFree(g)
    /\ ProbeAllowed(g)
    /\ Send(g, "PROBE")
    /\ UNCHANGED <<podVars, responseChan, closed, goroutines, name2pod, docker, etcd,
                   deleteResult>>

\* <-p.timer.C with rwLock to be had: the guarded send of PROBE_POD.
ProberTick(g) ==
    /\ prober[g] = "idle"
    /\ LockFree(g)
    /\ ProbeAllowed(g)
    /\ Send(g, "PROBE")
    /\ canProbeWork' = [canProbeWork EXCEPT ![g] = FALSE]
    /\ UNCHANGED <<phase, ids, responseChan, closed, goroutines, name2pod, docker, etcd, deleteResult>>

\* <-p.timer.C while releaseResource or a panicked listener holds rwLock.
ProberBlocks(g) ==
    /\ prober[g] = "idle"
    /\ ~LockFree(g)
    /\ prober' = [prober EXCEPT ![g] = "wantLock"]
    /\ UNCHANGED <<podVars, channels, worker, listener, sync, name2pod, docker, etcd, deleteResult>>

-----------------------------------------------------------------------------
(* podWorker.SyncLoop and the docker calls of dockerClient.HandleCommand.  *)

FirstStep(type) ==
    CASE type = "ADD" -> "inspectNames"
      [] type = "PROBE" -> "probe"
      [] type = "DELETE" -> "stop"

WorkerTake(g) ==
    /\ worker[g].at = "idle"
    /\ commandChan[g] # <<>>
    /\ worker' = [worker EXCEPT ![g].at = FirstStep(Head(commandChan[g]).type),
                                ![g].job = Head(commandChan[g])]
    /\ commandChan' = [commandChan EXCEPT ![g] = Tail(@)]
    /\ UNCHANGED <<podVars, responseChan, closed, listener, prober, sync, name2pod,
                   docker, etcd, deleteResult>>

\* The channel is closed and drained: SyncLoop returns.
WorkerExit(g) ==
    /\ worker[g].at = "idle"
    /\ commandChan[g] = <<>>
    /\ closed[g]
    /\ worker' = [worker EXCEPT ![g] = WorkerAt("exited")]
    /\ UNCHANGED <<podVars, channels, listener, prober, sync, name2pod, docker, etcd, deleteResult>>

Advance(g, step) == worker' = [worker EXCEPT ![g].at = step]
Answer(g, result) == worker' = [worker EXCEPT ![g].at = "respond", ![g].result = result]

\* A docker step changes the container group and the worker only.
DockerStep(g, step) ==
    /\ worker[g].at = step
    /\ UNCHANGED <<podVars, channels, listener, prober, sync, name2pod, etcd>>

\* Mutant of InspectNames: an error is dropped instead of answered.
InspectNamesDropsError(g) ==
    /\ DockerStep(g, "inspectNames")
    /\ \/ Advance(g, IF docker = NoGroup THEN "create" ELSE "removeNamed")
       \/ "create" \in Faults /\ worker' = [worker EXCEPT ![g] = WorkerAt("idle")]
    /\ UNCHANGED <<docker, deleteResult>>

\* deleteExitedContainers: without a docker client the error is answered, but an error of
\* ContainerInspect(name) counts as "no such container".
InspectNames(g) ==
    /\ DockerStep(g, "inspectNames")
    /\ \/ Advance(g, IF docker = NoGroup THEN "create" ELSE "removeNamed")
       \/ "create" \in Faults /\ (Advance(g, "create") \/ Answer(g, "err"))
    /\ UNCHANGED <<docker, deleteResult>>

\* The group with at least one of its containers stopped.
Stopped == [docker EXCEPT !.state = "exited"]

\* deleteExitedContainers: ContainerStop and ContainerRemove of what was inspected;
\* both answer an error when another worker removed it meanwhile, and a container that was
\* stopped stays when its removal fails.
RemoveNamed(g) ==
    /\ DockerStep(g, "removeNamed")
    /\ \/ docker # NoGroup /\ docker' = NoGroup /\ Advance(g, "create")
       \/ docker = NoGroup /\ UNCHANGED docker /\ Answer(g, "err")
       \/ /\ "create" \in Faults
          /\ \/ UNCHANGED docker
             \/ docker # NoGroup /\ docker' = Stopped
          /\ Answer(g, "err")
    /\ UNCHANGED deleteResult

\* The rest of createContainersOfPod: pull, create, start, read the network.  A name in
\* use is an error; a failure half way leaves containers behind ("created").
CreateContainers(g) ==
    /\ DockerStep(g, "create")
    /\ \/ /\ docker = NoGroup
          /\ docker' = [gen |-> g, state |-> "running"]
          /\ Answer(g, "ok")
       \/ /\ docker = NoGroup
          /\ "create" \in Faults
          /\ docker' \in {NoGroup, [gen |-> g, state |-> "created"]}
          /\ Answer(g, "err")
       \/ docker # NoGroup /\ UNCHANGED docker /\ Answer(g, "err")
    /\ UNCHANGED deleteResult

\* docker calls on ids find the group only if it is this incarnation's.
Found(g) == worker[g].job.ids /\ docker.gen = g

ProbeContainers(g) ==
    /\ DockerStep(g, "probe")
    /\ \/ Found(g) /\ Answer(g, docker.state)
       \/ (~Found(g) \/ "probe" \in Faults) /\ Answer(g, "err")
    /\ UNCHANGED <<docker, deleteResult>>

\* Mutant of FailDelete: a failed deletion is not answered.
FailDeleteSilently(g, why) ==
    /\ worker' = [worker EXCEPT ![g] = WorkerAt("idle")]
    /\ deleteResult' = [deleteResult EXCEPT ![g] = why]
    /\ UNCHANGED docker

FailDelete(g, why) ==
    /\ Answer(g, "err")
    /\ deleteResult' = [deleteResult EXCEPT ![g] = why]
    /\ UNCHANGED docker

\* deleteContainers stops every id first, an error ending it half way ...
StopContainers(g) ==
    /\ DockerStep(g, "stop")
    /\ \/ /\ Found(g)
          /\ docker' = Stopped
          /\ Advance(g, "remove")
          /\ UNCHANGED deleteResult
       \/ ~worker[g].job.ids /\ FailDelete(g, "noIds")
       \/ worker[g].job.ids /\ ~Found(g) /\ FailDelete(g, "gone")
       \/ "remove" \in Faults /\ FailDelete(g, "fault")
       \/ /\ "remove" \in Faults
          /\ Found(g)
          /\ docker' = Stopped
          /\ Answer(g, "err")
          /\ deleteResult' = [deleteResult EXCEPT ![g] = "fault"]

\* Mutant of RemoveContainers: stopped containers are not removed.
RemoveNothing(g) ==
    /\ DockerStep(g, "remove")
    /\ Answer(g, "ok")
    /\ UNCHANGED <<docker, deleteResult>>

\* ... and then removes them.
RemoveContainers(g) ==
    /\ DockerStep(g, "remove")
    /\ \/ /\ Found(g)
          /\ docker' = NoGroup
          /\ Answer(g, "ok")
          /\ deleteResult' = [deleteResult EXCEPT ![g] = "removed"]
       \/ ~Found(g) /\ FailDelete(g, "gone")
       \/ "remove" \in Faults /\ FailDelete(g, "fault")

\* responses <- result
WorkerRespond(g) ==
    /\ worker[g].at = "respond"
    /\ ~closed[g]
    /\ responseChan' = [responseChan EXCEPT ![g] =
           Append(@, [type |-> worker[g].job.type, result |-> worker[g].result])]
    /\ worker' = [worker EXCEPT ![g] = WorkerAt("idle")]
    /\ UNCHANGED <<podVars, commandChan, closed, listener, prober, sync, name2pod, docker,
                   etcd, deleteResult>>

\* A send on a closed channel panics: the kubelet process ends, with every goroutine.
WorkerPanics(g) ==
    /\ worker[g].at = "respond"
    /\ closed[g]
    /\ worker' = [h \in Gens |-> WorkerAt("exited")]
    /\ listener' = [h \in Gens |-> ListenerAt("exited")]
    /\ prober' = [h \in Gens |-> "exited"]
    /\ sync' = [SyncIdle EXCEPT !.at = "dead"]
    /\ UNCHANGED <<podVars, channels, name2pod, docker, etcd, deleteResult>>

\* A container of the group ends by itself.
ContainerExits ==
    /\ docker.state = "running"
    /\ docker' = [docker EXCEPT !.state = "exited"]
    /\ UNCHANGED <<podVars, channels, goroutines, name2pod, etcd, deleteResult>>

-----------------------------------------------------------------------------
(* listeningResponse and its deferred releaseResource.                     *)

ListenerTake(g) ==
    /\ listener[g].at = "idle"
    /\ responseChan[g] # <<>>
    /\ LET r == Head(responseChan[g]) IN
          listener' = [listener EXCEPT
              ![g] = [at |-> IF r.type = "DELETE" THEN "release" ELSE "handle", resp |-> r]]
    /\ responseChan' = [responseChan EXCEPT ![g] = Tail(@)]
    /\ UNCHANGED <<podVars, commandChan, closed, worker, prober, sync, name2pod, docker,
                   etcd, deleteResult>>

Handling(g, type) ==
    /\ listener[g].at = "handle"
    /\ listener[g].resp.type = type
    /\ LockFree(g)
    /\ UNCHANGED <<channels, worker, prober, sync, name2pod, docker, deleteResult>>

ListenerIdle(g) == listener' = [listener EXCEPT ![g] = ListenerAt("idle")]

\* ADD_POD answered: SetContainersAndStatus, setIpAddress, uploadPod.
AddSucceeded(g) ==
    /\ Handling(g, "ADD")
    /\ listener[g].resp.result = "ok"
    /\ ids' = [ids EXCEPT ![g] = TRUE]
    /\ phase' = [phase EXCEPT ![g] = "Running"]
    /\ Upload("Running")
    /\ ListenerIdle(g)
    /\ UNCHANGED canProbeWork

\* ADD_POD failed: NetWorkInfos is nil and line 210 dereferences it with the lock held,
\* before Err is looked at.
AddFailed(g) ==
    /\ Handling(g, "ADD")
    /\ listener[g].resp.result = "err"
    /\ listener' = [listener EXCEPT ![g] = ListenerAt("panicked")]
    /\ UNCHANGED <<podVars, etcd>>

\* The status a probe answer stands for.
StatusOf(result) ==
    CASE result = "created" -> "created"
      [] result = "exited" -> "Exited"
      [] OTHER -> "Running"

ProbeAnswered(g) ==
    /\ Handling(g, "PROBE")
    /\ LET result == listener[g].resp.result
           status == StatusOf(result)
       IN \/ /\ phase[g] = "deleted"
             /\ canProbeWork' = [canProbeWork EXCEPT ![g] = FALSE]
             /\ UNCHANGED <<phase, etcd>>
          \/ /\ phase[g] # "deleted"
             /\ canProbeWork' = [canProbeWork EXCEPT ![g] = TRUE]
             /\ \/ /\ result = "err"
                   /\ phase' = [phase EXCEPT ![g] = "Failed"]
                   /\ UNCHANGED etcd
                \/ /\ result # "err"
                   /\ phase' = [phase EXCEPT ![g] = status]
                   /\ IF phase[g] = status THEN UNCHANGED etcd ELSE Upload(status)
    /\ ListenerIdle(g)
    /\ UNCHANGED ids

\* releaseResource up to the blocking send p.stopChan <- true.
ReleaseLock(g) ==
    /\ listener[g].at = "release"
    /\ LockFree(g)
    /\ canProbeWork' = [canProbeWork EXCEPT ![g] = FALSE]
    /\ listener' = [listener EXCEPT ![g] = ListenerAt("stopping")]
    /\ UNCHANGED <<phase, ids, channels, worker, prober, sync, name2pod, docker, etcd, deleteResult>>

\* The unbuffered stopChan is received by the prober's select; both channels close.
ReleaseResource(g) ==
    /\ listener[g].at = "stopping"
    /\ prober[g] = "idle"
    /\ prober' = [prober EXCEPT ![g] = "exited"]
    /\ closed' = [closed EXCEPT ![g] = TRUE]
    /\ listener' = [listener EXCEPT ![g] = ListenerAt("exited")]
    /\ UNCHANGED <<podVars, commandChan, responseChan, worker, sync, name2pod, docker,
                   etcd, deleteResult>>

-----------------------------------------------------------------------------
SyncLoop == SendAdd \/ MarshalPod \/ PutNewPod \/ DeletePodLocked
Worker(g) ==
    \/ WorkerTake(g) \/ WorkerExit(g) \/ WorkerRespond(g) \/ WorkerPanics(g)
    \/ InspectNames(g) \/ RemoveNamed(g) \/ CreateContainers(g)
    \/ ProbeContainers(g) \/ StopContainers(g) \/ RemoveContainers(g)
Listener(g) ==
    \/ ListenerTake(g) \/ AddSucceeded(g) \/ AddFailed(g) \/ ProbeAnswered(g)
    \/ ReleaseLock(g) \/ ReleaseResource(g)
Prober(g) == ProberTick(g) \/ ProberBlocks(g)

Next ==
    \/ SyncLoop
    \/ DeletePod
    \/ ContainerExits
    \/ \E g \in Gens : NewPod(g) \/ Worker(g) \/ Listener(g) \/ Prober(g)

\* Go runs every runnable goroutine; nothing makes the user delete or create a pod, a
\* container exit or the 60 s timer fire at a given moment.
Fairness ==
    /\ WF_vars(SyncLoop)
    /\ \A g \in Gens : WF_vars(Worker(g)) /\ WF_vars(Listener(g))

Spec == Init /\ [][Next]_vars
FairSpec == Spec /\ Fairness

-----------------------------------------------------------------------------
\* Every variable has its type; in particular a pod's phase is one of the code's own words,
\* although the listener copies it from what docker answers.
TypeOK ==
    /\ phase \in [Gens -> Phases]
    /\ ids \in [Gens -> BOOLEAN]
    /\ canProbeWork \in [Gens -> BOOLEAN]
    /\ commandChan \in [Gens -> Seq(Command)]
    /\ responseChan \in [Gens -> Seq(Response)]
    /\ closed \in [Gens -> BOOLEAN]
    /\ worker \in [Gens -> [at : WorkerSteps, job : Command, result : Results]]
    /\ listener \in [Gens -> [at : ListenerSteps, resp : Response]]
    /\ prober \in [Gens -> ProberSteps]
    /\ sync \in [at : SyncSteps, gen : Gens \cup {NoGen}, snapshot : Phases]
    /\ name2pod \in Gens \cup {NoGen}
    /\ docker \in [gen : Gens \cup {NoGen}, state : {"none", "created", "running", "exited"}]
    /\ etcd \in Phases \cup {Absent}
    /\ deleteResult \in [Gens -> {"none", "noIds", "gone", "fault", "removed"}]

Outstanding(g) ==
    Len(commandChan[g]) + Len(responseChan[g])
      + (IF worker[g].at \in {"off", "idle", "exited"} THEN 0 ELSE 1)
      + (IF listener[g].at = "handle" THEN 1 ELSE 0)

\* The channels of an incarnation never fill (their capacity is 100), so no sender ever
\* blocks while it holds rwLock: one ADD, one DELETE and, because canProbeWork is cleared
\* by every probe and set again only by its answer, one PROBE are under way at most.
ChannelsNeverFill == \A g \in Gens : Outstanding(g) <= 3

\* StartProbe never asks docker about an empty container id: the phases it skips are
\* exactly those in which the ids may be missing (pod.go:350).
ProbesCarryIds ==
    \A g \in Gens :
       /\ \A i \in 1..Len(commandChan[g]) :
             commandChan[g][i].type = "PROBE" => commandChan[g][i].ids
       /\ worker[g].at = "probe" => worker[g].job.ids

\* The step is PutNewPod's, NewPodfromConfig's upload of the pod as it was marshalled.
SlowUpload == sync.at = "put" /\ sync'.at # "put"
\* The step is that of a listener which handles an answer.
Answers(g) == listener[g].at = "handle" /\ listener'[g].at # "handle"

\* A pod whose containers exited is not taken for alive again: its phase stays Exited until
\* it is deleted, which needs that no second probe was under way, and so does the entry
\* that the replica count reads (IsPodActive), even when an upload fails.  Two writers break
\* in on the entry: the upload of the pod's creation, which marshals before and stores
\* after other steps (pod.go:183), and another incarnation of the same name.
ExitedIsFinal ==
    [][\A g \in Gens : phase[g] = "Exited" =>
          /\ phase'[g] \in {"Exited", "deleted"}
          /\ etcd = "Exited" /\ etcd' \notin {"Exited", Absent} =>
                SlowUpload \/ \E h \in Gens \ {g} : Answers(h)]_vars

Alive == sync.at # "dead"
Unmanaged(g) == Alive /\ phase[g] # "unborn" /\ name2pod # g /\ sync.gen # g
Drained(g) == commandChan[g] = <<>> /\ worker[g].at \in {"idle", "exited"}

\* Once the commands of a deleted incarnation are done, its containers are gone, unless
\* docker refused or DeletePod overtook the answer to ADD_POD and so had no ids to send.
OrphanOnlyIfDeleteOvertook ==
    \A g \in Gens :
       Unmanaged(g) /\ Drained(g) /\ docker.gen = g => deleteResult[g] \in {"noIds", "fault"}

\* While no pod of this name is managed, a runtime entry in etcd belongs to an incarnation
\* that the late answer to ADD_POD brought back from "deleted" (pod.go:218-220).
GhostEntryIsResurrected ==
    name2pod = NoGen /\ sync.at = "idle" /\ etcd # Absent =>
       "api" \in Faults \/ \E g \in Gens : phase[g] \notin {"unborn", "deleted"}

\* A created pod does not stay Pending: docker's answer reaches it, it is deleted, or the
\* answer was the failure that listeningResponse does not survive.
PendingResolves ==
    \A g \in Gens :
       phase[g] = "Pending" ~> phase[g] # "Pending" \/ listener[g].at = "panicked" \/ ~Alive

\* releaseResource holds rwLock and waits for the prober, which waits for rwLock.
StopCycle(g) == listener[g].at = "stopping" /\ prober[g] = "wantLock"

\* Deleting a pod ends its listener and closes its channels, except through the one cycle
\* of stopChan and rwLock and the failed ADD_POD.
DeleteCompletes ==
    \A g \in Gens :
       phase[g] = "deleted" ~>
          listener[g].at \in {"exited", "panicked"} \/ StopCycle(g)

\* releaseResource: "take the lock so that nothing dies" (pod.go:396): the worker never
\* answers on a channel that was closed.
NoSendOnClosedChannel == \A g \in Gens : ~(worker[g].at = "respond" /\ closed[g])

\* podManager keeps the pods that run: a pod whose containers could not be created is
\* reported Failed (pod.go:211-216), or deleted.
FailedCreateReported ==
    \A g \in Gens :
       worker[g].at = "respond" /\ worker[g].job.type = "ADD" /\ worker[g].result = "err"
          ~> phase[g] \in {"Failed", "deleted"}

=============================================================================
