-------------------------- MODULE PodRuntime_proofs --------------------------
(***************************************************************************)
(* The goroutines of a pod's incarnations, for any number of incarnations  *)
(* and any external calls that may fail.                                   *)
(***************************************************************************)
EXTENDS PodRuntime, SequenceTheorems, TLAPS

\* A command or an answer of type t is in the queue q, and at most one is.
Holds(q, t) == \E i \in 1..Len(q) : q[i].type = t
Once(q, t) == \A i, j \in 1..Len(q) : q[i].type = t /\ q[j].type = t => i = j

Working(g) == worker[g].at \notin {"off", "idle", "exited"}
WorksOn(g, t) == Working(g) /\ worker[g].job.type = t
Handles(g, t) == listener[g].at = "handle" /\ listener[g].resp.type = t

\* A command of type t or its answer is somewhere between prober, worker and listener.
UnderWay(g, t) ==
    Holds(commandChan[g], t) \/ WorksOn(g, t) \/ Holds(responseChan[g], t) \/ Handles(g, t)

\* It is in one place only.
Alone(g, t) ==
    /\ Once(commandChan[g], t) /\ Once(responseChan[g], t)
    /\ Holds(commandChan[g], t) => ~WorksOn(g, t) /\ ~Holds(responseChan[g], t) /\ ~Handles(g, t)
    /\ WorksOn(g, t) => ~Holds(responseChan[g], t) /\ ~Handles(g, t)
    /\ Holds(responseChan[g], t) => ~Handles(g, t)

\* An incarnation that is not created yet has nothing.
UnbornIdle(g) ==
    phase[g] = "unborn" =>
       /\ commandChan[g] = <<>> /\ responseChan[g] = <<>>
       /\ worker[g].at \in {"off", "exited"} /\ listener[g].at \in {"off", "exited"}
       /\ prober[g] \in {"off", "exited"} /\ ~ids[g] /\ ~closed[g]

\* The worker is at a step of the command it took; one that removes by id has ids.
JobFits(g) ==
    /\ worker[g].at \in {"inspectNames", "removeNamed", "create"} => worker[g].job.type = "ADD"
    /\ worker[g].at = "probe" => worker[g].job.type = "PROBE"
    /\ worker[g].at \in {"stop", "remove"} => worker[g].job.type = "DELETE"
    /\ worker[g].at = "remove" => worker[g].job.ids

\* ADD is the first command: nothing was taken before it.
AddFirst(g) ==
    \A i \in 1..Len(commandChan[g]) :
       commandChan[g][i].type = "ADD" => i = 1 /\ worker[g].at \in {"idle", "exited"}

\* There is one ADD, and its good answer is what gives a pod its ids.
AddOnce(g) ==
    /\ Alone(g, "ADD")
    /\ ids[g] => ~UnderWay(g, "ADD")
    /\ phase[g] \in {"Running", "created", "Exited"} => ids[g]

\* There is one PROBE at a time, and canProbeWork says so; the pod it is about has started and
\* has not been found exited.
ProbeOnce(g) ==
    /\ Alone(g, "PROBE")
    /\ UnderWay(g, "PROBE") =>
          ids[g] /\ ~canProbeWork[g] /\ phase[g] \in {"Running", "created", "deleted"}

IdsCarried(g) ==
    /\ \A i \in 1..Len(commandChan[g]) :
          commandChan[g][i].type = "PROBE" => commandChan[g][i].ids
    /\ worker[g].at = "probe" => worker[g].job.ids

\* What concerns one incarnation only.
LocalInv(g) ==
    UnbornIdle(g) /\ JobFits(g) /\ AddFirst(g) /\ AddOnce(g) /\ ProbeOnce(g) /\ IdsCarried(g)

Creating == sync.at \in {"sendAdd", "marshal", "put"}

\* The sync loop and name2pod.
SyncInv ==
    /\ Creating => /\ sync.gen \in Gens /\ name2pod = NoGen
                   /\ phase[sync.gen] \notin {"unborn", "deleted"}
    /\ sync.at = "lockDelete" => sync.gen = name2pod /\ name2pod # NoGen
    /\ sync.at \in {"idle", "dead"} => sync.gen = NoGen
    /\ name2pod # NoGen => phase[name2pod] # "unborn"
    /\ sync.at = "sendAdd" =>
          /\ phase[sync.gen] \in {"Pending", "Failed"} /\ ~ids[sync.gen] /\ ~closed[sync.gen]
          /\ commandChan[sync.gen] = <<>> /\ responseChan[sync.gen] = <<>>
          /\ worker[sync.gen].at = "idle" /\ listener[sync.gen].at = "idle"

\* Commands an incarnation has been sent: its ADD, its DELETE, and a PROBE until it is answered.
AddSent(g) == phase[g] # "unborn" /\ ~(sync.at = "sendAdd" /\ sync.gen = g)
DeleteSent(g) == phase[g] # "unborn" /\ name2pod # g /\ sync.gen # g
Budget(g) ==
    (IF AddSent(g) THEN 1 ELSE 0) + (IF DeleteSent(g) THEN 1 ELSE 0)
      + (IF canProbeWork[g] THEN 0 ELSE 1)
WithinBudget == \A g \in Gens : Outstanding(g) <= Budget(g)

\* The deletion of an incarnation is still to come, or it is over: then nobody will create
\* containers for it any more, and if there are some, docker refused or was given no ids.
AddPending(g) ==
    Holds(commandChan[g], "ADD") \/ worker[g].at \in {"inspectNames", "removeNamed", "create"}
DeletePending(g) == Holds(commandChan[g], "DELETE") \/ worker[g].at \in {"stop", "remove"}
DeletionOver(g) ==
    ~AddPending(g) /\ (docker.gen = g => deleteResult[g] \in {"noIds", "fault"})
DeletionInv == \A g \in Gens : Unmanaged(g) => DeletePending(g) \/ DeletionOver(g)

\* An entry in etcd is that of a pod, unless a request failed.
EntryHasPod ==
    etcd # Absent => "api" \in Faults \/ \E g \in Gens : phase[g] \notin {"unborn", "deleted"}

RuntimeInv ==
    TypeOK /\ (\A g \in Gens : LocalInv(g)) /\ SyncInv /\ WithinBudget /\ DeletionInv /\ EntryHasPod

-----------------------------------------------------------------------------
(* Type correctness.                                                       *)

\* Head and Tail of a non-empty queue of S.
LEMMA HeadTail ==
    ASSUME NEW S, NEW q \in Seq(S), q # <<>>
    PROVE  Head(q) \in S /\ Tail(q) \in Seq(S)
OBVIOUS

\* The kubelet's commands fit the channel.
LEMMA SendType ==
    ASSUME TypeOK, NEW g \in Gens, NEW t \in CommandTypes, Send(g, t)
    PROVE  commandChan' \in [Gens -> Seq(Command)]
<1>1. [type |-> t, ids |-> ids[g]] \in Command
  BY DEF TypeOK, Command
<1>2. Append(commandChan[g], [type |-> t, ids |-> ids[g]]) \in Seq(Command)
  BY <1>1 DEF TypeOK
<1>3. QED BY <1>2 DEF TypeOK, Send

\* What is uploaded is a phase or the removal of the entry.
LEMMA UploadType ==
    ASSUME TypeOK, NEW v \in Phases \cup {Absent}, Upload(v)
    PROVE  etcd' \in Phases \cup {Absent}
BY DEF TypeOK, Upload

\* A worker or listener at some step has its type.
LEMMA AtTypes ==
    /\ \A s \in WorkerSteps : WorkerAt(s) \in [at : WorkerSteps, job : Command, result : Results]
    /\ \A s \in ListenerSteps : ListenerAt(s) \in [at : ListenerSteps, resp : Response]
BY DEF WorkerAt, ListenerAt, NoCommand, NoResponse, Command, Response, CommandTypes, Results

WorkerRecord == [at : WorkerSteps, job : Command, result : Results]
WorkerType == [Gens -> WorkerRecord]
ListenerType == [Gens -> [at : ListenerSteps, resp : Response]]
DockerType == [gen : Gens \cup {NoGen}, state : {"none", "created", "running", "exited"}]
ResultType == [Gens -> {"none", "noIds", "gone", "fault", "removed"}]

\* The worker goes on to another step, with the same command.
LEMMA AdvanceType ==
    ASSUME TypeOK, NEW g \in Gens, NEW s \in WorkerSteps, Advance(g, s)
    PROVE  worker' \in WorkerType
<1>1. worker[g] \in WorkerRecord
  BY DEF TypeOK, WorkerRecord
<1>2. [worker[g] EXCEPT !.at = s] \in WorkerRecord
  BY <1>1 DEF WorkerRecord
<1>3. worker' = [worker EXCEPT ![g] = [worker[g] EXCEPT !.at = s]]
  BY DEF Advance
<1>4. QED BY <1>2, <1>3 DEF TypeOK, WorkerType, WorkerRecord

\* The worker has a result to answer with.
LEMMA AnswerType ==
    ASSUME TypeOK, NEW g \in Gens, NEW r \in Results, Answer(g, r)
    PROVE  worker' \in WorkerType
<1>1. worker[g] \in WorkerRecord
  BY DEF TypeOK, WorkerRecord
<1>2. [worker[g] EXCEPT !.at = "respond", !.result = r] \in WorkerRecord
  BY <1>1 DEF WorkerRecord, WorkerSteps
<1>3. worker' = [worker EXCEPT ![g] = [worker[g] EXCEPT !.at = "respond", !.result = r]]
  BY <1>1 DEF Answer, TypeOK, WorkerRecord
<1>4. QED BY <1>2, <1>3 DEF TypeOK, WorkerType, WorkerRecord

\* TypeOK is not inductive: SendAdd sends to whatever sync.gen is, and a probe answers with
\* whatever state the containers it found are in.
SyncHasGen == sync.at \notin {"idle", "dead"} => sync.gen \in Gens
GroupHasState == docker.gen # NoGen => docker.state # "none"
TypeInv == TypeOK /\ SyncHasGen /\ GroupHasState

\* TypeInv holds at the start.
LEMMA TypeInit == Init => TypeInv
<1> SUFFICES ASSUME Init PROVE TypeInv
  OBVIOUS
<1>1. worker \in WorkerType /\ listener \in ListenerType
  BY AtTypes DEF Init, WorkerSteps, ListenerSteps, WorkerType, WorkerRecord, ListenerType
<1>2. /\ sync \in [at : SyncSteps, gen : Gens \cup {NoGen}, snapshot : Phases]
      /\ docker \in [gen : Gens \cup {NoGen}, state : {"none", "created", "running", "exited"}]
  BY DEF Init, SyncIdle, SyncSteps, Phases, NoGroup
<1>3. SyncHasGen /\ GroupHasState
  BY DEF Init, SyncIdle, SyncHasGen, GroupHasState, NoGroup
<1>4. QED
  BY <1>1, <1>2, <1>3 DEF Init, TypeInv, TypeOK, Phases, ProberSteps, WorkerType, WorkerRecord, ListenerType

\* The actions of the sync loop keep TypeInv.
LEMMA NewPodType == ASSUME TypeInv, NEW g \in Gens, NewPod(g) PROVE TypeInv'
<1>1. worker' \in WorkerType /\ listener' \in ListenerType
  BY AtTypes DEF NewPod, TypeInv, TypeOK, WorkerSteps, ListenerSteps, WorkerType, WorkerRecord, ListenerType
<1>2. phase' \in [Gens -> Phases]
  <2>1. PICK s \in {"Pending", "Failed"} : phase' = [phase EXCEPT ![g] = s]
    BY DEF NewPod
  <2>2. QED BY <2>1 DEF TypeInv, TypeOK, Phases
<1>3. /\ sync' \in [at : SyncSteps, gen : Gens \cup {NoGen}, snapshot : Phases]
      /\ sync'.gen \in Gens
      /\ canProbeWork' \in [Gens -> BOOLEAN] /\ prober' \in [Gens -> ProberSteps]
  BY DEF NewPod, TypeInv, TypeOK, SyncSteps, ProberSteps
<1>4. QED
  BY <1>1, <1>2, <1>3
  DEF NewPod, TypeInv, TypeOK, SyncHasGen, GroupHasState, channels, WorkerType, WorkerRecord, ListenerType

\* syncLoop and DeletePod keep the types.
LEMMA SyncLoopType == ASSUME TypeInv, SyncLoop \/ DeletePod PROVE TypeInv'
<1> USE DEF TypeInv
<1>1. CASE SendAdd
  <2>1. sync.gen \in Gens
    BY <1>1 DEF SyncHasGen, GroupHasState, SendAdd
  <2>2. commandChan' \in [Gens -> Seq(Command)]
    BY <1>1, <2>1, SendType DEF SendAdd, CommandTypes
  <2>3. QED BY <1>1, <2>1, <2>2 DEF SendAdd, TypeOK, SyncHasGen, GroupHasState, podVars, SyncSteps
<1>2. CASE MarshalPod
  <2>1. sync.gen \in Gens
    BY <1>2 DEF SyncHasGen, GroupHasState, MarshalPod
  <2>2. QED BY <1>2, <2>1 DEF MarshalPod, TypeOK, SyncHasGen, GroupHasState, podVars, channels, SyncSteps
<1>3. CASE PutNewPod
  <2>1. sync.gen \in Gens /\ sync.snapshot \in Phases
    BY <1>3 DEF SyncHasGen, GroupHasState, PutNewPod, TypeOK
  <2>2. etcd' \in Phases \cup {Absent}
    BY <1>3, <2>1, UploadType DEF PutNewPod
  <2>3. QED
    BY <1>3, <2>1, <2>2
    DEF PutNewPod, TypeOK, SyncHasGen, GroupHasState, podVars, channels, SyncIdle, SyncSteps, Phases
<1>4. CASE DeletePodLocked
  <2>1. sync.gen \in Gens
    BY <1>4 DEF SyncHasGen, GroupHasState, DeletePodLocked
  <2>2. commandChan' \in [Gens -> Seq(Command)]
    BY <1>4, <2>1, SendType DEF DeletePodLocked, CommandTypes
  <2>3. etcd' \in Phases \cup {Absent}
    BY <1>4, UploadType DEF DeletePodLocked
  <2>4. phase' \in [Gens -> Phases]
    BY <1>4 DEF DeletePodLocked, TypeOK, Phases
  <2>5. sync' \in [at : SyncSteps, gen : Gens \cup {NoGen}, snapshot : Phases] /\ SyncHasGen'
    BY <1>4 DEF DeletePodLocked, SyncIdle, SyncSteps, Phases, SyncHasGen
  <2>6. QED
    BY <1>4, <2>2, <2>3, <2>4, <2>5 DEF DeletePodLocked, TypeOK, GroupHasState
<1>5. CASE DeletePod
  BY <1>5 DEF DeletePod, TypeOK, SyncHasGen, GroupHasState, podVars, channels, SyncSteps
<1>6. QED BY <1>1, <1>2, <1>3, <1>4, <1>5 DEF SyncLoop

\* The timer goroutine that sends probes keeps the types.
LEMMA ProberType == ASSUME TypeInv, NEW g \in Gens, Prober(g) PROVE TypeInv'
<1> USE DEF TypeInv
<1>1. CASE ProberTick(g)
  <2>1. commandChan' \in [Gens -> Seq(Command)]
    BY <1>1, SendType DEF ProberTick, CommandTypes
  <2>2. QED BY <1>1, <2>1 DEF ProberTick, TypeOK, SyncHasGen, GroupHasState, goroutines
<1>2. CASE ProberBlocks(g)
  BY <1>2 DEF ProberBlocks, TypeOK, SyncHasGen, GroupHasState, podVars, channels, ProberSteps
<1>3. QED BY <1>1, <1>2 DEF Prober

\* A docker step changes worker, containers and deleteResult only.
LEMMA DockerStepType ==
    ASSUME TypeInv, NEW g \in Gens, NEW s, DockerStep(g, s), worker' \in WorkerType,
           docker' \in DockerType, GroupHasState', deleteResult' \in ResultType
    PROVE  TypeInv'
BY DEF DockerStep, TypeInv, TypeOK, SyncHasGen, podVars, channels, WorkerType, WorkerRecord,
       DockerType, ResultType

\* The steps of the worker keep TypeInv.
LEMMA WorkerTypes == ASSUME TypeInv, NEW g \in Gens, Worker(g) PROVE TypeInv'
<1>0. /\ TypeOK /\ SyncHasGen /\ GroupHasState
      /\ worker \in WorkerType /\ docker \in DockerType /\ deleteResult \in ResultType
  BY DEF TypeInv, TypeOK, WorkerType, WorkerRecord, DockerType, ResultType
<1>1. CASE WorkerTake(g)
  <2>1. Head(commandChan[g]) \in Command /\ Tail(commandChan[g]) \in Seq(Command)
    BY <1>0, <1>1, HeadTail DEF TypeOK, WorkerTake
  <2>2. commandChan' \in [Gens -> Seq(Command)]
    BY <1>0, <1>1, <2>1 DEF TypeOK, WorkerTake
  <2>3. FirstStep(Head(commandChan[g]).type) \in WorkerSteps
    BY <2>1 DEF Command, CommandTypes, FirstStep, WorkerSteps
  <2>4. worker' \in WorkerType
    <3> DEFINE taken == [worker[g] EXCEPT !.at = FirstStep(Head(commandChan[g]).type),
                                          !.job = Head(commandChan[g])]
    <3>1. taken \in WorkerRecord
      BY <1>0, <2>1, <2>3 DEF WorkerType, WorkerRecord
    <3>2. worker' = [worker EXCEPT ![g] = taken]
      BY <1>0, <1>1 DEF WorkerTake, WorkerType, WorkerRecord
    <3>3. QED BY <1>0, <3>1, <3>2 DEF WorkerType
  <2>5. QED
    BY <1>0, <1>1, <2>2, <2>4
    DEF TypeInv, TypeOK, WorkerTake, WorkerType, WorkerRecord, SyncHasGen, GroupHasState, podVars
<1>2. CASE WorkerExit(g)
  <2>1. worker' \in WorkerType
    BY <1>0, <1>2, AtTypes DEF WorkerExit, WorkerType, WorkerRecord, WorkerSteps
  <2>2. QED
    BY <1>0, <1>2, <2>1
    DEF TypeInv, TypeOK, WorkerExit, WorkerType, WorkerRecord, SyncHasGen, GroupHasState, podVars, channels
<1>3. CASE WorkerRespond(g)
  <2>1. [type |-> worker[g].job.type, result |-> worker[g].result] \in Response
    BY <1>0 DEF WorkerType, WorkerRecord, Response, Command
  <2>2. responseChan' \in [Gens -> Seq(Response)]
    BY <1>0, <1>3, <2>1 DEF TypeOK, WorkerRespond
  <2>3. worker' \in WorkerType
    BY <1>0, <1>3, AtTypes DEF WorkerRespond, WorkerType, WorkerRecord, WorkerSteps
  <2>4. QED
    BY <1>0, <1>3, <2>2, <2>3
    DEF TypeInv, TypeOK, WorkerRespond, WorkerType, WorkerRecord, SyncHasGen, GroupHasState, podVars
<1>4. CASE WorkerPanics(g)
  <2>1. worker' \in WorkerType /\ listener' \in ListenerType
    BY <1>4, AtTypes DEF WorkerPanics, WorkerType, WorkerRecord, ListenerType, WorkerSteps, ListenerSteps
  <2>2. prober' \in [Gens -> ProberSteps]
    BY <1>4 DEF WorkerPanics, ProberSteps
  <2>3. sync' \in [at : SyncSteps, gen : Gens \cup {NoGen}, snapshot : Phases] /\ sync'.at = "dead"
    BY <1>4 DEF WorkerPanics, SyncIdle, SyncSteps, Phases
  <2>4. QED
    BY <1>0, <1>4, <2>1, <2>2, <2>3
    DEF TypeInv, TypeOK, WorkerPanics, WorkerType, WorkerRecord, ListenerType, SyncHasGen,
        GroupHasState, podVars, channels
<1>5. CASE InspectNames(g)
  <2>1. worker' \in WorkerType
    BY <1>0, <1>5, AdvanceType, AnswerType DEF InspectNames, WorkerSteps, Results
  <2>2. QED BY <1>0, <1>5, <2>1, DockerStepType DEF InspectNames, GroupHasState
<1>6. CASE RemoveNamed(g)
  <2>1. worker' \in WorkerType
    BY <1>0, <1>6, AdvanceType, AnswerType DEF RemoveNamed, WorkerSteps, Results
  <2>2. docker' \in DockerType /\ GroupHasState'
    BY <1>0, <1>6 DEF RemoveNamed, Stopped, NoGroup, DockerType, GroupHasState
  <2>3. QED BY <1>0, <1>6, <2>1, <2>2, DockerStepType DEF RemoveNamed
<1>7. CASE CreateContainers(g)
  <2>1. worker' \in WorkerType
    BY <1>0, <1>7, AnswerType DEF CreateContainers, Results
  <2>2. docker' \in DockerType /\ GroupHasState'
    BY <1>0, <1>7 DEF CreateContainers, NoGroup, DockerType, GroupHasState
  <2>3. QED BY <1>0, <1>7, <2>1, <2>2, DockerStepType DEF CreateContainers
<1>8. CASE ProbeContainers(g)
  <2>1. Found(g) => docker.state \in Results
    BY <1>0 DEF Found, DockerType, GroupHasState, Results, Gens, NoGen
  <2>2. worker' \in WorkerType
    BY <1>0, <1>8, <2>1, AnswerType DEF ProbeContainers, Results
  <2>3. QED BY <1>0, <1>8, <2>2, DockerStepType DEF ProbeContainers, GroupHasState
<1>9. CASE StopContainers(g)
  <2>1. worker' \in WorkerType
    BY <1>0, <1>9, AdvanceType, AnswerType DEF StopContainers, FailDelete, WorkerSteps, Results
  <2>2. docker' \in DockerType /\ GroupHasState'
    BY <1>0, <1>9 DEF StopContainers, FailDelete, Stopped, DockerType, GroupHasState
  <2>3. deleteResult' \in ResultType
    BY <1>0, <1>9 DEF StopContainers, FailDelete, ResultType
  <2>4. QED BY <1>0, <1>9, <2>1, <2>2, <2>3, DockerStepType DEF StopContainers
<1>10. CASE RemoveContainers(g)
  <2>1. worker' \in WorkerType
    BY <1>0, <1>10, AnswerType DEF RemoveContainers, FailDelete, Results
  <2>2. docker' \in DockerType /\ GroupHasState'
    BY <1>0, <1>10 DEF RemoveContainers, FailDelete, NoGroup, DockerType, GroupHasState
  <2>3. deleteResult' \in ResultType
    BY <1>0, <1>10 DEF RemoveContainers, FailDelete, ResultType
  <2>4. QED BY <1>0, <1>10, <2>1, <2>2, <2>3, DockerStepType DEF RemoveContainers
<1>11. QED
  BY <1>1, <1>2, <1>3, <1>4, <1>5, <1>6, <1>7, <1>8, <1>9, <1>10 DEF Worker

\* The steps of the listener keep TypeInv.
LEMMA ListenerTypes == ASSUME TypeInv, NEW g \in Gens, Listener(g) PROVE TypeInv'
<1> USE DEF TypeInv
<1>0. listener \in ListenerType
  BY DEF TypeOK, ListenerType
<1>1. CASE ListenerTake(g)
  <2>1. Head(responseChan[g]) \in Response /\ Tail(responseChan[g]) \in Seq(Response)
    BY <1>1, HeadTail DEF TypeOK, ListenerTake
  <2>2. responseChan' \in [Gens -> Seq(Response)]
    BY <1>1, <2>1 DEF TypeOK, ListenerTake
  <2>3. listener' \in ListenerType
    <3> DEFINE l == [at |-> IF Head(responseChan[g]).type = "DELETE" THEN "release" ELSE "handle",
                     resp |-> Head(responseChan[g])]
    <3>1. l \in [at : ListenerSteps, resp : Response]
      BY <2>1 DEF ListenerSteps
    <3>2. listener' = [listener EXCEPT ![g] = l]
      BY <1>1 DEF ListenerTake
    <3>3. QED BY <1>0, <3>1, <3>2 DEF ListenerType
  <2>4. QED
    BY <1>1, <2>2, <2>3
    DEF TypeOK, ListenerTake, ListenerType, SyncHasGen, GroupHasState, podVars
<1>2. CASE AddSucceeded(g)
  <2>1. listener' \in ListenerType
    BY <1>0, <1>2, AtTypes DEF AddSucceeded, ListenerIdle, ListenerType, ListenerSteps
  <2>2. etcd' \in Phases \cup {Absent}
    BY <1>2, UploadType DEF AddSucceeded, Phases
  <2>3. phase' \in [Gens -> Phases] /\ ids' \in [Gens -> BOOLEAN]
    BY <1>2 DEF AddSucceeded, TypeOK, Phases
  <2>4. QED
    BY <1>2, <2>1, <2>2, <2>3
    DEF AddSucceeded, Handling, TypeOK, ListenerType, SyncHasGen, GroupHasState, channels
<1>3. CASE AddFailed(g)
  <2>1. listener' \in ListenerType
    BY <1>0, <1>3, AtTypes DEF AddFailed, ListenerType, ListenerSteps
  <2>2. QED
    BY <1>3, <2>1
    DEF AddFailed, Handling, TypeOK, ListenerType, SyncHasGen, GroupHasState, podVars, channels
<1>4. CASE ProbeAnswered(g)
  <2>1. listener' \in ListenerType
    BY <1>0, <1>4, AtTypes DEF ProbeAnswered, ListenerIdle, ListenerType, ListenerSteps
  <2>2. StatusOf(listener[g].resp.result) \in Phases
    BY DEF StatusOf, Phases
  <2>3. etcd' \in Phases \cup {Absent}
    BY <1>4, <2>2, UploadType DEF ProbeAnswered, TypeOK
  <2>4. phase' \in [Gens -> Phases] /\ canProbeWork' \in [Gens -> BOOLEAN]
    <3>1. \E s \in Phases : phase' = [phase EXCEPT ![g] = s] \/ phase' = phase
      BY <1>4, <2>2 DEF ProbeAnswered, Phases
    <3>2. phase' \in [Gens -> Phases]
      BY <3>1 DEF TypeOK
    <3>3. canProbeWork' \in [Gens -> BOOLEAN]
      BY <1>4 DEF ProbeAnswered, TypeOK
    <3>4. QED BY <3>2, <3>3
  <2>5. QED
    BY <1>4, <2>1, <2>3, <2>4
    DEF ProbeAnswered, Handling, TypeOK, ListenerType, SyncHasGen, GroupHasState, channels
<1>5. CASE ReleaseLock(g)
  <2>1. listener' \in ListenerType
    BY <1>0, <1>5, AtTypes DEF ReleaseLock, ListenerType, ListenerSteps
  <2>2. QED
    BY <1>5, <2>1 DEF ReleaseLock, TypeOK, ListenerType, SyncHasGen, GroupHasState, channels
<1>6. CASE ReleaseResource(g)
  <2>1. listener' \in ListenerType
    BY <1>0, <1>6, AtTypes DEF ReleaseResource, ListenerType, ListenerSteps
  <2>2. QED
    BY <1>6, <2>1
    DEF ReleaseResource, TypeOK, ListenerType, SyncHasGen, GroupHasState, podVars, ProberSteps
<1>7. QED BY <1>1, <1>2, <1>3, <1>4, <1>5, <1>6 DEF Listener

\* Every step keeps TypeInv.
LEMMA TypeNext == TypeInv /\ [Next]_vars => TypeInv'
<1> SUFFICES ASSUME TypeInv, [Next]_vars PROVE TypeInv'
  OBVIOUS
<1>1. CASE SyncLoop \/ DeletePod
  BY <1>1, SyncLoopType
<1>2. CASE ContainerExits
  BY <1>2
  DEF ContainerExits, TypeInv, TypeOK, SyncHasGen, GroupHasState, podVars, channels, goroutines
<1>3. ASSUME NEW g \in Gens, NewPod(g) \/ Worker(g) \/ Listener(g) \/ Prober(g) PROVE TypeInv'
  BY <1>3, NewPodType, WorkerTypes, ListenerTypes, ProberType
<1>4. CASE UNCHANGED vars
  BY <1>4
  DEF vars, TypeInv, TypeOK, SyncHasGen, GroupHasState, podVars, channels, goroutines
<1>5. QED BY <1>1, <1>2, <1>3, <1>4 DEF Next

\* Every variable keeps its type, whatever fails: a pod's phase stays one of the code's own
\* words although the listener copies it from docker's answer.
THEOREM TypeCorrect == Spec => []TypeOK
<1>1. Init => TypeInv
  BY TypeInit
<1>2. TypeInv /\ [Next]_vars => TypeInv'
  BY TypeNext
<1>3. TypeInv => TypeOK
  BY DEF TypeInv
<1>4. QED BY <1>1, <1>2, <1>3, PTL DEF Spec

-----------------------------------------------------------------------------
(* The queues between the goroutines of one incarnation.                   *)

\* What Append does to Holds ...
LEMMA HoldsAppend ==
    ASSUME NEW S, NEW q \in Seq(S), NEW e \in S, NEW t
    PROVE  Holds(Append(q, e), t) <=> Holds(q, t) \/ e.type = t
<1> DEFINE r == Append(q, e)
<1>1. Len(r) = Len(q) + 1 /\ r[Len(q) + 1] = e /\ (\A i \in 1..Len(q) : r[i] = q[i]) /\ Len(q) \in Nat
  OBVIOUS
<1>2. ASSUME Holds(r, t) PROVE Holds(q, t) \/ e.type = t
  <2>1. PICK i \in 1..Len(r) : r[i].type = t
    BY <1>2 DEF Holds
  <2>2. CASE i = Len(q) + 1
    BY <1>1, <2>1, <2>2
  <2>3. CASE i # Len(q) + 1
    <3>1. i \in 1..Len(q)
      BY <1>1, <2>3
    <3>2. QED BY <1>1, <2>1, <3>1 DEF Holds
  <2>4. QED BY <2>2, <2>3
<1>3. ASSUME Holds(q, t) PROVE Holds(r, t)
  <2>1. PICK i \in 1..Len(q) : q[i].type = t
    BY <1>3 DEF Holds
  <2>2. i \in 1..Len(r) /\ r[i].type = t
    BY <1>1, <2>1
  <2>3. QED BY <2>2 DEF Holds
<1>4. ASSUME e.type = t PROVE Holds(r, t)
  <2>1. Len(q) + 1 \in 1..Len(r) /\ r[Len(q) + 1].type = t
    BY <1>1, <1>4
  <2>2. QED BY <2>1 DEF Holds
<1>5. QED BY <1>2, <1>3, <1>4

\* ... and to Once.
LEMMA OnceAppend ==
    ASSUME NEW S, NEW q \in Seq(S), NEW e \in S, NEW t,
           Once(q, t), e.type = t => ~Holds(q, t)
    PROVE  Once(Append(q, e), t)
<1> DEFINE r == Append(q, e)
<1>1. Len(r) = Len(q) + 1 /\ r[Len(q) + 1] = e /\ (\A i \in 1..Len(q) : r[i] = q[i]) /\ Len(q) \in Nat
  OBVIOUS
<1>2. SUFFICES ASSUME NEW i \in 1..Len(r), NEW j \in 1..Len(r), r[i].type = t, r[j].type = t
               PROVE  i = j
  BY DEF Once
<1>3. CASE i \in 1..Len(q) /\ j \in 1..Len(q)
  BY <1>1, <1>2, <1>3 DEF Once
<1>4. CASE i = Len(q) + 1 /\ j \in 1..Len(q)
  <2>1. e.type = t /\ q[j].type = t
    BY <1>1, <1>2, <1>4
  <2>2. QED BY <2>1, <1>4 DEF Holds
<1>5. CASE j = Len(q) + 1 /\ i \in 1..Len(q)
  <2>1. e.type = t /\ q[i].type = t
    BY <1>1, <1>2, <1>5
  <2>2. QED BY <2>1, <1>5 DEF Holds
<1>6. QED BY <1>1, <1>3, <1>4, <1>5

\* What taking the head does to Holds ...
LEMMA HoldsTail ==
    ASSUME NEW S, NEW q \in Seq(S), q # <<>>, NEW t
    PROVE  Holds(q, t) <=> Head(q).type = t \/ Holds(Tail(q), t)
<1> DEFINE r == Tail(q)
<1>1. /\ Len(r) = Len(q) - 1 /\ Len(q) \in Nat /\ Len(q) > 0
      /\ \A i \in 1..Len(r) : r[i] = q[i + 1]
      /\ Head(q) = q[1]
  OBVIOUS
<1>2. ASSUME Holds(q, t) PROVE Head(q).type = t \/ Holds(r, t)
  <2>1. PICK i \in 1..Len(q) : q[i].type = t
    BY <1>2 DEF Holds
  <2>2. CASE i = 1
    BY <1>1, <2>1, <2>2
  <2>3. CASE i # 1
    <3>1. i - 1 \in 1..Len(r) /\ r[i - 1].type = t
      BY <1>1, <2>1, <2>3
    <3>2. QED BY <3>1 DEF Holds
  <2>4. QED BY <2>2, <2>3
<1>3. ASSUME Head(q).type = t PROVE Holds(q, t)
  <2>1. 1 \in 1..Len(q) /\ q[1].type = t
    BY <1>1, <1>3
  <2>2. QED BY <2>1 DEF Holds
<1>4. ASSUME Holds(r, t) PROVE Holds(q, t)
  <2>1. PICK i \in 1..Len(r) : r[i].type = t
    BY <1>4 DEF Holds
  <2>2. i + 1 \in 1..Len(q) /\ q[i + 1].type = t
    BY <1>1, <2>1
  <2>3. QED BY <2>2 DEF Holds
<1>5. QED BY <1>2, <1>3, <1>4

\* ... and to Once.
LEMMA OnceTail ==
    ASSUME NEW S, NEW q \in Seq(S), q # <<>>, NEW t, Once(q, t)
    PROVE  Once(Tail(q), t) /\ (Head(q).type = t => ~Holds(Tail(q), t))
<1> DEFINE r == Tail(q)
<1>1. /\ Len(r) = Len(q) - 1 /\ Len(q) \in Nat /\ Len(q) > 0
      /\ \A i \in 1..Len(r) : r[i] = q[i + 1]
      /\ Head(q) = q[1]
  OBVIOUS
<1>2. Once(r, t)
  <2>1. SUFFICES ASSUME NEW i \in 1..Len(r), NEW j \in 1..Len(r), r[i].type = t, r[j].type = t
                 PROVE  i = j
    BY DEF Once
  <2>2. /\ i + 1 \in 1..Len(q) /\ j + 1 \in 1..Len(q)
        /\ q[i + 1].type = t /\ q[j + 1].type = t
    BY <1>1, <2>1
  <2>3. i + 1 = j + 1
    BY <2>2 DEF Once
  <2>4. QED BY <2>3
<1>3. ASSUME Head(q).type = t, Holds(r, t) PROVE FALSE
  <2>1. PICK i \in 1..Len(r) : r[i].type = t
    BY <1>3 DEF Holds
  <2>2. /\ i + 1 \in 1..Len(q) /\ q[i + 1].type = t
        /\ 1 \in 1..Len(q) /\ q[1].type = t
    BY <1>1, <1>3, <2>1
  <2>3. i + 1 = 1
    BY <2>2 DEF Once
  <2>4. QED BY <2>3
<1>4. QED BY <1>2, <1>3

\* The empty queue.
LEMMA HoldsEmpty == \A t : ~Holds(<<>>, t) /\ Once(<<>>, t)
BY DEF Holds, Once

-----------------------------------------------------------------------------
(* LocalInv: what concerns one incarnation only.                           *)

\* A step that does not touch an incarnation ...
Same(h) ==
    /\ phase'[h] = phase[h] /\ ids'[h] = ids[h] /\ canProbeWork'[h] = canProbeWork[h]
    /\ commandChan'[h] = commandChan[h] /\ responseChan'[h] = responseChan[h]
    /\ worker'[h] = worker[h] /\ listener'[h] = listener[h] /\ prober'[h] = prober[h]
    /\ closed'[h] = closed[h]

\* ... keeps its LocalInv.
LEMMA LocalFrame == ASSUME NEW h \in Gens, LocalInv(h), Same(h) PROVE LocalInv(h)'
<1>1. UnbornIdle(h)' /\ JobFits(h)' /\ AddFirst(h)' /\ IdsCarried(h)'
  BY DEF LocalInv, Same, UnbornIdle, JobFits, AddFirst, IdsCarried
<1>2. \A t : /\ UnderWay(h, t)' <=> UnderWay(h, t)
             /\ Alone(h, t) => Alone(h, t)'
  BY DEF Same, UnderWay, Alone, Holds, Once, WorksOn, Working, Handles
<1>3. AddOnce(h)' /\ ProbeOnce(h)'
  BY <1>2 DEF LocalInv, AddOnce, ProbeOnce, Same
<1>4. QED BY <1>1, <1>3 DEF LocalInv

\* A pod is created with nothing under way.
LEMMA NewPodLocal ==
    ASSUME TypeInv, NEW g \in Gens, LocalInv(g), NewPod(g)
    PROVE  LocalInv(g)' /\ \A h \in Gens \ {g} : Same(h)
<1>0. TypeOK
  BY DEF TypeInv
<1>1. /\ phase'[g] \in {"Pending", "Failed"} /\ ~ids[g] /\ ids' = ids
      /\ worker'[g].at = "idle" /\ listener'[g].at = "idle"
  BY <1>0 DEF NewPod, LocalInv, UnbornIdle, TypeOK, WorkerAt, ListenerAt
<1>2. commandChan'[g] = <<>> /\ responseChan'[g] = <<>>
  BY DEF NewPod, LocalInv, UnbornIdle, channels
<1>3. \A t : ~UnderWay(g, t)' /\ Alone(g, t)'
  BY <1>1, <1>2, HoldsEmpty DEF UnderWay, Alone, WorksOn, Working, Handles
<1>4. UnbornIdle(g)' /\ JobFits(g)' /\ AddFirst(g)' /\ IdsCarried(g)'
  BY <1>1, <1>2 DEF UnbornIdle, JobFits, AddFirst, IdsCarried
<1>5. AddOnce(g)' /\ ProbeOnce(g)'
  BY <1>1, <1>3 DEF AddOnce, ProbeOnce
<1>6. \A h \in Gens \ {g} : Same(h)
  BY <1>0 DEF NewPod, Same, channels, TypeOK
<1>7. QED BY <1>4, <1>5, <1>6 DEF LocalInv

\* What a send does to the command queue.
LEMMA SendFacts ==
    ASSUME TypeInv, NEW g \in Gens, NEW t \in CommandTypes, Send(g, t)
    PROVE  /\ \A u : Holds(commandChan'[g], u) <=> Holds(commandChan[g], u) \/ u = t
           /\ \A u : Once(commandChan[g], u) /\ (u = t => ~Holds(commandChan[g], u))
                        => Once(commandChan'[g], u)
           /\ Len(commandChan'[g]) = Len(commandChan[g]) + 1
           /\ commandChan'[g][Len(commandChan[g]) + 1] = [type |-> t, ids |-> ids[g]]
           /\ \A i \in 1..Len(commandChan[g]) : commandChan'[g][i] = commandChan[g][i]
           /\ \A h \in Gens \ {g} : commandChan'[h] = commandChan[h]
<1> DEFINE e == [type |-> t, ids |-> ids[g]]
<1>1. commandChan[g] \in Seq(Command) /\ e \in Command /\ e.type = t
  BY DEF TypeInv, TypeOK, Command
<1>2. commandChan'[g] = Append(commandChan[g], e)
  BY DEF TypeInv, TypeOK, Send
<1> HIDE DEF e
<1>3. \A u : Holds(commandChan'[g], u) <=> Holds(commandChan[g], u) \/ u = t
  BY <1>1, <1>2, HoldsAppend
<1>4. \A u : Once(commandChan[g], u) /\ (u = t => ~Holds(commandChan[g], u))
                => Once(commandChan'[g], u)
  BY <1>1, <1>2, OnceAppend
<1>5. /\ Len(commandChan'[g]) = Len(commandChan[g]) + 1
      /\ commandChan'[g][Len(commandChan[g]) + 1] = e
      /\ \A i \in 1..Len(commandChan[g]) : commandChan'[g][i] = commandChan[g][i]
  BY <1>1, <1>2
<1>6. \A h \in Gens \ {g} : commandChan'[h] = commandChan[h]
  BY DEF TypeInv, TypeOK, Send
<1>7. QED BY <1>3, <1>4, <1>5, <1>6 DEF e

\* A command in the queue after a send is the new one or was there before.
LEMMA SendSplit ==
    ASSUME TypeInv, NEW g \in Gens, NEW t \in CommandTypes, Send(g, t)
    PROVE  \A i \in 1..Len(commandChan'[g]) :
              \/ commandChan'[g][i] = [type |-> t, ids |-> ids[g]]
              \/ i \in 1..Len(commandChan[g]) /\ commandChan'[g][i] = commandChan[g][i]
<1> DEFINE e == [type |-> t, ids |-> ids[g]]
<1>1. Len(commandChan[g]) \in Nat
  BY DEF TypeInv, TypeOK
<1>2. /\ Len(commandChan'[g]) = Len(commandChan[g]) + 1
      /\ commandChan'[g][Len(commandChan[g]) + 1] = e
      /\ \A i \in 1..Len(commandChan[g]) : commandChan'[g][i] = commandChan[g][i]
  BY SendFacts
<1> HIDE DEF e
<1>3. QED BY <1>1, <1>2 DEF e

\* podManager.AddPod sends the one ADD, to a pod that has nothing under way.
LEMMA SendAddLocal ==
    ASSUME TypeInv, SyncInv, NEW g \in Gens, g = sync.gen, LocalInv(g), SendAdd
    PROVE  LocalInv(g)' /\ \A h \in Gens \ {g} : Same(h)
<1>0. TypeOK
  BY DEF TypeInv
<1>1. /\ phase[g] \in {"Pending", "Failed"} /\ ~ids[g] /\ commandChan[g] = <<>> /\ responseChan[g] = <<>>
      /\ worker[g].at = "idle" /\ listener[g].at = "idle"
  BY DEF SyncInv, SendAdd
<1>2. /\ phase' = phase /\ ids' = ids /\ closed' = closed /\ canProbeWork' = canProbeWork /\ responseChan' = responseChan
      /\ worker' = worker /\ listener' = listener /\ prober' = prober /\ Send(g, "ADD")
  BY DEF SendAdd, podVars
<1>3. /\ \A u : Holds(commandChan'[g], u) <=> Holds(commandChan[g], u) \/ u = "ADD"
      /\ \A u : Once(commandChan[g], u) /\ (u = "ADD" => ~Holds(commandChan[g], u))
                   => Once(commandChan'[g], u)
      /\ Len(commandChan'[g]) = 1 /\ commandChan'[g][1].type = "ADD"
      /\ \A h \in Gens \ {g} : commandChan'[h] = commandChan[h]
  <2>1. "ADD" \in CommandTypes
    BY DEF CommandTypes
  <2>2. /\ \A u : Holds(commandChan'[g], u) <=> Holds(commandChan[g], u) \/ u = "ADD"
        /\ \A u : Once(commandChan[g], u) /\ (u = "ADD" => ~Holds(commandChan[g], u))
                     => Once(commandChan'[g], u)
        /\ \A h \in Gens \ {g} : commandChan'[h] = commandChan[h]
    BY <1>2, <2>1, SendFacts
  <2>3. /\ Len(commandChan'[g]) = Len(commandChan[g]) + 1
        /\ commandChan'[g][Len(commandChan[g]) + 1] = [type |-> "ADD", ids |-> ids[g]]
    BY <1>2, <2>1, SendFacts
  <2>4. Len(commandChan'[g]) = 1 /\ commandChan'[g][1].type = "ADD"
    BY <1>1, <2>3
  <2>5. QED BY <2>2, <2>4
<1>4. Alone(g, "ADD")' /\ Alone(g, "PROBE")' /\ ~UnderWay(g, "PROBE")'
  BY <1>1, <1>2, <1>3, HoldsEmpty DEF Alone, UnderWay, WorksOn, Working, Handles
<1>5. UnbornIdle(g)' /\ JobFits(g)' /\ AddFirst(g)' /\ IdsCarried(g)'
  BY <1>1, <1>2, <1>3 DEF UnbornIdle, JobFits, AddFirst, IdsCarried
<1>6. AddOnce(g)' /\ ProbeOnce(g)'
  BY <1>1, <1>2, <1>4 DEF AddOnce, ProbeOnce
<1>7. \A h \in Gens \ {g} : Same(h)
  BY <1>2, <1>3 DEF Same
<1>8. QED BY <1>5, <1>6, <1>7 DEF LocalInv

\* pod.DeletePod sends a DELETE and marks the pod.
LEMMA DeleteLocal ==
    ASSUME TypeInv, NEW g \in Gens, g = sync.gen, LocalInv(g), DeletePodLocked
    PROVE  LocalInv(g)' /\ \A h \in Gens \ {g} : Same(h)
<1>0. TypeOK
  BY DEF TypeInv
<1>2. /\ phase' = [phase EXCEPT ![g] = "deleted"] /\ ids' = ids /\ closed' = closed /\ canProbeWork' = canProbeWork
      /\ responseChan' = responseChan /\ worker' = worker /\ listener' = listener /\ prober' = prober
      /\ Send(g, "DELETE")
  BY DEF DeletePodLocked
<1>3. /\ \A u : Holds(commandChan'[g], u) <=> Holds(commandChan[g], u) \/ u = "DELETE"
      /\ \A u : Once(commandChan[g], u) /\ (u = "DELETE" => ~Holds(commandChan[g], u))
                   => Once(commandChan'[g], u)
      /\ \A i \in 1..Len(commandChan'[g]) :
            \/ commandChan'[g][i] = [type |-> "DELETE", ids |-> ids[g]]
            \/ i \in 1..Len(commandChan[g]) /\ commandChan'[g][i] = commandChan[g][i]
      /\ \A h \in Gens \ {g} : commandChan'[h] = commandChan[h]
  <2>1. "DELETE" \in CommandTypes
    BY DEF CommandTypes
  <2>2. /\ \A u : Holds(commandChan'[g], u) <=> Holds(commandChan[g], u) \/ u = "DELETE"
        /\ \A u : Once(commandChan[g], u) /\ (u = "DELETE" => ~Holds(commandChan[g], u))
                     => Once(commandChan'[g], u)
        /\ \A h \in Gens \ {g} : commandChan'[h] = commandChan[h]
    BY <1>2, <2>1, SendFacts
  <2>3. \A i \in 1..Len(commandChan'[g]) :
           \/ commandChan'[g][i] = [type |-> "DELETE", ids |-> ids[g]]
           \/ i \in 1..Len(commandChan[g]) /\ commandChan'[g][i] = commandChan[g][i]
    BY <1>2, <2>1, SendSplit
  <2>4. QED BY <2>2, <2>3
<1>4. phase'[g] = "deleted"
  BY <1>0, <1>2 DEF TypeOK
<1>5. \A t \in {"ADD", "PROBE"} : Alone(g, t) => Alone(g, t)' /\ (UnderWay(g, t)' <=> UnderWay(g, t))
  BY <1>2, <1>3 DEF Alone, UnderWay, WorksOn, Working, Handles
<1>6. UnbornIdle(g)' /\ JobFits(g)' /\ AddFirst(g)' /\ IdsCarried(g)'
  BY <1>2, <1>3, <1>4 DEF LocalInv, UnbornIdle, JobFits, AddFirst, IdsCarried
<1>7. AddOnce(g)' /\ ProbeOnce(g)'
  BY <1>2, <1>4, <1>5 DEF LocalInv, AddOnce, ProbeOnce
<1>8. \A h \in Gens \ {g} : Same(h)
  BY <1>0, <1>2, <1>3 DEF Same, TypeOK
<1>9. QED BY <1>6, <1>7, <1>8 DEF LocalInv

\* The prober sends a PROBE when none is under way, and only for a pod that has its ids.
LEMMA ProberLocal ==
    ASSUME TypeInv, NEW g \in Gens, LocalInv(g), Prober(g)
    PROVE  LocalInv(g)' /\ \A h \in Gens \ {g} : Same(h)
<1>0. TypeOK
  BY DEF TypeInv
<1>1. CASE ProberTick(g)
  <2>1. /\ phase' = phase /\ ids' = ids /\ closed' = closed /\ canProbeWork' = [canProbeWork EXCEPT ![g] = FALSE]
        /\ responseChan' = responseChan /\ worker' = worker /\ listener' = listener
        /\ prober' = prober /\ Send(g, "PROBE")
    BY <1>1 DEF ProberTick, goroutines
  <2>2. canProbeWork[g] /\ phase[g] \in {"Running", "created"} /\ ids[g]
    BY <1>0, <1>1
    DEF ProberTick, ProbeAllowed, Unprobed, TypeOK, Phases, LocalInv, UnbornIdle, AddOnce
  <2>3. /\ \A u : Holds(commandChan'[g], u) <=> Holds(commandChan[g], u) \/ u = "PROBE"
        /\ \A u : Once(commandChan[g], u) /\ (u = "PROBE" => ~Holds(commandChan[g], u))
                     => Once(commandChan'[g], u)
        /\ \A i \in 1..Len(commandChan'[g]) :
              \/ commandChan'[g][i] = [type |-> "PROBE", ids |-> ids[g]]
              \/ i \in 1..Len(commandChan[g]) /\ commandChan'[g][i] = commandChan[g][i]
        /\ \A h \in Gens \ {g} : commandChan'[h] = commandChan[h]
    <3>1. "PROBE" \in CommandTypes
      BY DEF CommandTypes
    <3>2. /\ \A u : Holds(commandChan'[g], u) <=> Holds(commandChan[g], u) \/ u = "PROBE"
          /\ \A u : Once(commandChan[g], u) /\ (u = "PROBE" => ~Holds(commandChan[g], u))
                       => Once(commandChan'[g], u)
          /\ \A h \in Gens \ {g} : commandChan'[h] = commandChan[h]
      BY <2>1, <3>1, SendFacts
    <3>3. \A i \in 1..Len(commandChan'[g]) :
             \/ commandChan'[g][i] = [type |-> "PROBE", ids |-> ids[g]]
             \/ i \in 1..Len(commandChan[g]) /\ commandChan'[g][i] = commandChan[g][i]
      BY <2>1, <3>1, SendSplit
    <3>4. QED BY <3>2, <3>3
  <2>4. ~UnderWay(g, "PROBE")
    BY <2>2 DEF LocalInv, ProbeOnce
  <2>5. Alone(g, "ADD")' /\ Alone(g, "PROBE")' /\ (UnderWay(g, "ADD")' <=> UnderWay(g, "ADD"))
    BY <2>1, <2>3, <2>4
    DEF LocalInv, AddOnce, ProbeOnce, Alone, UnderWay, WorksOn, Working, Handles
  <2>6. UnbornIdle(g)' /\ JobFits(g)' /\ AddFirst(g)' /\ IdsCarried(g)'
    BY <2>1, <2>2, <2>3 DEF LocalInv, UnbornIdle, JobFits, AddFirst, IdsCarried
  <2>7. AddOnce(g)' /\ ProbeOnce(g)'
    BY <1>0, <2>1, <2>2, <2>5 DEF LocalInv, AddOnce, ProbeOnce, TypeOK
  <2>8. \A h \in Gens \ {g} : Same(h)
    BY <1>0, <2>1, <2>3 DEF Same, TypeOK
  <2>9. QED BY <2>6, <2>7, <2>8 DEF LocalInv
<1>2. CASE ProberBlocks(g)
  <2>1. /\ phase' = phase /\ ids' = ids /\ closed' = closed /\ canProbeWork' = canProbeWork /\ commandChan' = commandChan
        /\ responseChan' = responseChan /\ worker' = worker /\ listener' = listener
        /\ prober' = [prober EXCEPT ![g] = "wantLock"] /\ prober[g] = "idle"
    BY <1>2 DEF ProberBlocks, podVars, channels
  <2>2. UnbornIdle(g)' /\ JobFits(g)' /\ AddFirst(g)' /\ IdsCarried(g)' /\ AddOnce(g)' /\ ProbeOnce(g)'
    BY <2>1
    DEF LocalInv, UnbornIdle, JobFits, AddFirst, IdsCarried, AddOnce, ProbeOnce, Alone, UnderWay,
        WorksOn, Working, Handles
  <2>3. \A h \in Gens \ {g} : Same(h)
    BY <1>0, <2>1 DEF Same, TypeOK
  <2>4. QED BY <2>2, <2>3 DEF LocalInv
<1>3. QED BY <1>1, <1>2 DEF Prober

\* Between taking a command and answering it the worker keeps the command.
LEMMA WorkerMoves ==
    ASSUME TypeInv, NEW g \in Gens, NEW s \in WorkerSteps, NEW r \in Results,
           Advance(g, s) \/ (s = "respond" /\ Answer(g, r))
    PROVE  /\ worker'[g].at = s /\ worker'[g].job = worker[g].job
           /\ \A h \in Gens \ {g} : worker'[h] = worker[h]
<1>1. worker \in WorkerType /\ worker[g] \in WorkerRecord
  BY DEF TypeInv, TypeOK, WorkerType, WorkerRecord
<1>2. CASE Advance(g, s)
  <2>1. worker' = [worker EXCEPT ![g] = [worker[g] EXCEPT !.at = s]]
    BY <1>2 DEF Advance
  <2>2. [worker[g] EXCEPT !.at = s].at = s /\ [worker[g] EXCEPT !.at = s].job = worker[g].job
    BY <1>1 DEF WorkerRecord
  <2>3. QED BY <1>1, <2>1, <2>2 DEF WorkerType
<1>3. CASE s = "respond" /\ Answer(g, r)
  <2> DEFINE w == [worker[g] EXCEPT !.at = "respond", !.result = r]
  <2>1. worker' = [worker EXCEPT ![g] = w]
    BY <1>1, <1>3 DEF Answer, WorkerType, WorkerRecord
  <2>2. w.at = "respond" /\ w.job = worker[g].job
    BY <1>1 DEF WorkerRecord
  <2>3. QED BY <1>1, <1>3, <2>1, <2>2 DEF WorkerType
<1>4. QED BY <1>2, <1>3

\* A docker step leaves one incarnation's worker at a step of the same command.
DockerMove(g) ==
    /\ worker'[g].job = worker[g].job
    /\ \A h \in Gens \ {g} : worker'[h] = worker[h]
    /\ \/ worker[g].at = "inspectNames" /\ worker'[g].at \in {"create", "removeNamed", "respond"}
       \/ worker[g].at = "removeNamed" /\ worker'[g].at \in {"create", "respond"}
       \/ worker[g].at \in {"create", "probe", "remove"} /\ worker'[g].at = "respond"
       \/ worker[g].at = "stop" /\ worker'[g].at = "respond"
       \/ worker[g].at = "stop" /\ worker'[g].at = "remove" /\ worker[g].job.ids
    /\ phase' = phase /\ ids' = ids /\ closed' = closed /\ canProbeWork' = canProbeWork
    /\ commandChan' = commandChan /\ responseChan' = responseChan
    /\ listener' = listener /\ prober' = prober /\ sync' = sync
    /\ name2pod' = name2pod /\ etcd' = etcd

DockerAction(g) ==
    \/ InspectNames(g) \/ RemoveNamed(g) \/ CreateContainers(g)
    \/ ProbeContainers(g) \/ StopContainers(g) \/ RemoveContainers(g)

\* Every docker step is such a move.
LEMMA DockerMoves == ASSUME TypeInv, NEW g \in Gens, DockerAction(g) PROVE DockerMove(g)
<1> USE DEF DockerMove, DockerStep, podVars, channels
<1>0. /\ TypeOK /\ "err" \in Results /\ "ok" \in Results
      /\ \A s \in {"create", "removeNamed", "respond", "remove"} : s \in WorkerSteps
  BY DEF TypeInv, Results, WorkerSteps
<1>1. \A s \in {"create", "removeNamed", "remove"} : Advance(g, s) =>
         /\ worker'[g].at = s /\ worker'[g].job = worker[g].job
         /\ \A h \in Gens \ {g} : worker'[h] = worker[h]
  BY <1>0, WorkerMoves
<1>2. \A r \in Results : Answer(g, r) =>
         /\ worker'[g].at = "respond" /\ worker'[g].job = worker[g].job
         /\ \A h \in Gens \ {g} : worker'[h] = worker[h]
  BY <1>0, WorkerMoves
<1>3. CASE InspectNames(g)
  BY <1>0, <1>1, <1>2, <1>3 DEF InspectNames
<1>4. CASE RemoveNamed(g)
  BY <1>0, <1>1, <1>2, <1>4 DEF RemoveNamed
<1>5. CASE CreateContainers(g)
  BY <1>0, <1>2, <1>5 DEF CreateContainers
<1>6. CASE ProbeContainers(g)
  <2>1. Found(g) => docker.state \in Results
    BY <1>0 DEF Found, TypeInv, TypeOK, GroupHasState, Results, Gens, NoGen
  <2>2. QED BY <1>0, <1>2, <1>6, <2>1 DEF ProbeContainers
<1>7. CASE StopContainers(g)
  <2>1. \/ Found(g) /\ Advance(g, "remove")
        \/ Answer(g, "err")
    BY <1>7 DEF StopContainers, FailDelete
  <2>0. DockerStep(g, "stop")
    BY <1>7 DEF StopContainers
  <2>2. CASE Found(g) /\ Advance(g, "remove")
    BY <1>1, <2>0, <2>2 DEF Found
  <2>3. CASE Answer(g, "err")
    BY <1>0, <1>2, <2>0, <2>3
  <2>4. QED BY <2>1, <2>2, <2>3
<1>8. CASE RemoveContainers(g)
  BY <1>0, <1>2, <1>8 DEF RemoveContainers, FailDelete
<1>9. QED BY <1>3, <1>4, <1>5, <1>6, <1>7, <1>8 DEF DockerAction

\* Docker steps keep LocalInv.
LEMMA DockerLocal ==
    ASSUME TypeInv, NEW g \in Gens, LocalInv(g), DockerMove(g)
    PROVE  LocalInv(g)' /\ \A h \in Gens \ {g} : Same(h)
<1>1. \A t : WorksOn(g, t)' <=> WorksOn(g, t)
  BY DEF DockerMove, WorksOn, Working
<1>2. \A t : Handles(g, t)' <=> Handles(g, t)
  BY DEF DockerMove, Handles
<1>3. /\ commandChan' = commandChan /\ responseChan' = responseChan /\ phase' = phase
      /\ ids' = ids /\ closed' = closed /\ canProbeWork' = canProbeWork
  BY DEF DockerMove
<1>4. \A t : (UnderWay(g, t)' <=> UnderWay(g, t)) /\ (Alone(g, t) => Alone(g, t)')
  BY <1>1, <1>2, <1>3 DEF UnderWay, Alone
<1>5. AddOnce(g)' /\ ProbeOnce(g)'
  BY <1>3, <1>4 DEF LocalInv, AddOnce, ProbeOnce
<1>6. UnbornIdle(g)' /\ AddFirst(g)' /\ IdsCarried(g)'
  <2>1. worker[g].at \notin {"off", "idle", "exited"} /\ worker'[g].at # "probe"
    BY DEF DockerMove
  <2>2. phase[g] # "unborn"
    BY <2>1 DEF LocalInv, UnbornIdle
  <2>3. UnbornIdle(g)'
    BY <1>3, <2>2 DEF UnbornIdle
  <2>4. AddFirst(g)'
    BY <1>3, <2>1 DEF LocalInv, AddFirst
  <2>5. IdsCarried(g)'
    BY <1>3, <2>1 DEF LocalInv, IdsCarried
  <2>6. QED BY <2>3, <2>4, <2>5
<1>7. JobFits(g)'
  BY DEF DockerMove, LocalInv, JobFits
<1>8. QED BY <1>5, <1>6, <1>7 DEF LocalInv, DockerMove, Same

\* What taking the head of the command queue does.
LEMMA WorkerTakeFacts ==
    ASSUME TypeInv, NEW g \in Gens, WorkerTake(g)
    PROVE  /\ Head(commandChan[g]) \in Command
           /\ worker'[g].job = Head(commandChan[g])
           /\ worker'[g].at = FirstStep(Head(commandChan[g]).type)
           /\ commandChan'[g] = Tail(commandChan[g])
           /\ \A h \in Gens \ {g} : worker'[h] = worker[h] /\ commandChan'[h] = commandChan[h]
<1> DEFINE taken == [worker[g] EXCEPT !.at = FirstStep(Head(commandChan[g]).type),
                                      !.job = Head(commandChan[g])]
<1>1. worker \in WorkerType /\ worker[g] \in WorkerRecord /\ commandChan[g] \in Seq(Command)
  BY DEF TypeInv, TypeOK, WorkerType, WorkerRecord
<1>2. worker' = [worker EXCEPT ![g] = taken]
  BY <1>1 DEF WorkerTake, WorkerType, WorkerRecord
<1>3. taken.at = FirstStep(Head(commandChan[g]).type) /\ taken.job = Head(commandChan[g])
  BY <1>1 DEF WorkerRecord
<1>4. Head(commandChan[g]) \in Command
  BY <1>1, HeadTail DEF WorkerTake
<1>5. worker'[g] = taken /\ \A h \in Gens \ {g} : worker'[h] = worker[h]
  BY <1>1, <1>2 DEF WorkerType
<1>6. commandChan'[g] = Tail(commandChan[g]) /\ \A h \in Gens \ {g} : commandChan'[h] = commandChan[h]
  BY DEF TypeInv, TypeOK, WorkerTake
<1>7. QED BY <1>3, <1>4, <1>5, <1>6

\* The worker takes a command from the queue.
LEMMA WorkerTakeLocal ==
    ASSUME TypeInv, NEW g \in Gens, LocalInv(g), WorkerTake(g)
    PROVE  LocalInv(g)' /\ \A h \in Gens \ {g} : Same(h)
<1> DEFINE q == commandChan[g]
           c == Head(commandChan[g])
<1>0. q \in Seq(Command) /\ q # <<>>
  BY DEF TypeInv, TypeOK, WorkerTake
<1>1. /\ phase' = phase /\ ids' = ids /\ closed' = closed /\ canProbeWork' = canProbeWork /\ responseChan' = responseChan
      /\ listener' = listener /\ prober' = prober
  BY DEF WorkerTake, podVars
<1>2. /\ c \in Command /\ worker'[g].job = c /\ worker'[g].at = FirstStep(c.type)
      /\ commandChan'[g] = Tail(q)
      /\ \A h \in Gens \ {g} : worker'[h] = worker[h] /\ commandChan'[h] = commandChan[h]
  BY WorkerTakeFacts
<1>3. /\ worker[g].at = "idle" /\ c.type \in CommandTypes
      /\ c.type = "ADD" => worker'[g].at = "inspectNames"
      /\ c.type = "PROBE" => worker'[g].at = "probe"
      /\ c.type = "DELETE" => worker'[g].at = "stop"
  BY <1>2 DEF WorkerTake, FirstStep, Command, CommandTypes
<1>4. \A t : Holds(q, t) <=> c.type = t \/ Holds(commandChan'[g], t)
  BY <1>0, <1>2, HoldsTail
<1>5. \A t : Once(q, t) => Once(commandChan'[g], t) /\ (c.type = t => ~Holds(commandChan'[g], t))
  BY <1>0, <1>2, OnceTail
<1>6. /\ Len(commandChan'[g]) = Len(q) - 1 /\ Len(q) \in Nat /\ Len(q) > 0 /\ c = q[1]
      /\ \A i \in 1..Len(commandChan'[g]) : commandChan'[g][i] = q[i + 1]
  BY <1>0, <1>2
<1>7. \A i \in 1..Len(commandChan'[g]) : i + 1 \in 1..Len(q) /\ commandChan'[g][i] = q[i + 1]
  BY <1>6
<1> HIDE DEF q, c
<1>8. \A t : /\ ~WorksOn(g, t) /\ (WorksOn(g, t)' <=> c.type = t)
             /\ Handles(g, t)' <=> Handles(g, t)
  BY <1>1, <1>2, <1>3 DEF WorksOn, Working, Handles, CommandTypes
<1>9. \A t : /\ UnderWay(g, t)' <=> UnderWay(g, t)
             /\ Alone(g, t) => Alone(g, t)'
  BY <1>1, <1>4, <1>5, <1>8 DEF UnderWay, Alone, q
<1>10. AddOnce(g)' /\ ProbeOnce(g)'
  BY <1>1, <1>9 DEF LocalInv, AddOnce, ProbeOnce
<1>11. UnbornIdle(g)'
  BY <1>0, <1>1 DEF LocalInv, UnbornIdle, q
<1>12. JobFits(g)'
  BY <1>2, <1>3 DEF JobFits, CommandTypes
<1>13. AddFirst(g)'
  <2>1. SUFFICES ASSUME NEW i \in 1..Len(commandChan'[g]), commandChan'[g][i].type = "ADD"
                 PROVE  FALSE
    BY DEF AddFirst
  <2>2. i + 1 \in 1..Len(q) /\ q[i + 1].type = "ADD"
    BY <1>7, <2>1
  <2>3. i + 1 = 1
    BY <2>2 DEF LocalInv, AddFirst, q
  <2>4. QED BY <2>3
<1>14. IdsCarried(g)'
  <2>1. c.type = "PROBE" => c.ids
    <3>1. 1 \in 1..Len(q)
      BY <1>6
    <3>2. QED BY <1>6, <3>1 DEF LocalInv, IdsCarried, q
  <2>2. worker'[g].at = "probe" => worker'[g].job.ids
    BY <1>2, <1>3, <2>1 DEF CommandTypes
  <2>3. \A i \in 1..Len(commandChan'[g]) : commandChan'[g][i].type = "PROBE" => commandChan'[g][i].ids
    BY <1>7 DEF LocalInv, IdsCarried, q
  <2>4. QED BY <2>2, <2>3 DEF IdsCarried
<1>15. \A h \in Gens \ {g} : Same(h)
  BY <1>1, <1>2 DEF Same
<1>16. QED BY <1>10, <1>11, <1>12, <1>13, <1>14, <1>15 DEF LocalInv

\* SyncLoop returns once the channel is closed and drained.
LEMMA WorkerExitLocal ==
    ASSUME TypeInv, NEW g \in Gens, LocalInv(g), WorkerExit(g)
    PROVE  LocalInv(g)' /\ \A h \in Gens \ {g} : Same(h)
<1>1. /\ phase' = phase /\ ids' = ids /\ closed' = closed /\ canProbeWork' = canProbeWork /\ responseChan' = responseChan
      /\ commandChan' = commandChan /\ listener' = listener /\ prober' = prober
      /\ worker[g].at = "idle"
  BY DEF WorkerExit, podVars, channels
<1>2. worker'[g].at = "exited" /\ \A h \in Gens \ {g} : worker'[h] = worker[h]
  BY DEF TypeInv, TypeOK, WorkerExit, WorkerAt
<1>3. \A t : (WorksOn(g, t)' <=> WorksOn(g, t)) /\ (Handles(g, t)' <=> Handles(g, t))
  BY <1>1, <1>2 DEF WorksOn, Working, Handles
<1>4. \A t : (UnderWay(g, t)' <=> UnderWay(g, t)) /\ (Alone(g, t) => Alone(g, t)')
  BY <1>1, <1>3 DEF UnderWay, Alone
<1>5. AddOnce(g)' /\ ProbeOnce(g)'
  BY <1>1, <1>4 DEF LocalInv, AddOnce, ProbeOnce
<1>6. UnbornIdle(g)' /\ JobFits(g)' /\ AddFirst(g)' /\ IdsCarried(g)'
  BY <1>1, <1>2 DEF LocalInv, UnbornIdle, JobFits, AddFirst, IdsCarried
<1>7. QED BY <1>1, <1>2, <1>5, <1>6 DEF LocalInv, Same

\* What the worker's answer does to the response queue.
LEMMA RespondFacts ==
    ASSUME TypeInv, NEW g \in Gens, WorkerRespond(g)
    PROVE  /\ \A u : Holds(responseChan'[g], u) <=> Holds(responseChan[g], u) \/ u = worker[g].job.type
           /\ \A u : Once(responseChan[g], u) /\ (u = worker[g].job.type => ~Holds(responseChan[g], u))
                        => Once(responseChan'[g], u)
           /\ Len(responseChan'[g]) = Len(responseChan[g]) + 1
           /\ \A h \in Gens \ {g} : responseChan'[h] = responseChan[h] /\ worker'[h] = worker[h]
           /\ worker'[g].at = "idle"
<1> DEFINE e == [type |-> worker[g].job.type, result |-> worker[g].result]
<1>1. responseChan[g] \in Seq(Response) /\ e \in Response /\ e.type = worker[g].job.type
  BY DEF TypeInv, TypeOK, Command, Response
<1>2. responseChan'[g] = Append(responseChan[g], e)
  BY DEF TypeInv, TypeOK, WorkerRespond
<1> HIDE DEF e
<1>3. \A u : Holds(responseChan'[g], u) <=> Holds(responseChan[g], u) \/ u = worker[g].job.type
  BY <1>1, <1>2, HoldsAppend
<1>4. \A u : Once(responseChan[g], u) /\ (u = worker[g].job.type => ~Holds(responseChan[g], u))
                => Once(responseChan'[g], u)
  BY <1>1, <1>2, OnceAppend
<1>5. Len(responseChan'[g]) = Len(responseChan[g]) + 1
  BY <1>1, <1>2
<1>6. /\ \A h \in Gens \ {g} : responseChan'[h] = responseChan[h] /\ worker'[h] = worker[h]
      /\ worker'[g].at = "idle"
  BY DEF TypeInv, TypeOK, WorkerRespond, WorkerAt
<1>7. QED BY <1>3, <1>4, <1>5, <1>6

\* The worker answers.
LEMMA WorkerRespondLocal ==
    ASSUME TypeInv, NEW g \in Gens, LocalInv(g), WorkerRespond(g)
    PROVE  LocalInv(g)' /\ \A h \in Gens \ {g} : Same(h)
<1> DEFINE u0 == worker[g].job.type
<1>1. /\ phase' = phase /\ ids' = ids /\ closed' = closed /\ canProbeWork' = canProbeWork /\ commandChan' = commandChan
      /\ listener' = listener /\ prober' = prober /\ worker[g].at = "respond"
  BY DEF WorkerRespond, podVars
<1>2. /\ \A u : Holds(responseChan'[g], u) <=> Holds(responseChan[g], u) \/ u = u0
      /\ \A u : Once(responseChan[g], u) /\ (u = u0 => ~Holds(responseChan[g], u))
                   => Once(responseChan'[g], u)
      /\ \A h \in Gens \ {g} : responseChan'[h] = responseChan[h] /\ worker'[h] = worker[h]
      /\ worker'[g].at = "idle"
  BY RespondFacts
<1> HIDE DEF u0
<1>3. \A t : /\ ~WorksOn(g, t)' /\ (WorksOn(g, t) <=> u0 = t)
             /\ Handles(g, t)' <=> Handles(g, t)
  BY <1>1, <1>2 DEF WorksOn, Working, Handles, u0
<1>4. \A t : (UnderWay(g, t)' <=> UnderWay(g, t)) /\ (Alone(g, t) => Alone(g, t)')
  BY <1>1, <1>2, <1>3 DEF UnderWay, Alone
<1>5. AddOnce(g)' /\ ProbeOnce(g)'
  BY <1>1, <1>4 DEF LocalInv, AddOnce, ProbeOnce
<1>6. phase[g] # "unborn"
  BY <1>1 DEF LocalInv, UnbornIdle
<1>7. UnbornIdle(g)' /\ JobFits(g)' /\ AddFirst(g)' /\ IdsCarried(g)'
  BY <1>1, <1>2, <1>6 DEF LocalInv, UnbornIdle, JobFits, AddFirst, IdsCarried
<1>8. QED BY <1>1, <1>2, <1>5, <1>7 DEF LocalInv, Same

\* The end of the process leaves the channels as they are and nobody to serve them.
LEMMA WorkerPanicsLocal ==
    ASSUME TypeInv, NEW g \in Gens, WorkerPanics(g), NEW h \in Gens, LocalInv(h)
    PROVE  LocalInv(h)'
<1>1. /\ phase' = phase /\ ids' = ids /\ closed' = closed /\ canProbeWork' = canProbeWork /\ commandChan' = commandChan
      /\ responseChan' = responseChan
      /\ worker'[h].at = "exited" /\ listener'[h].at = "exited" /\ prober'[h] = "exited"
  BY DEF WorkerPanics, podVars, channels, WorkerAt, ListenerAt
<1>2. \A t : ~WorksOn(h, t)' /\ ~Handles(h, t)'
  BY <1>1 DEF WorksOn, Working, Handles
<1>3. \A t : (UnderWay(h, t)' => UnderWay(h, t)) /\ (Alone(h, t) => Alone(h, t)')
  BY <1>1, <1>2 DEF UnderWay, Alone
<1>4. AddOnce(h)' /\ ProbeOnce(h)'
  BY <1>1, <1>3 DEF LocalInv, AddOnce, ProbeOnce
<1>5. UnbornIdle(h)' /\ JobFits(h)' /\ AddFirst(h)' /\ IdsCarried(h)'
  BY <1>1 DEF LocalInv, UnbornIdle, JobFits, AddFirst, IdsCarried
<1>6. QED BY <1>4, <1>5 DEF LocalInv

\* The listener takes an answer from the queue.
LEMMA ListenerTakeFacts ==
    ASSUME TypeInv, NEW g \in Gens, ListenerTake(g)
    PROVE  /\ \A t : Holds(responseChan[g], t) <=>
                        Head(responseChan[g]).type = t \/ Holds(responseChan'[g], t)
           /\ \A t : Once(responseChan[g], t) =>
                        /\ Once(responseChan'[g], t)
                        /\ Head(responseChan[g]).type = t => ~Holds(responseChan'[g], t)
           /\ Len(responseChan'[g]) = Len(responseChan[g]) - 1 /\ Len(responseChan[g]) \in Nat
           /\ listener'[g].resp = Head(responseChan[g])
           /\ listener'[g].at = IF Head(responseChan[g]).type = "DELETE" THEN "release" ELSE "handle"
           /\ \A h \in Gens \ {g} : responseChan'[h] = responseChan[h] /\ listener'[h] = listener[h]
<1>1. /\ responseChan[g] \in Seq(Response) /\ responseChan[g] # <<>>
      /\ responseChan'[g] = Tail(responseChan[g])
  BY DEF TypeInv, TypeOK, ListenerTake
<1>2. \A t : Holds(responseChan[g], t) <=> Head(responseChan[g]).type = t \/ Holds(responseChan'[g], t)
  BY <1>1, HoldsTail
<1>3. \A t : Once(responseChan[g], t) =>
                /\ Once(responseChan'[g], t)
                /\ Head(responseChan[g]).type = t => ~Holds(responseChan'[g], t)
  BY <1>1, OnceTail
<1>4. Len(responseChan'[g]) = Len(responseChan[g]) - 1 /\ Len(responseChan[g]) \in Nat
  BY <1>1
<1>5. /\ listener'[g].resp = Head(responseChan[g])
      /\ listener'[g].at = IF Head(responseChan[g]).type = "DELETE" THEN "release" ELSE "handle"
      /\ \A h \in Gens \ {g} : responseChan'[h] = responseChan[h] /\ listener'[h] = listener[h]
  BY DEF TypeInv, TypeOK, ListenerTake
<1>6. QED BY <1>2, <1>3, <1>4, <1>5

\* Taking an answer from the response channel hands its obligations to the listener, and
\* touches no other incarnation.
LEMMA ListenerTakeLocal ==
    ASSUME TypeInv, NEW g \in Gens, LocalInv(g), ListenerTake(g)
    PROVE  LocalInv(g)' /\ \A h \in Gens \ {g} : Same(h)
<1> DEFINE u0 == Head(responseChan[g]).type
<1>1. /\ phase' = phase /\ ids' = ids /\ closed' = closed /\ canProbeWork' = canProbeWork /\ commandChan' = commandChan
      /\ worker' = worker /\ prober' = prober /\ listener[g].at = "idle"
  BY DEF ListenerTake, podVars
<1>2. /\ \A t : Holds(responseChan[g], t) <=> u0 = t \/ Holds(responseChan'[g], t)
      /\ \A t : Once(responseChan[g], t) =>
                   Once(responseChan'[g], t) /\ (u0 = t => ~Holds(responseChan'[g], t))
      /\ listener'[g].resp.type = u0
      /\ listener'[g].at = IF u0 = "DELETE" THEN "release" ELSE "handle"
      /\ \A h \in Gens \ {g} : responseChan'[h] = responseChan[h] /\ listener'[h] = listener[h]
  BY ListenerTakeFacts
<1> HIDE DEF u0
<1>3. \A t \in {"ADD", "PROBE"} : /\ ~Handles(g, t) /\ (Handles(g, t)' <=> u0 = t)
                                  /\ WorksOn(g, t)' <=> WorksOn(g, t)
  BY <1>1, <1>2 DEF WorksOn, Working, Handles
<1>4. \A t \in {"ADD", "PROBE"} :
         (UnderWay(g, t)' <=> UnderWay(g, t)) /\ (Alone(g, t) => Alone(g, t)')
  BY <1>1, <1>2, <1>3 DEF UnderWay, Alone
<1>5. AddOnce(g)' /\ ProbeOnce(g)'
  BY <1>1, <1>4 DEF LocalInv, AddOnce, ProbeOnce
<1>6. phase[g] # "unborn"
  BY <1>1 DEF LocalInv, UnbornIdle
<1>7. UnbornIdle(g)' /\ JobFits(g)' /\ AddFirst(g)' /\ IdsCarried(g)'
  BY <1>1, <1>6 DEF LocalInv, UnbornIdle, JobFits, AddFirst, IdsCarried
<1>8. QED BY <1>1, <1>2, <1>5, <1>7 DEF LocalInv, Same

\* The listener has handled the answer of type t of its pod.
LEMMA HandledAnswer ==
    ASSUME NEW g \in Gens, NEW t \in {"ADD", "PROBE"}, Handles(g, t), Alone(g, "ADD"), Alone(g, "PROBE"),
           listener'[g].at # "handle", worker' = worker, commandChan' = commandChan,
           responseChan' = responseChan
    PROVE  /\ Alone(g, "ADD")' /\ Alone(g, "PROBE")' /\ ~UnderWay(g, t)'
           /\ \A u \in {"ADD", "PROBE"} \ {t} : UnderWay(g, u)' <=> UnderWay(g, u)
<1>1. \A u : ~Handles(g, u)' /\ (WorksOn(g, u)' <=> WorksOn(g, u)) /\ (u # t => ~Handles(g, u))
  BY DEF Handles, WorksOn, Working
<1>2. Alone(g, "ADD")' /\ Alone(g, "PROBE")'
  BY <1>1 DEF Alone
<1>3. ~UnderWay(g, t)'
  BY <1>1 DEF Alone, UnderWay
<1>4. \A u \in {"ADD", "PROBE"} \ {t} : UnderWay(g, u)' <=> UnderWay(g, u)
  BY <1>1 DEF UnderWay
<1>5. QED BY <1>2, <1>3, <1>4

\* The listener handles the answer to ADD_POD ...
LEMMA AddAnsweredLocal ==
    ASSUME TypeInv, NEW g \in Gens, LocalInv(g), AddSucceeded(g) \/ AddFailed(g)
    PROVE  LocalInv(g)' /\ \A h \in Gens \ {g} : Same(h)
<1>1. /\ commandChan' = commandChan /\ responseChan' = responseChan /\ closed' = closed
      /\ worker' = worker /\ prober' = prober /\ canProbeWork' = canProbeWork
      /\ Handles(g, "ADD") /\ phase[g] # "unborn"
  BY DEF AddSucceeded, AddFailed, Handling, Handles, channels, podVars, LocalInv, UnbornIdle
<1>2. /\ listener'[g].at \notin {"handle"} /\ \A h \in Gens \ {g} : listener'[h] = listener[h]
  BY DEF TypeInv, TypeOK, AddSucceeded, AddFailed, ListenerIdle, ListenerAt
<1>3. /\ Alone(g, "ADD")' /\ Alone(g, "PROBE")' /\ ~UnderWay(g, "ADD")'
      /\ UnderWay(g, "PROBE")' <=> UnderWay(g, "PROBE")
  BY <1>1, <1>2, HandledAnswer DEF LocalInv, AddOnce, ProbeOnce
<1>4. ~ids[g] /\ ~UnderWay(g, "PROBE") /\ phase[g] \notin {"Running", "created", "Exited"}
  BY <1>1 DEF LocalInv, AddOnce, ProbeOnce, UnderWay
<1>5. /\ (phase'[g] = "Running" /\ ids'[g]) \/ (phase'[g] = phase[g] /\ ids'[g] = ids[g])
      /\ \A h \in Gens \ {g} : phase'[h] = phase[h] /\ ids'[h] = ids[h]
  BY DEF TypeInv, TypeOK, AddSucceeded, AddFailed, podVars
<1>6. AddOnce(g)' /\ ProbeOnce(g)'
  BY <1>3, <1>4, <1>5 DEF AddOnce, ProbeOnce
<1>7. UnbornIdle(g)' /\ JobFits(g)' /\ AddFirst(g)' /\ IdsCarried(g)'
  BY <1>1, <1>5 DEF LocalInv, UnbornIdle, JobFits, AddFirst, IdsCarried
<1>8. QED BY <1>1, <1>2, <1>5, <1>6, <1>7 DEF LocalInv, Same

\* The phase a probe's answer leaves is one of a pod that was created.
LEMMA ProbePhase ==
    ASSUME TypeInv, NEW g \in Gens, ProbeAnswered(g)
    PROVE  /\ phase[g] = "deleted" => phase'[g] = "deleted"
           /\ phase[g] # "deleted" => phase'[g] \in {"Failed", "Running", "created", "Exited"}
           /\ \A h \in Gens \ {g} : phase'[h] = phase[h] /\ canProbeWork'[h] = canProbeWork[h]
<1>1. StatusOf(listener[g].resp.result) \in {"Running", "created", "Exited"}
  BY DEF StatusOf
<1>2. phase \in [Gens -> Phases]
  BY DEF TypeInv, TypeOK
<1>3. \/ phase[g] = "deleted" /\ phase' = phase
      \/ /\ phase[g] # "deleted"
         /\ \/ phase' = [phase EXCEPT ![g] = "Failed"]
            \/ phase' = [phase EXCEPT ![g] = StatusOf(listener[g].resp.result)]
  BY DEF ProbeAnswered
<1>4. \A h \in Gens \ {g} : canProbeWork'[h] = canProbeWork[h]
  BY DEF ProbeAnswered, TypeInv, TypeOK
<1>5. QED BY <1>1, <1>2, <1>3, <1>4

\* ... and the answer to PROBE_POD.
LEMMA ProbeAnsweredLocal ==
    ASSUME TypeInv, NEW g \in Gens, LocalInv(g), ProbeAnswered(g)
    PROVE  LocalInv(g)' /\ \A h \in Gens \ {g} : Same(h)
<1>1. /\ commandChan' = commandChan /\ responseChan' = responseChan /\ closed' = closed
      /\ worker' = worker /\ prober' = prober /\ ids' = ids
      /\ Handles(g, "PROBE") /\ phase[g] # "unborn"
  BY DEF ProbeAnswered, Handling, Handles, channels, LocalInv, UnbornIdle
<1>2. /\ listener'[g].at \notin {"handle"} /\ \A h \in Gens \ {g} : listener'[h] = listener[h]
  BY DEF TypeInv, TypeOK, ProbeAnswered, ListenerIdle, ListenerAt
<1>3. /\ Alone(g, "ADD")' /\ Alone(g, "PROBE")' /\ ~UnderWay(g, "PROBE")'
      /\ UnderWay(g, "ADD")' <=> UnderWay(g, "ADD")
  BY <1>1, <1>2, HandledAnswer DEF LocalInv, AddOnce, ProbeOnce
<1>4. ids[g]
  BY <1>1 DEF LocalInv, ProbeOnce, UnderWay
<1>5. /\ phase'[g] # "unborn"
      /\ \A h \in Gens \ {g} : phase'[h] = phase[h] /\ canProbeWork'[h] = canProbeWork[h]
  BY <1>1, ProbePhase
<1>6. AddOnce(g)' /\ ProbeOnce(g)'
  BY <1>1, <1>3, <1>4 DEF LocalInv, AddOnce, ProbeOnce
<1>7. UnbornIdle(g)' /\ JobFits(g)' /\ AddFirst(g)' /\ IdsCarried(g)'
  BY <1>1, <1>5 DEF LocalInv, UnbornIdle, JobFits, AddFirst, IdsCarried
<1>8. QED BY <1>1, <1>2, <1>5, <1>6, <1>7 DEF LocalInv, Same

\* releaseResource stops the prober and the probing.
LEMMA ReleaseLocal ==
    ASSUME TypeInv, NEW g \in Gens, LocalInv(g), ReleaseLock(g) \/ ReleaseResource(g)
    PROVE  LocalInv(g)' /\ \A h \in Gens \ {g} : Same(h)
<1>1. /\ commandChan' = commandChan /\ responseChan' = responseChan /\ worker' = worker
      /\ phase' = phase /\ ids' = ids
      /\ listener[g].at \in {"release", "stopping"} /\ phase[g] # "unborn"
  BY DEF ReleaseLock, ReleaseResource, channels, podVars, LocalInv, UnbornIdle
<1>2. /\ listener'[g].at \in {"stopping", "exited"}
      /\ \A h \in Gens \ {g} : /\ listener'[h] = listener[h] /\ canProbeWork'[h] = canProbeWork[h]
                               /\ prober'[h] = prober[h] /\ closed'[h] = closed[h]
  BY DEF TypeInv, TypeOK, ReleaseLock, ReleaseResource, ListenerAt, channels, podVars
<1>3. canProbeWork'[g] => canProbeWork[g]
  BY DEF TypeInv, TypeOK, ReleaseLock, ReleaseResource, podVars
<1>4. \A u : ~Handles(g, u)' /\ ~Handles(g, u) /\ (WorksOn(g, u)' <=> WorksOn(g, u))
  BY <1>1, <1>2 DEF Handles, WorksOn, Working
<1>5. \A u : (UnderWay(g, u)' <=> UnderWay(g, u)) /\ (Alone(g, u) => Alone(g, u)')
  BY <1>1, <1>4 DEF UnderWay, Alone
<1>6. AddOnce(g)' /\ ProbeOnce(g)'
  BY <1>1, <1>3, <1>5 DEF LocalInv, AddOnce, ProbeOnce
<1>7. UnbornIdle(g)' /\ JobFits(g)' /\ AddFirst(g)' /\ IdsCarried(g)'
  BY <1>1 DEF LocalInv, UnbornIdle, JobFits, AddFirst, IdsCarried
<1>8. QED BY <1>1, <1>2, <1>6, <1>7 DEF LocalInv, Same

\* The steps of one incarnation's goroutines, but for the end of the process.
Goroutine(g) ==
    \/ WorkerTake(g) \/ WorkerExit(g) \/ WorkerRespond(g) \/ DockerAction(g)
    \/ Listener(g) \/ Prober(g)

\* Such a step keeps the incarnation's LocalInv and does not touch another incarnation.
LEMMA GoroutineLocal ==
    ASSUME TypeInv, NEW g \in Gens, LocalInv(g), Goroutine(g)
    PROVE  LocalInv(g)' /\ \A h \in Gens \ {g} : Same(h)
<1>1. CASE WorkerTake(g)
  BY <1>1, WorkerTakeLocal
<1>2. CASE WorkerExit(g)
  BY <1>2, WorkerExitLocal
<1>3. CASE WorkerRespond(g)
  BY <1>3, WorkerRespondLocal
<1>4. CASE DockerAction(g)
  BY <1>4, DockerMoves, DockerLocal
<1>5. CASE Listener(g)
  BY <1>5, ListenerTakeLocal, AddAnsweredLocal, ProbeAnsweredLocal, ReleaseLocal DEF Listener
<1>6. CASE Prober(g)
  BY <1>6, ProberLocal
<1>7. QED BY <1>1, <1>2, <1>3, <1>4, <1>5, <1>6 DEF Goroutine

\* Next, step by step.
LEMMA NextSteps ==
    ASSUME [Next]_vars
    PROVE  \/ SendAdd \/ MarshalPod \/ PutNewPod \/ DeletePodLocked \/ DeletePod
           \/ ContainerExits \/ UNCHANGED vars
           \/ \E g \in Gens : NewPod(g) \/ WorkerPanics(g) \/ Goroutine(g)
BY DEF Next, SyncLoop, Worker, Goroutine, DockerAction

\* Every step keeps LocalInv of every incarnation.
LEMMA LocalNext ==
    ASSUME TypeInv, SyncInv, \A g \in Gens : LocalInv(g), [Next]_vars
    PROVE  \A g \in Gens : LocalInv(g)'
<1>1. ASSUME NEW g \in Gens, LocalInv(g)', \A h \in Gens \ {g} : Same(h)
      PROVE  \A h \in Gens : LocalInv(h)'
  BY <1>1, LocalFrame
<1>2. ASSUME \A h \in Gens : Same(h)
      PROVE  \A h \in Gens : LocalInv(h)'
  BY <1>2, LocalFrame
<1>3. CASE SendAdd
  <2>1. PICK g \in Gens : g = sync.gen
    BY <1>3 DEF TypeInv, SyncHasGen, SendAdd
  <2>2. QED BY <1>1, <1>3, <2>1, SendAddLocal
<1>4. CASE DeletePodLocked
  <2>1. PICK g \in Gens : g = sync.gen
    BY <1>4 DEF TypeInv, SyncHasGen, DeletePodLocked
  <2>2. QED BY <1>1, <1>4, <2>1, DeleteLocal
<1>5. CASE MarshalPod \/ PutNewPod \/ DeletePod \/ ContainerExits \/ UNCHANGED vars
  <2>1. \A h \in Gens : Same(h)
    BY <1>5
    DEF MarshalPod, PutNewPod, DeletePod, ContainerExits, vars, Same, podVars, channels, goroutines
  <2>2. QED BY <1>2, <2>1
<1>6. ASSUME NEW g \in Gens, NewPod(g) PROVE \A h \in Gens : LocalInv(h)'
  BY <1>1, <1>6, NewPodLocal
<1>7. ASSUME NEW g \in Gens, WorkerPanics(g) PROVE \A h \in Gens : LocalInv(h)'
  BY <1>7, WorkerPanicsLocal
<1>8. ASSUME NEW g \in Gens, Goroutine(g) PROVE \A h \in Gens : LocalInv(h)'
  BY <1>1, <1>8, GoroutineLocal
<1>9. QED BY <1>3, <1>4, <1>5, <1>6, <1>7, <1>8, NextSteps

-----------------------------------------------------------------------------
(* SyncInv: the sync loop and name2pod.                                    *)

\* A pod that was created stays so, and only the sync loop marks it deleted.
LEMMA GoroutinePhase ==
    ASSUME TypeInv, NEW g \in Gens, LocalInv(g), Goroutine(g)
    PROVE  /\ sync' = sync /\ name2pod' = name2pod
           /\ phase[g] # "unborn"
           /\ phase'[g] # "unborn"
           /\ phase[g] # "deleted" => phase'[g] # "deleted"
<1>1. phase[g] # "unborn"
  BY DEF Goroutine, DockerAction, WorkerTake, WorkerExit, WorkerRespond, Listener, Prober, LocalInv, UnbornIdle,
     InspectNames, RemoveNamed, CreateContainers, ProbeContainers, StopContainers, RemoveContainers,
     DockerStep, ListenerTake, AddSucceeded, AddFailed, ProbeAnswered, Handling, ReleaseLock,
     ReleaseResource, ProberTick, ProberBlocks
<1>2. CASE WorkerTake(g) \/ WorkerExit(g) \/ WorkerRespond(g)
  BY <1>1, <1>2 DEF WorkerTake, WorkerExit, WorkerRespond, podVars
<1>3. CASE DockerAction(g)
  BY <1>1, <1>3, DockerMoves DEF DockerMove
<1>4. CASE Prober(g)
  BY <1>1, <1>4 DEF Prober, ProberTick, ProberBlocks, podVars, goroutines
<1>5. CASE ListenerTake(g) \/ AddFailed(g) \/ ReleaseLock(g) \/ ReleaseResource(g)
  BY <1>1, <1>5 DEF ListenerTake, AddFailed, ReleaseLock, ReleaseResource, Handling, podVars
<1>6. CASE AddSucceeded(g)
  BY <1>1, <1>6 DEF AddSucceeded, Handling, TypeInv, TypeOK
<1>7. CASE ProbeAnswered(g)
  BY <1>1, <1>7, ProbePhase DEF ProbeAnswered, Handling
<1>8. QED BY <1>2, <1>3, <1>4, <1>5, <1>6, <1>7 DEF Goroutine, Listener

\* Between NewPod and SendAdd the new pod's goroutines have nothing to do.
LEMMA NothingBeforeAdd ==
    ASSUME TypeInv, SyncInv, NEW g \in Gens, Goroutine(g), sync.at = "sendAdd"
    PROVE  g # sync.gen
<1> SUFFICES ASSUME g = sync.gen PROVE FALSE
  OBVIOUS
<1>1. /\ phase[g] \in {"Pending", "Failed"} /\ ~closed[g] /\ commandChan[g] = <<>>
      /\ responseChan[g] = <<>> /\ worker[g].at = "idle" /\ listener[g].at = "idle"
  BY DEF SyncInv
<1>2. ~WorkerTake(g) /\ ~WorkerExit(g) /\ ~WorkerRespond(g)
  BY <1>1 DEF WorkerTake, WorkerExit, WorkerRespond
<1>3. ~DockerAction(g)
  BY <1>1, DockerMoves DEF DockerMove
<1>4. ~Listener(g)
  BY <1>1 DEF Listener, ListenerTake, AddSucceeded, AddFailed, ProbeAnswered, Handling, ReleaseLock, ReleaseResource
<1>5. ~Prober(g)
  BY <1>1 DEF Prober, ProberTick, ProberBlocks, ProbeAllowed, Unprobed, LockFree
<1>6. QED BY <1>2, <1>3, <1>4, <1>5 DEF Goroutine

\* Every step keeps SyncInv.
LEMMA SyncNext ==
    ASSUME TypeInv, SyncInv, \A g \in Gens : LocalInv(g), [Next]_vars
    PROVE  SyncInv'
<1> USE DEF Creating
<1>0. TypeOK /\ NoGen \notin Gens
  BY DEF TypeInv, NoGen, Gens
<1>1. CASE SendAdd
  BY <1>0, <1>1 DEF SendAdd, SyncInv, TypeOK, podVars
<1>2. CASE MarshalPod
  BY <1>0, <1>2 DEF MarshalPod, SyncInv, TypeOK, podVars
<1>3. CASE PutNewPod
  BY <1>0, <1>3 DEF PutNewPod, SyncInv, TypeOK, podVars, SyncIdle
<1>4. CASE DeletePodLocked
  BY <1>0, <1>4 DEF DeletePodLocked, SyncInv, TypeOK, SyncIdle
<1>5. CASE DeletePod
  BY <1>0, <1>5 DEF DeletePod, SyncInv, TypeOK, podVars
<1>6. CASE ContainerExits \/ UNCHANGED vars
  BY <1>6 DEF ContainerExits, vars, SyncInv, podVars, channels, goroutines
<1>7. ASSUME NEW g \in Gens, NewPod(g) PROVE SyncInv'
  <2>1. LocalInv(g)
    OBVIOUS
  <2>2. /\ sync'.at = "sendAdd" /\ sync'.gen = g /\ name2pod' = NoGen
        /\ phase'[g] \in {"Pending", "Failed"} /\ ~ids'[g] /\ ~closed'[g]
    BY <1>0, <1>7, <2>1 DEF NewPod, LocalInv, UnbornIdle, TypeOK, channels
  <2>3. commandChan'[g] = <<>> /\ responseChan'[g] = <<>>
    BY <1>0, <1>7, <2>1 DEF NewPod, LocalInv, UnbornIdle, TypeOK, channels
  <2>4. worker'[g].at = "idle" /\ listener'[g].at = "idle"
    BY <1>0, <1>7 DEF NewPod, TypeOK, WorkerAt, ListenerAt
  <2>5. QED BY <2>2, <2>3, <2>4 DEF SyncInv
<1>8. ASSUME NEW g \in Gens, WorkerPanics(g) PROVE SyncInv'
  BY <1>8 DEF WorkerPanics, SyncInv, podVars, SyncIdle
<1>9. ASSUME NEW g \in Gens, Goroutine(g) PROVE SyncInv'
  <2>1. /\ sync' = sync /\ name2pod' = name2pod /\ phase[g] # "unborn" /\ phase'[g] # "unborn"
        /\ phase[g] # "deleted" => phase'[g] # "deleted"
    BY <1>9, GoroutinePhase
  <2>2. \A h \in Gens \ {g} : Same(h)
    BY <1>9, GoroutineLocal
  <2>3. sync.at = "sendAdd" => Same(sync.gen)
    BY <1>0, <1>9, <2>2, NothingBeforeAdd DEF SyncInv
  <2>4. Creating => phase'[sync.gen] \notin {"unborn", "deleted"}
    BY <2>1, <2>2 DEF SyncInv, Same
  <2>5. name2pod # NoGen => phase'[name2pod] # "unborn"
    BY <1>0, <2>1, <2>2 DEF SyncInv, Same, TypeOK
  <2>6. sync.at = "sendAdd" =>
          /\ phase'[sync.gen] \in {"Pending", "Failed"} /\ ~ids'[sync.gen] /\ ~closed'[sync.gen]
          /\ commandChan'[sync.gen] = <<>> /\ responseChan'[sync.gen] = <<>>
          /\ worker'[sync.gen].at = "idle" /\ listener'[sync.gen].at = "idle"
    BY <2>3 DEF SyncInv, Same
  <2>7. QED BY <2>1, <2>4, <2>5, <2>6 DEF SyncInv
<1>10. QED BY <1>1, <1>2, <1>3, <1>4, <1>5, <1>6, <1>7, <1>8, <1>9, NextSteps

-----------------------------------------------------------------------------
(* WithinBudget: how much can be under way.                                *)

Busy(g) == IF worker[g].at \in {"off", "idle", "exited"} THEN 0 ELSE 1
InHand(g) == IF listener[g].at = "handle" THEN 1 ELSE 0

\* Outstanding is a sum of natural numbers.
LEMMA OutstandingSum ==
    ASSUME NEW g \in Gens, Len(commandChan[g]) \in Nat, Len(responseChan[g]) \in Nat
    PROVE  /\ Outstanding(g) = Len(commandChan[g]) + Len(responseChan[g]) + Busy(g) + InHand(g)
           /\ Busy(g) \in {0, 1} /\ InHand(g) \in {0, 1} /\ Outstanding(g) \in Nat
<1>1. Outstanding(g) = Len(commandChan[g]) + Len(responseChan[g]) + Busy(g) + InHand(g)
  BY Zenon DEF Outstanding, Busy, InHand
<1>2. Busy(g) \in {0, 1}
  BY DEF Busy
<1>3. InHand(g) \in {0, 1}
  BY DEF InHand
<1> DEFINE c == Len(commandChan[g])
           r == Len(responseChan[g])
<1>4. c \in Nat /\ r \in Nat /\ Outstanding(g) = c + r + Busy(g) + InHand(g)
  BY <1>1
<1> HIDE DEF c, r
<1>5. Outstanding(g) \in Nat
  BY <1>2, <1>3, <1>4
<1>6. QED BY <1>1, <1>2, <1>3, <1>5

\* Hence one.
LEMMA OutstandingNat ==
    ASSUME NEW h \in Gens
    PROVE  (TypeInv => Outstanding(h) \in Nat) /\ (TypeInv' => Outstanding(h)' \in Nat)
<1>1. ASSUME TypeInv PROVE Outstanding(h) \in Nat
  <2>1. commandChan[h] \in Seq(Command) /\ responseChan[h] \in Seq(Response)
    BY <1>1 DEF TypeInv, TypeOK
  <2>2. Len(commandChan[h]) \in Nat /\ Len(responseChan[h]) \in Nat
    BY <2>1
  <2>3. QED BY <2>2, OutstandingSum
<1>2. ASSUME TypeInv' PROVE Outstanding(h)' \in Nat
  <2> DEFINE c == Len(commandChan'[h])
             r == Len(responseChan'[h])
  <2>1. commandChan'[h] \in Seq(Command) /\ responseChan'[h] \in Seq(Response)
    BY <1>2 DEF TypeInv, TypeOK
  <2>2. c \in Nat /\ r \in Nat
    BY <2>1
  <2>3. Outstanding(h)' = c + r + Busy(h)' + InHand(h)'
    BY Zenon DEF Outstanding, Busy, InHand
  <2>4. Busy(h)' \in {0, 1} /\ InHand(h)' \in {0, 1}
    BY DEF Busy, InHand
  <2> HIDE DEF c, r
  <2>5. QED BY <2>2, <2>3, <2>4
<1>3. QED BY <1>1, <1>2

\* One more command in the queue is one more outstanding.
LEMMA OutstandingMore ==
    ASSUME TypeInv, NEW h \in Gens, Len(commandChan'[h]) = Len(commandChan[h]) + 1,
           responseChan' = responseChan, worker' = worker, listener' = listener
    PROVE  Outstanding(h)' = Outstanding(h) + 1
<1> DEFINE c == Len(commandChan[h])
           r == Len(responseChan[h])
<1>1. c \in Nat /\ r \in Nat
  <2>1. commandChan[h] \in Seq(Command) /\ responseChan[h] \in Seq(Response)
    BY DEF TypeInv, TypeOK
  <2>2. QED BY <2>1
<1>2. Outstanding(h) = c + r + Busy(h) + InHand(h)
  BY Zenon DEF Outstanding, Busy, InHand
<1>3. Outstanding(h)' = (c + 1) + r + Busy(h) + InHand(h)
  BY Zenon DEF Outstanding, Busy, InHand
<1>4. Busy(h) \in {0, 1} /\ InHand(h) \in {0, 1}
  BY DEF Busy, InHand
<1> HIDE DEF c, r
<1>5. QED BY <1>1, <1>2, <1>3, <1>4

\* A worker and a listener that end leave what is in the queues.
LEMMA OutstandingLess ==
    ASSUME TypeInv, NEW h \in Gens, commandChan' = commandChan, responseChan' = responseChan,
           worker'[h].at = "exited", listener'[h].at = "exited"
    PROVE  Outstanding(h)' <= Outstanding(h)
<1> DEFINE c == Len(commandChan[h])
           r == Len(responseChan[h])
<1>1. c \in Nat /\ r \in Nat
  <2>1. commandChan[h] \in Seq(Command) /\ responseChan[h] \in Seq(Response)
    BY DEF TypeInv, TypeOK
  <2>2. QED BY <2>1
<1>2. Outstanding(h) = c + r + Busy(h) + InHand(h)
  BY Zenon DEF Outstanding, Busy, InHand
<1>3. Outstanding(h)' = c + r + Busy(h)' + InHand(h)'
  BY Zenon DEF Outstanding, Busy, InHand
<1>4. Busy(h) \in {0, 1} /\ InHand(h) \in {0, 1} /\ Busy(h)' = 0 /\ InHand(h)' = 0
  BY DEF Busy, InHand
<1> HIDE DEF c, r
<1>5. QED BY <1>1, <1>2, <1>3, <1>4

\* What a pod's own step does to what is outstanding: only the prober adds to it, and it takes
\* the pod's leave to probe; only the answer to a probe gives that leave back.
LEMMA GoroutineOutstanding ==
    ASSUME TypeInv, TypeInv', NEW g \in Gens, LocalInv(g), Goroutine(g)
    PROVE  \/ Outstanding(g)' <= Outstanding(g) /\ canProbeWork'[g] = canProbeWork[g]
           \/ Outstanding(g)' <= Outstanding(g) /\ ~canProbeWork'[g]
           \/ Outstanding(g)' = Outstanding(g) + 1 /\ canProbeWork[g] /\ ~canProbeWork'[g]
           \/ Outstanding(g)' = Outstanding(g) - 1
<1> DEFINE c == Len(commandChan[g])
           r == Len(responseChan[g])
           cn == Len(commandChan'[g])
           rn == Len(responseChan'[g])
<1>0. /\ Outstanding(g) = c + r + Busy(g) + InHand(g)
      /\ Outstanding(g)' = cn + rn + Busy(g)' + InHand(g)'
      /\ c \in Nat /\ r \in Nat /\ cn \in Nat /\ rn \in Nat
      /\ Busy(g) \in {0, 1} /\ InHand(g) \in {0, 1} /\ Busy(g)' \in {0, 1} /\ InHand(g)' \in {0, 1}
  <2>0. c \in Nat /\ r \in Nat
    <3>1. commandChan[g] \in Seq(Command) /\ responseChan[g] \in Seq(Response)
      BY DEF TypeInv, TypeOK
    <3>2. QED BY <3>1
  <2>1. c \in Nat /\ r \in Nat /\ cn \in Nat /\ rn \in Nat
    <3>1. commandChan'[g] \in Seq(Command) /\ responseChan'[g] \in Seq(Response)
      BY DEF TypeInv, TypeOK
    <3>2. cn \in Nat /\ rn \in Nat
      BY <3>1
    <3>3. QED BY <2>0, <3>2
  <2>2. Outstanding(g) = c + r + Busy(g) + InHand(g)
    BY <2>1, OutstandingSum
  <2>3. Outstanding(g)' = cn + rn + Busy(g)' + InHand(g)'
    BY Zenon DEF Outstanding, Busy, InHand
  <2>4. Busy(g) \in {0, 1} /\ Busy(g)' \in {0, 1}
    BY DEF Busy
  <2>5. InHand(g) \in {0, 1} /\ InHand(g)' \in {0, 1}
    BY DEF InHand
  <2>6. QED BY <2>1, <2>2, <2>3, <2>4, <2>5
<1> HIDE DEF c, r, cn, rn
<1>1. CASE WorkerTake(g)
  <2>1. /\ commandChan[g] # <<>> /\ commandChan[g] \in Seq(Command)
        /\ commandChan'[g] = Tail(commandChan[g])
        /\ responseChan' = responseChan /\ listener' = listener /\ canProbeWork' = canProbeWork
        /\ worker[g].at = "idle"
    BY <1>1 DEF WorkerTake, podVars, TypeInv, TypeOK
  <2>2. cn = c - 1 /\ rn = r
    BY <2>1 DEF c, r, cn, rn
  <2>3. Busy(g) = 0 /\ InHand(g)' = InHand(g)
    BY <2>1 DEF Busy, InHand, c, r, cn, rn
  <2>4. Outstanding(g)' <= Outstanding(g)
    BY <1>0, <2>2, <2>3
  <2>5. QED BY <2>1, <2>4
<1>2. CASE WorkerExit(g)
  <2>1. /\ commandChan' = commandChan /\ responseChan' = responseChan /\ listener' = listener
        /\ canProbeWork' = canProbeWork /\ worker'[g].at = "exited"
    BY <1>2 DEF WorkerExit, podVars, channels, TypeInv, TypeOK, WorkerAt
  <2>2. Busy(g)' = 0 /\ InHand(g)' = InHand(g) /\ cn = c /\ rn = r
    BY <2>1 DEF Busy, InHand, c, r, cn, rn
  <2>3. Outstanding(g)' <= Outstanding(g)
    BY <1>0, <2>2
  <2>4. QED BY <2>1, <2>3
<1>3. CASE WorkerRespond(g)
  <2>1. /\ commandChan' = commandChan /\ listener' = listener /\ canProbeWork' = canProbeWork
        /\ worker[g].at = "respond"
    BY <1>3 DEF WorkerRespond, podVars
  <2>2. rn = r + 1 /\ worker'[g].at = "idle"
    BY <1>3, RespondFacts DEF r, rn
  <2>3. Busy(g) = 1 /\ Busy(g)' = 0 /\ InHand(g)' = InHand(g) /\ cn = c
    BY <2>1, <2>2 DEF Busy, InHand, c, r, cn, rn
  <2>4. Outstanding(g)' <= Outstanding(g)
    BY <1>0, <2>2, <2>3
  <2>5. QED BY <2>1, <2>4
<1>4. CASE DockerAction(g)
  <2>1. DockerMove(g)
    BY <1>4, DockerMoves
  <2>2. Busy(g) = 1 /\ InHand(g)' = InHand(g) /\ cn = c /\ rn = r
    BY <2>1 DEF DockerMove, Busy, InHand, c, r, cn, rn
  <2>3. Outstanding(g)' <= Outstanding(g)
    BY <1>0, <2>2
  <2>4. QED BY <2>1, <2>3 DEF DockerMove
<1>5. CASE ListenerTake(g)
  <2>1. /\ commandChan' = commandChan /\ worker' = worker /\ canProbeWork' = canProbeWork
        /\ listener[g].at = "idle"
    BY <1>5 DEF ListenerTake, podVars
  <2>2. rn = r - 1
    BY <1>5, ListenerTakeFacts DEF r, rn
  <2>3. InHand(g) = 0 /\ Busy(g)' = Busy(g) /\ cn = c
    BY <2>1 DEF Busy, InHand, c, r, cn, rn
  <2>4. Outstanding(g)' <= Outstanding(g)
    BY <1>0, <2>2, <2>3
  <2>5. QED BY <2>1, <2>4
<1>6. CASE AddSucceeded(g) \/ AddFailed(g) \/ ProbeAnswered(g)
  <2>1. /\ commandChan' = commandChan /\ responseChan' = responseChan /\ worker' = worker
        /\ listener[g].at = "handle"
    BY <1>6 DEF AddSucceeded, AddFailed, ProbeAnswered, Handling, channels
  <2>2. listener'[g].at # "handle"
    BY <1>6 DEF AddSucceeded, AddFailed, ProbeAnswered, ListenerIdle, ListenerAt, TypeInv, TypeOK
  <2>3. InHand(g) = 1 /\ InHand(g)' = 0 /\ Busy(g)' = Busy(g) /\ cn = c /\ rn = r
    BY <2>1, <2>2 DEF Busy, InHand, c, r, cn, rn
  <2>4. Outstanding(g)' = Outstanding(g) - 1
    BY <1>0, <2>3
  <2>5. QED BY <2>4
<1>7. CASE ReleaseLock(g) \/ ReleaseResource(g)
  <2>1. commandChan' = commandChan /\ responseChan' = responseChan /\ worker' = worker
    BY <1>7 DEF ReleaseLock, ReleaseResource, channels
  <2>2. listener'[g].at # "handle"
    BY <1>7 DEF ReleaseLock, ReleaseResource, ListenerAt, TypeInv, TypeOK
  <2>3. canProbeWork'[g] = canProbeWork[g] \/ ~canProbeWork'[g]
    BY <1>7 DEF ReleaseLock, ReleaseResource, TypeInv, TypeOK, podVars
  <2>4. InHand(g)' = 0 /\ Busy(g)' = Busy(g) /\ cn = c /\ rn = r
    BY <2>1, <2>2 DEF Busy, InHand, c, r, cn, rn
  <2>5. Outstanding(g)' <= Outstanding(g)
    BY <1>0, <2>4
  <2>6. QED BY <2>3, <2>5
<1>8. CASE ProberTick(g)
  <2>1. /\ responseChan' = responseChan /\ listener' = listener /\ worker' = worker
        /\ canProbeWork[g] /\ ~canProbeWork'[g] /\ Send(g, "PROBE")
    BY <1>8 DEF ProberTick, ProbeAllowed, goroutines, TypeInv, TypeOK
  <2>2. "PROBE" \in CommandTypes
    BY DEF CommandTypes
  <2>3. cn = c + 1
    BY <2>1, <2>2, SendFacts DEF c, cn
  <2>4. InHand(g)' = InHand(g) /\ Busy(g)' = Busy(g) /\ rn = r
    BY <2>1 DEF Busy, InHand, c, r, cn, rn
  <2>5. Outstanding(g)' = Outstanding(g) + 1
    BY <1>0, <2>3, <2>4
  <2>6. QED BY <2>1, <2>5
<1>9. CASE ProberBlocks(g)
  <2>1. /\ responseChan' = responseChan /\ listener' = listener /\ worker' = worker
        /\ commandChan' = commandChan /\ canProbeWork' = canProbeWork
    BY <1>9 DEF ProberBlocks, channels, podVars
  <2>2. InHand(g)' = InHand(g) /\ Busy(g)' = Busy(g) /\ cn = c /\ rn = r
    BY <2>1 DEF Busy, InHand, c, r, cn, rn
  <2>3. Outstanding(g)' <= Outstanding(g)
    BY <1>0, <2>2
  <2>4. QED BY <2>1, <2>3
<1>10. QED
  BY <1>1, <1>2, <1>3, <1>4, <1>5, <1>6, <1>7, <1>8, <1>9 DEF Goroutine, Listener, Prober

\* More has been sent: the budget of an incarnation is no smaller.
Afforded(h) ==
    /\ AddSent(h) => AddSent(h)'
    /\ DeleteSent(h) => DeleteSent(h)'
    /\ canProbeWork'[h] => canProbeWork[h]

\* It is then kept if nothing more is outstanding.
LEMMA BudgetKept ==
    ASSUME TypeInv, TypeInv', NEW h \in Gens, Outstanding(h) <= Budget(h),
           Outstanding(h)' <= Outstanding(h), Afforded(h)
    PROVE  Outstanding(h)' <= Budget(h)'
<1>1. Budget(h) <= Budget(h)'
  BY DEF Budget, Afforded
<1>2. Outstanding(h) \in Nat /\ Outstanding(h)' \in Nat
  BY OutstandingNat
<1>3. Budget(h) \in 0..3 /\ Budget(h)' \in 0..3
  BY DEF Budget
<1>4. QED BY <1>1, <1>2, <1>3

\* A step that does not touch an incarnation keeps what is outstanding.
LEMMA SameOutstanding ==
    ASSUME NEW h \in Gens, Same(h) PROVE Outstanding(h)' = Outstanding(h)
BY DEF Same, Outstanding

\* Every step stays within the budget.
LEMMA BudgetNext ==
    ASSUME TypeInv, TypeInv', SyncInv, SyncInv', \A g \in Gens : LocalInv(g), WithinBudget, [Next]_vars
    PROVE  WithinBudget'
<1>0. /\ TypeOK /\ NoGen \notin Gens
      /\ \A h \in Gens : Outstanding(h) <= Budget(h)
      /\ \A h \in Gens : Outstanding(h) \in Nat /\ Outstanding(h)' \in Nat
      /\ \A h \in Gens : Budget(h) \in 0..3 /\ Budget(h)' \in 0..3
  <2>1. \A h \in Gens : Outstanding(h) \in Nat /\ Outstanding(h)' \in Nat
    BY OutstandingNat
  <2>2. \A h \in Gens : Budget(h) \in 0..3 /\ Budget(h)' \in 0..3
    BY DEF Budget
  <2>3. QED BY <2>1, <2>2 DEF TypeInv, NoGen, Gens, WithinBudget
<1> SUFFICES ASSUME NEW h \in Gens PROVE Outstanding(h)' <= Budget(h)'
  BY DEF WithinBudget
<1>k. ASSUME Same(h), Afforded(h) PROVE Outstanding(h)' <= Budget(h)'
  <2>1. Outstanding(h)' <= Outstanding(h)
    BY <1>0, <1>k, SameOutstanding
  <2>2. QED BY <1>0, <1>k, <2>1, BudgetKept
<1>1. CASE SendAdd
  <2>1. PICK g \in Gens : g = sync.gen
    BY <1>1 DEF TypeInv, SyncHasGen, SendAdd
  <2>2. CASE h = g
    <3>1. AddSent(h)'
      BY <1>0, <1>1, <2>1, <2>2 DEF AddSent, SendAdd, SyncInv, TypeOK, podVars
    <3>2. Budget(h)' >= 1
      BY <3>1 DEF Budget
    <3>3. Outstanding(h)' = 1
      <4>1. /\ commandChan[h] = <<>> /\ responseChan'[h] = <<>>
            /\ worker'[h].at = "idle" /\ listener'[h].at = "idle"
        BY <1>1, <2>1, <2>2 DEF SyncInv, SendAdd
      <4>2. Len(commandChan'[h]) = Len(commandChan[h]) + 1
        <5>1. "ADD" \in CommandTypes /\ Send(h, "ADD")
          BY <1>1, <2>1, <2>2 DEF CommandTypes, SendAdd
        <5>2. QED BY <5>1, SendFacts
      <4>3. Len(commandChan'[h]) = 1 /\ Len(responseChan'[h]) = 0
        BY <4>1, <4>2
      <4>4. QED BY <4>1, <4>3 DEF Outstanding
    <3>4. QED BY <1>0, <3>2, <3>3
  <2>3. CASE h # g
    <3>1. Same(h)
      BY <1>1, <2>1, <2>3, SendAddLocal
    <3>2. Afforded(h)
      BY <1>0, <1>1, <2>1, <2>3 DEF Afforded, AddSent, DeleteSent, SendAdd, TypeOK, podVars
    <3>3. QED BY <1>k, <3>1, <3>2
  <2>4. QED BY <2>2, <2>3
<1>2. CASE DeletePodLocked
  <2>1. PICK g \in Gens : g = sync.gen
    BY <1>2 DEF TypeInv, SyncHasGen, DeletePodLocked
  <2>2. CASE h = g
    <3>1. /\ phase[h] # "unborn" /\ sync.gen = h /\ name2pod = h /\ sync.at = "lockDelete"
          /\ phase'[h] = "deleted" /\ name2pod' = NoGen /\ sync' = SyncIdle /\ canProbeWork' = canProbeWork
      BY <1>0, <1>2, <2>1, <2>2 DEF SyncInv, DeletePodLocked, TypeOK
    <3>2. AddSent(h) /\ AddSent(h)' /\ ~DeleteSent(h) /\ DeleteSent(h)'
      BY <1>0, <3>1 DEF AddSent, DeleteSent, SyncIdle
    <3>3. Budget(h)' = Budget(h) + 1
      BY <3>1, <3>2 DEF Budget
    <3>4. Outstanding(h)' = Outstanding(h) + 1
      <4>1. "DELETE" \in CommandTypes /\ Send(h, "DELETE")
        BY <1>2, <2>1, <2>2 DEF CommandTypes, DeletePodLocked
      <4>2. Len(commandChan'[h]) = Len(commandChan[h]) + 1
        BY <4>1, SendFacts
      <4>3. responseChan' = responseChan /\ worker' = worker /\ listener' = listener
        BY <1>2 DEF DeletePodLocked
      <4>4. QED BY <4>2, <4>3, OutstandingMore
    <3>5. QED BY <1>0, <3>3, <3>4
  <2>3. CASE h # g
    <3>1. Same(h)
      BY <1>2, <2>1, <2>3, DeleteLocal
    <3>2. Afforded(h)
      BY <1>0, <1>2, <2>1, <2>3 DEF Afforded, AddSent, DeleteSent, DeletePodLocked, TypeOK, SyncIdle
    <3>3. QED BY <1>k, <3>1, <3>2
  <2>4. QED BY <2>2, <2>3
<1>3. CASE MarshalPod \/ PutNewPod \/ DeletePod \/ ContainerExits \/ UNCHANGED vars
  <2>1. Same(h)
    BY <1>3
    DEF MarshalPod, PutNewPod, DeletePod, ContainerExits, vars, Same, podVars, channels, goroutines
  <2>2. Afforded(h)
    <3>1. CASE MarshalPod
      BY <1>0, <3>1 DEF Afforded, AddSent, DeleteSent, MarshalPod, TypeOK, podVars
    <3>2. CASE PutNewPod
      BY <1>0, <3>2 DEF Afforded, AddSent, DeleteSent, PutNewPod, TypeOK, podVars, SyncIdle
    <3>3. CASE DeletePod
      BY <1>0, <3>3 DEF Afforded, AddSent, DeleteSent, DeletePod, TypeOK, podVars
    <3>4. CASE ContainerExits \/ UNCHANGED vars
      BY <3>4 DEF Afforded, AddSent, DeleteSent, ContainerExits, vars, podVars, goroutines
    <3>5. QED BY <1>3, <3>1, <3>2, <3>3, <3>4
  <2>3. QED BY <1>k, <2>1, <2>2
<1>4. ASSUME NEW g \in Gens, NewPod(g) PROVE Outstanding(h)' <= Budget(h)'
  <2>1. CASE h = g
    <3>1. /\ commandChan'[h] = <<>> /\ responseChan'[h] = <<>>
          /\ worker'[h].at = "idle" /\ listener'[h].at = "idle"
      <4>1. sync'.at = "sendAdd" /\ sync'.gen = h
        BY <1>0, <1>4, <2>1 DEF NewPod, TypeOK
      <4>2. QED BY <4>1 DEF SyncInv
    <3>2. Outstanding(h)' = 0
      BY <3>1 DEF Outstanding
    <3>3. QED BY <1>0, <3>2
  <2>2. CASE h # g
    <3>1. Same(h)
      BY <1>4, <2>2, NewPodLocal
    <3>2. Afforded(h)
      BY <1>0, <1>4, <2>2, <3>1 DEF Afforded, AddSent, DeleteSent, NewPod, TypeOK, Same
    <3>3. QED BY <1>k, <3>1, <3>2
  <2>3. QED BY <2>1, <2>2
<1>5. ASSUME NEW g \in Gens, WorkerPanics(g) PROVE Outstanding(h)' <= Budget(h)'
  <2>1. Afforded(h)
    BY <1>0, <1>5 DEF Afforded, AddSent, DeleteSent, WorkerPanics, podVars, SyncIdle
  <2>2. /\ commandChan' = commandChan /\ responseChan' = responseChan
        /\ worker'[h].at = "exited" /\ listener'[h].at = "exited"
    BY <1>5 DEF WorkerPanics, channels, WorkerAt, ListenerAt
  <2>3. Outstanding(h)' <= Outstanding(h)
    BY <2>2, OutstandingLess
  <2>4. QED BY <1>0, <2>1, <2>3, BudgetKept
<1>6. ASSUME NEW g \in Gens, Goroutine(g) PROVE Outstanding(h)' <= Budget(h)'
  <2>1. /\ sync' = sync /\ name2pod' = name2pod /\ phase[g] # "unborn" /\ phase'[g] # "unborn"
        /\ \A i \in Gens \ {g} : Same(i)
    BY <1>6, GoroutinePhase, GoroutineLocal
  <2>2. CASE h # g
    <3>1. Same(h)
      BY <2>1, <2>2
    <3>2. Afforded(h)
      BY <2>1, <3>1 DEF Afforded, AddSent, DeleteSent, Same
    <3>3. QED BY <1>k, <3>1, <3>2
  <2>3. CASE h = g
    <3>1. (AddSent(h)' <=> AddSent(h)) /\ (DeleteSent(h)' <=> DeleteSent(h))
      BY <2>1, <2>3 DEF AddSent, DeleteSent
    <3>2. \/ Outstanding(h)' <= Outstanding(h) /\ canProbeWork'[h] = canProbeWork[h]
          \/ Outstanding(h)' <= Outstanding(h) /\ ~canProbeWork'[h]
          \/ Outstanding(h)' = Outstanding(h) + 1 /\ canProbeWork[h] /\ ~canProbeWork'[h]
          \/ Outstanding(h)' = Outstanding(h) - 1
      BY <1>6, <2>3, GoroutineOutstanding
    <3>3. CASE Outstanding(h)' <= Outstanding(h) /\ canProbeWork'[h] = canProbeWork[h]
      BY <1>0, <3>1, <3>3, BudgetKept DEF Afforded
    <3>4. CASE Outstanding(h)' <= Outstanding(h) /\ ~canProbeWork'[h]
      BY <1>0, <3>1, <3>4, BudgetKept DEF Afforded
    <3>5. CASE Outstanding(h)' = Outstanding(h) + 1 /\ canProbeWork[h] /\ ~canProbeWork'[h]
      <4>1. Budget(h)' = Budget(h) + 1
        BY <3>1, <3>5 DEF Budget
      <4>2. QED BY <1>0, <3>5, <4>1
    <3>6. CASE Outstanding(h)' = Outstanding(h) - 1
      <4>1. Budget(h)' >= Budget(h) - 1
        BY <3>1 DEF Budget
      <4>2. QED BY <1>0, <3>6, <4>1
    <3>7. QED BY <3>2, <3>3, <3>4, <3>5, <3>6
  <2>4. QED BY <2>2, <2>3
<1>7. QED BY <1>1, <1>2, <1>3, <1>4, <1>5, <1>6, NextSteps

-----------------------------------------------------------------------------
(* DeletionInv: what becomes of the containers of a deleted pod.           *)

\* A goroutine of one incarnation gives no containers to another one.
LEMMA DockerFrame ==
    ASSUME TypeInv, NEW g \in Gens, Goroutine(g), NEW h \in Gens, h # g
    PROVE  (docker'.gen = h => docker.gen = h) /\ deleteResult'[h] = deleteResult[h]
<1>0. TypeOK /\ NoGen \notin Gens
  BY DEF TypeInv, NoGen, Gens
<1>1. CASE WorkerTake(g) \/ WorkerExit(g) \/ WorkerRespond(g)
  BY <1>1 DEF WorkerTake, WorkerExit, WorkerRespond
<1>2. CASE Listener(g)
  BY <1>2
  DEF Listener, ListenerTake, AddSucceeded, AddFailed, ProbeAnswered, Handling, ReleaseLock, ReleaseResource
<1>3. CASE Prober(g)
  BY <1>3 DEF Prober, ProberTick, ProberBlocks
<1>4. CASE InspectNames(g) \/ ProbeContainers(g)
  BY <1>4 DEF InspectNames, ProbeContainers
<1>5. CASE RemoveNamed(g)
  BY <1>0, <1>5 DEF RemoveNamed, Stopped, NoGroup, TypeOK
<1>6. CASE CreateContainers(g)
  BY <1>0, <1>6 DEF CreateContainers, NoGroup
<1>7. CASE StopContainers(g)
  <2>1. docker'.gen = docker.gen
    BY <1>0, <1>7 DEF StopContainers, FailDelete, Stopped, TypeOK
  <2>2. deleteResult'[h] = deleteResult[h]
    BY <1>0, <1>7 DEF StopContainers, FailDelete, TypeOK
  <2>3. QED BY <2>1, <2>2
<1>8. CASE RemoveContainers(g)
  <2>1. docker'.gen = h => docker.gen = h
    BY <1>0, <1>8 DEF RemoveContainers, FailDelete, NoGroup
  <2>2. deleteResult'[h] = deleteResult[h]
    BY <1>0, <1>8 DEF RemoveContainers, FailDelete, TypeOK
  <2>3. QED BY <2>1, <2>2
<1>9. QED
  BY <1>1, <1>2, <1>3, <1>4, <1>5, <1>6, <1>7, <1>8 DEF Goroutine, DockerAction

\* Deleting the containers ends with none left, or with the reason why.
LEMMA DeletionEnds ==
    ASSUME TypeInv, NEW g \in Gens, LocalInv(g), StopContainers(g) \/ RemoveContainers(g)
    PROVE  worker'[g].at = "remove" \/ (docker'.gen = g => deleteResult'[g] \in {"noIds", "fault"})
<1>0. TypeOK /\ NoGen \notin Gens
  BY DEF TypeInv, NoGen, Gens
<1>1. CASE StopContainers(g)
  <2>1. \/ Advance(g, "remove")
        \/ docker' = docker /\ deleteResult' = [deleteResult EXCEPT ![g] = "noIds"]
        \/ /\ worker[g].job.ids /\ ~Found(g)
           /\ docker' = docker /\ deleteResult' = [deleteResult EXCEPT ![g] = "gone"]
        \/ deleteResult' = [deleteResult EXCEPT ![g] = "fault"]
    BY <1>1 DEF StopContainers, FailDelete
  <2>2. CASE Advance(g, "remove")
    <3>1. "remove" \in WorkerSteps /\ "err" \in Results
      BY DEF WorkerSteps, Results
    <3>2. QED BY <2>2, <3>1, WorkerMoves
  <2>3. CASE deleteResult' = [deleteResult EXCEPT ![g] = "noIds"]
             \/ deleteResult' = [deleteResult EXCEPT ![g] = "fault"]
    BY <1>0, <2>3 DEF TypeOK
  <2>4. CASE worker[g].job.ids /\ ~Found(g) /\ docker' = docker
    BY <2>4 DEF Found
  <2>5. QED BY <2>1, <2>2, <2>3, <2>4
<1>2. CASE RemoveContainers(g)
  <2>1. \/ docker' = NoGroup
        \/ ~Found(g) /\ docker' = docker
        \/ docker' = docker /\ deleteResult' = [deleteResult EXCEPT ![g] = "fault"]
    BY <1>2 DEF RemoveContainers, FailDelete
  <2>2. worker[g].job.ids
    BY <1>2 DEF RemoveContainers, DockerStep, LocalInv, JobFits
  <2>3. CASE docker' = NoGroup
    BY <1>0, <2>3 DEF NoGroup
  <2>4. CASE ~Found(g) /\ docker' = docker
    BY <2>2, <2>4 DEF Found
  <2>5. CASE deleteResult' = [deleteResult EXCEPT ![g] = "fault"]
    BY <1>0, <2>5 DEF TypeOK
  <2>6. QED BY <2>1, <2>3, <2>4, <2>5
<1>3. QED BY <1>1, <1>2

Deletion(g) == DeletePending(g) \/ DeletionOver(g)

\* A deletion that is sent is carried out, and nothing comes after it.
LEMMA DeletionOwn ==
    ASSUME TypeInv, NEW g \in Gens, LocalInv(g), Goroutine(g), Deletion(g)
    PROVE  Deletion(g)'
<1> USE DEF Deletion
<1>1. CASE WorkerTake(g)
  <2> DEFINE c == Head(commandChan[g])
  <2>1. /\ docker' = docker /\ deleteResult' = deleteResult
        /\ worker[g].at = "idle" /\ commandChan[g] # <<>> /\ commandChan[g] \in Seq(Command)
    BY <1>1 DEF WorkerTake, TypeInv, TypeOK
  <2>2. c \in Command /\ worker'[g].at = FirstStep(c.type) /\ commandChan'[g] = Tail(commandChan[g])
    BY <1>1, WorkerTakeFacts
  <2>3. \A t : Holds(commandChan[g], t) <=> c.type = t \/ Holds(commandChan'[g], t)
    BY <2>1, <2>2, HoldsTail
  <2>4. \/ c.type = "ADD" /\ worker'[g].at = "inspectNames"
        \/ c.type = "PROBE" /\ worker'[g].at = "probe"
        \/ c.type = "DELETE" /\ worker'[g].at = "stop"
    BY <2>2 DEF Command, CommandTypes, FirstStep
  <2>5. QED BY <2>1, <2>3, <2>4 DEF DeletePending, DeletionOver, AddPending
<1>2. CASE WorkerExit(g)
  <2>1. /\ docker' = docker /\ deleteResult' = deleteResult /\ commandChan' = commandChan
        /\ worker[g].at = "idle" /\ worker'[g].at = "exited"
    BY <1>2 DEF WorkerExit, channels, TypeInv, TypeOK, WorkerAt
  <2>2. QED BY <2>1 DEF DeletePending, DeletionOver, AddPending
<1>3. CASE WorkerRespond(g)
  <2>1. /\ docker' = docker /\ deleteResult' = deleteResult /\ commandChan' = commandChan
        /\ worker[g].at = "respond" /\ worker'[g].at = "idle"
    BY <1>3, RespondFacts DEF WorkerRespond
  <2>2. QED BY <2>1 DEF DeletePending, DeletionOver, AddPending
<1>4. CASE InspectNames(g) \/ RemoveNamed(g) \/ CreateContainers(g)
  <2>1. commandChan' = commandChan /\ worker[g].at \in {"inspectNames", "removeNamed", "create"}
    BY <1>4 DEF InspectNames, RemoveNamed, CreateContainers, DockerStep, channels
  <2>2. Holds(commandChan[g], "DELETE")
    BY <2>1 DEF DeletePending, DeletionOver, AddPending
  <2>3. QED BY <2>1, <2>2 DEF DeletePending
<1>5. CASE ProbeContainers(g)
  <2>1. /\ commandChan' = commandChan /\ docker' = docker /\ deleteResult' = deleteResult
        /\ worker[g].at = "probe"
    BY <1>5 DEF ProbeContainers, DockerStep, channels
  <2>2. worker'[g].at = "respond"
    BY <1>5, <2>1, DockerMoves DEF DockerAction, DockerMove
  <2>3. QED BY <2>1, <2>2 DEF DeletePending, DeletionOver, AddPending
<1>6. CASE StopContainers(g) \/ RemoveContainers(g)
  <2>1. commandChan' = commandChan /\ worker[g].at \in {"stop", "remove"}
    BY <1>6 DEF StopContainers, RemoveContainers, DockerStep, channels
  <2>2. worker'[g].at \in {"remove", "respond"}
    BY <1>6, <2>1, DockerMoves DEF DockerAction, DockerMove
  <2>3. ~Holds(commandChan[g], "ADD")
    BY <2>1 DEF LocalInv, AddFirst, Holds
  <2>4. worker'[g].at = "remove" \/ (docker'.gen = g => deleteResult'[g] \in {"noIds", "fault"})
    BY <1>6, DeletionEnds
  <2>5. QED BY <2>1, <2>2, <2>3, <2>4 DEF DeletePending, DeletionOver, AddPending
<1>7. CASE Listener(g) \/ ProberBlocks(g)
  <2>1. /\ docker' = docker /\ deleteResult' = deleteResult /\ commandChan' = commandChan
        /\ worker' = worker
    BY <1>7
    DEF Listener, ListenerTake, AddSucceeded, AddFailed, ProbeAnswered, Handling, ReleaseLock,
        ReleaseResource, ProberBlocks, channels
  <2>2. QED BY <2>1 DEF DeletePending, DeletionOver, AddPending
<1>8. CASE ProberTick(g)
  <2>1. docker' = docker /\ deleteResult' = deleteResult /\ worker' = worker /\ Send(g, "PROBE")
    BY <1>8 DEF ProberTick, goroutines
  <2>2. "PROBE" \in CommandTypes
    BY DEF CommandTypes
  <2>3. \A t : Holds(commandChan'[g], t) <=> Holds(commandChan[g], t) \/ t = "PROBE"
    BY <2>1, <2>2, SendFacts
  <2>4. QED BY <2>1, <2>3 DEF DeletePending, DeletionOver, AddPending
<1>9. QED
  BY <1>1, <1>2, <1>3, <1>4, <1>5, <1>6, <1>7, <1>8 DEF Goroutine, DockerAction, Prober

\* A step that does not touch an incarnation nor its containers keeps its deletion.
LEMMA DeletionFrame ==
    ASSUME NEW h \in Gens, Same(h), Deletion(h), docker'.gen = h => docker.gen = h,
           deleteResult'[h] = deleteResult[h]
    PROVE  Deletion(h)'
BY DEF Same, Deletion, DeletePending, DeletionOver, AddPending

\* Every step keeps DeletionInv.
LEMMA DeletionNext ==
    ASSUME TypeInv, SyncInv, \A g \in Gens : LocalInv(g), DeletionInv, [Next]_vars
    PROVE  DeletionInv'
<1>0. /\ TypeOK /\ NoGen \notin Gens
      /\ \A h \in Gens : Unmanaged(h) => Deletion(h)
  BY DEF TypeInv, NoGen, Gens, DeletionInv, Deletion
<1> SUFFICES ASSUME NEW h \in Gens, Unmanaged(h)' PROVE Deletion(h)'
  BY DEF DeletionInv, Deletion
<1>1. CASE SendAdd
  <2>1. PICK g \in Gens : g = sync.gen
    BY <1>1 DEF TypeInv, SyncHasGen, SendAdd
  <2>2. h # g /\ Unmanaged(h)
    BY <1>0, <1>1, <2>1 DEF Unmanaged, Alive, SendAdd, TypeOK, podVars
  <2>3. Same(h)
    BY <1>1, <2>1, <2>2, SendAddLocal
  <2>4. QED BY <1>0, <1>1, <2>2, <2>3, DeletionFrame DEF SendAdd
<1>2. CASE DeletePodLocked
  <2>1. PICK g \in Gens : g = sync.gen
    BY <1>2 DEF TypeInv, SyncHasGen, DeletePodLocked
  <2>2. CASE h = g
    <3>1. "DELETE" \in CommandTypes /\ Send(h, "DELETE")
      BY <1>2, <2>1, <2>2 DEF CommandTypes, DeletePodLocked
    <3>2. Holds(commandChan'[h], "DELETE")
      BY <3>1, SendFacts
    <3>3. QED BY <3>2 DEF Deletion, DeletePending
  <2>3. CASE h # g
    <3>1. Same(h)
      BY <1>2, <2>1, <2>3, DeleteLocal
    <3>2. Unmanaged(h)
      BY <1>0, <1>2, <2>1, <2>3, <3>1 DEF Unmanaged, Alive, DeletePodLocked, SyncInv, Same
    <3>3. QED BY <1>0, <1>2, <3>1, <3>2, DeletionFrame DEF DeletePodLocked
  <2>4. QED BY <2>2, <2>3
<1>3. CASE MarshalPod \/ PutNewPod \/ DeletePod \/ ContainerExits \/ UNCHANGED vars
  <2>1. Same(h)
    BY <1>3
    DEF MarshalPod, PutNewPod, DeletePod, ContainerExits, vars, Same, podVars, channels, goroutines
  <2>2. docker'.gen = docker.gen /\ deleteResult' = deleteResult
    BY <1>0, <1>3 DEF MarshalPod, PutNewPod, DeletePod, ContainerExits, vars, TypeOK
  <2>3. Unmanaged(h)
    <3>1. CASE MarshalPod
      BY <1>0, <3>1 DEF Unmanaged, Alive, MarshalPod, TypeOK, podVars
    <3>2. CASE PutNewPod
      BY <1>0, <3>2 DEF Unmanaged, Alive, PutNewPod, TypeOK, podVars, SyncInv, Creating
    <3>3. CASE DeletePod
      BY <1>0, <3>3 DEF Unmanaged, Alive, DeletePod, TypeOK, podVars, SyncInv
    <3>4. CASE ContainerExits \/ UNCHANGED vars
      BY <3>4 DEF Unmanaged, Alive, ContainerExits, vars, podVars, goroutines
    <3>5. QED BY <1>3, <3>1, <3>2, <3>3, <3>4
  <2>4. QED BY <1>0, <2>1, <2>2, <2>3, DeletionFrame
<1>4. ASSUME NEW g \in Gens, NewPod(g) PROVE Deletion(h)'
  <2>1. h # g
    BY <1>0, <1>4 DEF NewPod, Unmanaged, TypeOK
  <2>2. Same(h)
    BY <1>4, <2>1, NewPodLocal
  <2>3. Unmanaged(h)
    BY <1>0, <1>4, <2>1, <2>2 DEF Unmanaged, Alive, NewPod, SyncInv, Same
  <2>4. QED BY <1>0, <1>4, <2>2, <2>3, DeletionFrame DEF NewPod
<1>5. ASSUME NEW g \in Gens, WorkerPanics(g) PROVE Deletion(h)'
  BY <1>5 DEF WorkerPanics, Unmanaged, Alive, SyncIdle
<1>6. ASSUME NEW g \in Gens, Goroutine(g) PROVE Deletion(h)'
  <2>1. /\ sync' = sync /\ name2pod' = name2pod /\ phase[g] # "unborn" /\ phase'[g] # "unborn"
        /\ \A i \in Gens \ {g} : Same(i)
    BY <1>6, GoroutinePhase, GoroutineLocal
  <2>2. Unmanaged(h)
    BY <2>1 DEF Unmanaged, Alive, Same
  <2>3. CASE h = g
    BY <1>0, <1>6, <2>2, <2>3, DeletionOwn
  <2>4. CASE h # g
    BY <1>0, <1>6, <2>1, <2>2, <2>4, DockerFrame, DeletionFrame
  <2>5. QED BY <2>3, <2>4
<1>7. QED BY <1>1, <1>2, <1>3, <1>4, <1>5, <1>6, NextSteps

-----------------------------------------------------------------------------
(* EntryHasPod, and the invariant as a whole.                              *)

\* Every step keeps EntryHasPod.
LEMMA EntryNext ==
    ASSUME TypeInv, SyncInv, \A g \in Gens : LocalInv(g), EntryHasPod, [Next]_vars
    PROVE  EntryHasPod'
<1>0. TypeOK
  BY DEF TypeInv
<1> SUFFICES ASSUME etcd' # Absent, "api" \notin Faults
             PROVE  \E g \in Gens : phase'[g] \notin {"unborn", "deleted"}
  BY DEF EntryHasPod
<1>e. ASSUME etcd' = etcd,
             \A g \in Gens : phase[g] \notin {"unborn", "deleted"} => phase'[g] \notin {"unborn", "deleted"}
      PROVE  \E g \in Gens : phase'[g] \notin {"unborn", "deleted"}
  BY <1>e DEF EntryHasPod
<1>1. CASE SendAdd \/ MarshalPod \/ DeletePod \/ ContainerExits \/ UNCHANGED vars
  BY <1>e, <1>1 DEF SendAdd, MarshalPod, DeletePod, ContainerExits, vars, podVars
<1>2. CASE PutNewPod
  BY <1>2 DEF PutNewPod, SyncInv, Creating, podVars
<1>3. CASE DeletePodLocked
  BY <1>3 DEF DeletePodLocked, Upload
<1>4. ASSUME NEW g \in Gens, NewPod(g)
      PROVE  \E h \in Gens : phase'[h] \notin {"unborn", "deleted"}
  <2>1. phase'[g] \in {"Pending", "Failed"}
    BY <1>0, <1>4 DEF NewPod, TypeOK
  <2>2. QED BY <2>1
<1>5. ASSUME NEW g \in Gens, WorkerPanics(g)
      PROVE  \E h \in Gens : phase'[h] \notin {"unborn", "deleted"}
  BY <1>5, <1>e DEF WorkerPanics, podVars
<1>6. ASSUME NEW g \in Gens, Goroutine(g)
      PROVE  \E h \in Gens : phase'[h] \notin {"unborn", "deleted"}
  <2>1. /\ phase[g] # "unborn" /\ phase'[g] # "unborn" /\ (phase[g] # "deleted" => phase'[g] # "deleted")
        /\ \A i \in Gens \ {g} : Same(i)
    BY <1>6, GoroutinePhase, GoroutineLocal
  <2>2. etcd' = etcd \/ phase'[g] # "deleted"
    <3>1. CASE AddSucceeded(g)
      BY <1>0, <3>1 DEF AddSucceeded, TypeOK
    <3>2. CASE ProbeAnswered(g)
      BY <2>1, <3>2 DEF ProbeAnswered
    <3>3. CASE ListenerTake(g) \/ AddFailed(g) \/ ReleaseLock(g) \/ ReleaseResource(g)
      BY <3>3 DEF ListenerTake, AddFailed, ReleaseLock, ReleaseResource
    <3>4. CASE WorkerTake(g) \/ WorkerExit(g) \/ WorkerRespond(g) \/ Prober(g)
      BY <3>4 DEF WorkerTake, WorkerExit, WorkerRespond, Prober, ProberTick, ProberBlocks
    <3>5. CASE DockerAction(g)
      BY <3>5, DockerMoves DEF DockerMove
    <3>6. QED BY <1>6, <3>1, <3>2, <3>3, <3>4, <3>5 DEF Goroutine, Listener
  <2>3. CASE phase'[g] # "deleted"
    BY <2>1, <2>3
  <2>4. CASE etcd' = etcd
    BY <1>e, <2>1, <2>4 DEF Same
  <2>5. QED BY <2>2, <2>3, <2>4
<1>7. QED BY <1>1, <1>2, <1>3, <1>4, <1>5, <1>6, NextSteps

\* RuntimeInv with the types.
Invariant == RuntimeInv /\ TypeInv

\* The invariant holds before any pod exists.
LEMMA RuntimeInit == Init => Invariant
<1> SUFFICES ASSUME Init PROVE Invariant
  OBVIOUS
<1>1. TypeInv
  BY TypeInit
<1>2. ASSUME NEW g \in Gens PROVE LocalInv(g)
  <2>1. /\ phase[g] = "unborn" /\ ~ids[g] /\ ~closed[g] /\ commandChan[g] = <<>> /\ responseChan[g] = <<>>
        /\ worker[g].at = "off" /\ listener[g].at = "off" /\ prober[g] = "off"
    BY DEF Init, WorkerAt, ListenerAt
  <2>2. \A t : ~UnderWay(g, t) /\ Alone(g, t)
    BY <2>1, HoldsEmpty DEF UnderWay, Alone, WorksOn, Working, Handles
  <2>3. QED
    BY <2>1, <2>2
    DEF LocalInv, UnbornIdle, JobFits, AddFirst, IdsCarried, AddOnce, ProbeOnce
<1>3. SyncInv /\ EntryHasPod
  BY DEF Init, SyncInv, Creating, SyncIdle, EntryHasPod
<1>4. WithinBudget
  <2>1. SUFFICES ASSUME NEW g \in Gens PROVE Outstanding(g) <= Budget(g)
    BY DEF WithinBudget
  <2>2. /\ commandChan[g] = <<>> /\ responseChan[g] = <<>> /\ worker[g].at = "off" /\ listener[g].at = "off"
    BY DEF Init, WorkerAt, ListenerAt
  <2>3. Outstanding(g) = 0
    BY <2>2 DEF Outstanding
  <2>4. Budget(g) \in 0..3
    BY DEF Budget
  <2>5. QED BY <2>3, <2>4
<1>5. DeletionInv
  BY DEF Init, DeletionInv, Unmanaged
<1>6. QED BY <1>1, <1>2, <1>3, <1>4, <1>5 DEF Invariant, RuntimeInv, TypeInv

\* Every step of the goroutines, the user and the runtime keeps the invariant.
LEMMA RuntimeNext == Invariant /\ [Next]_vars => Invariant'
<1> SUFFICES ASSUME Invariant, [Next]_vars PROVE Invariant'
  OBVIOUS
<1>0. /\ TypeInv /\ (\A g \in Gens : LocalInv(g)) /\ SyncInv /\ WithinBudget /\ DeletionInv
      /\ EntryHasPod
  BY DEF Invariant, RuntimeInv
<1>1. TypeInv'
  BY <1>0, TypeNext
<1>2. \A g \in Gens : LocalInv(g)'
  BY <1>0, LocalNext
<1>3. SyncInv'
  BY <1>0, SyncNext
<1>4. WithinBudget'
  BY <1>0, <1>1, <1>3, BudgetNext
<1>5. DeletionInv'
  BY <1>0, DeletionNext
<1>6. EntryHasPod'
  BY <1>0, EntryNext
<1>7. QED BY <1>1, <1>2, <1>3, <1>4, <1>5, <1>6 DEF Invariant, RuntimeInv, TypeInv

\* The invariant holds in every reachable state.
LEMMA RuntimeInvariant == Spec => []Invariant
BY RuntimeInit, RuntimeNext, PTL DEF Spec

\* The channels of an incarnation never hold more than three commands and answers, for any
\* number of incarnations and whatever fails, so their capacity of 100 never blocks a sender
\* that holds rwLock.
THEOREM ChannelsAreShort == Spec => []ChannelsNeverFill
<1>1. Invariant => ChannelsNeverFill
  <2> SUFFICES ASSUME Invariant, NEW g \in Gens PROVE Outstanding(g) <= 3
    BY DEF ChannelsNeverFill
  <2>1. Outstanding(g) <= Budget(g) /\ Budget(g) \in 0..3
    BY DEF Invariant, RuntimeInv, WithinBudget, Budget
  <2>2. Outstanding(g) \in Nat
    BY OutstandingNat DEF Invariant
  <2>3. QED BY <2>1, <2>2
<1>2. QED BY <1>1, RuntimeInvariant, PTL

\* StartProbe never asks docker about missing container ids.
THEOREM ProbesHaveIds == Spec => []ProbesCarryIds
<1>1. Invariant => ProbesCarryIds
  BY DEF Invariant, RuntimeInv, LocalInv, IdsCarried, ProbesCarryIds
<1>2. QED BY <1>1, RuntimeInvariant, PTL

\* Containers outlive the deletion of their pod only if docker refused to remove them or
\* DeletePod overtook the answer to ADD_POD.
THEOREM OrphansExplained == Spec => []OrphanOnlyIfDeleteOvertook
<1>1. Invariant => OrphanOnlyIfDeleteOvertook
  <2> SUFFICES ASSUME Invariant, NEW g \in Gens, Unmanaged(g), Drained(g), docker.gen = g
               PROVE  deleteResult[g] \in {"noIds", "fault"}
    BY DEF OrphanOnlyIfDeleteOvertook
  <2>1. DeletePending(g) \/ DeletionOver(g)
    BY DEF Invariant, RuntimeInv, DeletionInv
  <2>2. ~DeletePending(g)
    BY HoldsEmpty DEF Drained, DeletePending
  <2>3. QED BY <2>1, <2>2 DEF DeletionOver
<1>2. QED BY <1>1, RuntimeInvariant, PTL

\* A runtime entry without a managed pod is that of a pod the late answer to ADD_POD brought
\* back from "deleted", unless a request to the API server failed.
THEOREM GhostsAreResurrected == Spec => []GhostEntryIsResurrected
<1>1. Invariant => GhostEntryIsResurrected
  BY DEF Invariant, RuntimeInv, EntryHasPod, GhostEntryIsResurrected
<1>2. QED BY <1>1, RuntimeInvariant, PTL

\* The claim of ExitedIsFinal about one incarnation.
StaysExited(h) ==
    /\ phase'[h] \in {"Exited", "deleted"}
    /\ etcd = "Exited" /\ etcd' \notin {"Exited", Absent} =>
          SlowUpload \/ \E g \in Gens \ {h} : Answers(g)

\* Only the listener's two answers upload from a goroutine of an incarnation.
LEMMA GoroutineUploads ==
    ASSUME TypeInv, NEW g \in Gens, Goroutine(g)
    PROVE  etcd' = etcd \/ (Answers(g) /\ (AddSucceeded(g) \/ ProbeAnswered(g)))
<1>1. CASE WorkerTake(g) \/ WorkerExit(g) \/ WorkerRespond(g) \/ Prober(g)
  BY <1>1 DEF WorkerTake, WorkerExit, WorkerRespond, Prober, ProberTick, ProberBlocks
<1>2. CASE DockerAction(g)
  BY <1>2 DEF DockerAction, InspectNames, RemoveNamed, CreateContainers, ProbeContainers,
     StopContainers, RemoveContainers, DockerStep
<1>3. CASE ListenerTake(g) \/ AddFailed(g) \/ ReleaseLock(g) \/ ReleaseResource(g)
  BY <1>3 DEF ListenerTake, AddFailed, ReleaseLock, ReleaseResource
<1>4. CASE AddSucceeded(g) \/ ProbeAnswered(g)
  <2>1. listener[g].at = "handle" /\ ListenerIdle(g)
    BY <1>4 DEF AddSucceeded, ProbeAnswered, Handling
  <2>2. listener'[g].at = "idle"
    BY <2>1 DEF ListenerIdle, ListenerAt, TypeInv, TypeOK
  <2>3. QED BY <1>4, <2>1, <2>2 DEF Answers
<1>5. QED BY <1>1, <1>2, <1>3, <1>4 DEF Goroutine, Listener

\* A pod whose containers exited keeps its phase, and its entry, until it is deleted: when the
\* listener handles an answer, the pod has not been found exited since the command was sent.
\* Only the unlocked upload of a creation (pod.go:183) and another incarnation of the same
\* name write another phase over the entry.
THEOREM ExitedStays == Spec => ExitedIsFinal
<1>1. Invariant /\ [Next]_vars =>
         [\A g \in Gens : phase[g] = "Exited" => StaysExited(g)]_vars
  <2> SUFFICES ASSUME Invariant, [Next]_vars, NEW h \in Gens, phase[h] = "Exited"
               PROVE  StaysExited(h)
    OBVIOUS
  <2>0. TypeOK /\ TypeInv /\ \A g \in Gens : LocalInv(g)
    BY DEF Invariant, RuntimeInv
  <2>1. CASE SendAdd \/ MarshalPod \/ DeletePod \/ ContainerExits \/ UNCHANGED vars
    BY <2>1 DEF SendAdd, MarshalPod, DeletePod, ContainerExits, vars, podVars, StaysExited
  <2>2. CASE DeletePodLocked
    BY <2>0, <2>2 DEF DeletePodLocked, TypeOK, Upload, StaysExited
  <2>3. ASSUME NEW g \in Gens, NewPod(g) PROVE StaysExited(h)
    BY <2>0, <2>3 DEF NewPod, TypeOK, StaysExited
  <2>4. ASSUME NEW g \in Gens, WorkerPanics(g) PROVE StaysExited(h)
    BY <2>4 DEF WorkerPanics, podVars, StaysExited
  <2>5. ASSUME NEW g \in Gens, Goroutine(g) PROVE StaysExited(h)
    <3>0. etcd' = etcd \/ (Answers(g) /\ (AddSucceeded(g) \/ ProbeAnswered(g)))
      BY <2>0, <2>5, GoroutineUploads
    <3>1. CASE g # h
      BY <2>0, <2>5, <3>0, <3>1, GoroutineLocal DEF Same, StaysExited
    <3>2. CASE g = h
      <4>1. ids[h] /\ ~UnderWay(h, "ADD") /\ ~UnderWay(h, "PROBE")
        BY <2>0 DEF LocalInv, AddOnce, ProbeOnce
      <4>2. ~AddSucceeded(h) /\ ~ProbeAnswered(h)
        BY <4>1 DEF AddSucceeded, ProbeAnswered, Handling, UnderWay, Handles
      <4>3. phase' = phase
        <5>1. CASE ListenerTake(h) \/ AddFailed(h) \/ ReleaseLock(h) \/ ReleaseResource(h)
          BY <5>1 DEF ListenerTake, AddFailed, ReleaseLock, ReleaseResource, podVars
        <5>2. CASE WorkerTake(h) \/ WorkerExit(h) \/ WorkerRespond(h) \/ Prober(h)
          BY <5>2 DEF WorkerTake, WorkerExit, WorkerRespond, Prober, ProberTick, ProberBlocks, podVars
        <5>3. CASE DockerAction(h)
          BY <2>0, <5>3, DockerMoves DEF DockerMove
        <5>4. QED BY <2>5, <3>2, <4>2, <5>1, <5>2, <5>3 DEF Goroutine, Listener
      <4>4. QED BY <3>0, <3>2, <4>2, <4>3 DEF StaysExited
    <3>3. QED BY <3>1, <3>2
  <2>6. CASE PutNewPod
    <3>1. sync.at = "put" /\ sync' = SyncIdle /\ phase' = phase
      BY <2>6 DEF PutNewPod, podVars
    <3>2. QED BY <3>1 DEF SyncIdle, SlowUpload, StaysExited
  <2>7. QED BY <2>1, <2>2, <2>3, <2>4, <2>5, <2>6, NextSteps
<1>2. Invariant /\ [Next]_vars =>
         [\A g \in Gens : phase[g] = "Exited" =>
             /\ phase'[g] \in {"Exited", "deleted"}
             /\ etcd = "Exited" /\ etcd' \notin {"Exited", Absent} =>
                   SlowUpload \/ \E h \in Gens \ {g} : Answers(h)]_vars
  BY <1>1 DEF StaysExited
<1>3. QED BY <1>2, RuntimeInvariant, PTL DEF Spec, ExitedIsFinal

=============================================================================
