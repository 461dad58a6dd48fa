------------------------ MODULE DeploymentController ------------------------
(***************************************************************************)
(* The Deployment controller on one Deployment: creation, rolling update   *)
(* and deletion.                                                           *)
(*                                                                         *)
(* A put of the Deployment in etcd reaches putDeployment, a removal        *)
(* reaches deleteDeployment; the two are separate subscriptions, so they   *)
(* need not be handled in the order they happened.  A creation makes one   *)
(* ReplicaSet.  A modification starts a goroutine that makes a new one and *)
(* in turn raises it and lowers the old one by one replica, with a request *)
(* to the API server (which may fail) for each change.  Goroutines of      *)
(* successive modifications run concurrently.                              *)
(*                                                                         *)
(* A ReplicaSet is named by the put that made it.  How many pods run for a *)
(* ReplicaSet is module ReplicaSetController's business; here it is the    *)
(* number of replicas its configuration asks for.  deploymentMap is kept   *)
(* by the code and never read, and is left out.                            *)
(***************************************************************************)
EXTENDS Naturals, Sequences

CONSTANTS
    MaxReplicas,  \* largest Spec.Replicas the user asks for
    MaxSurge,     \* largest maxSurge the user asks for
    MaxApplies,   \* bound: puts of the Deployment
    MaxDeletes,   \* bound: removals of the Deployment
    MaxFailures   \* bound: requests to the API server that fail

ASSUME DeploymentAssumption ==
    /\ MaxReplicas \in Nat /\ MaxSurge \in Nat
    /\ MaxApplies \in Nat /\ MaxDeletes \in Nat /\ MaxFailures \in Nat

RS == 1..MaxApplies
NoRS == 0
Undeployed == MaxReplicas + 1
Replicas == 0..MaxReplicas
Surges == 0..MaxSurge
\* A request is answered 200; or it is not, and did not or did reach etcd.
Outcomes == {"ok", "refused", "unanswered"}

VARIABLES
    deployment,     \* etcd: Spec.Replicas of the Deployment, or Undeployed
    putEvents,      \* its puts putDeployment has not seen yet
    delEvents,      \* how many removals deleteDeployment has not seen yet
    stored,         \* etcd: the rsConfig keys
    rsConfig,       \* etcd: their Spec.Replicas, 0 where there is no key
    owned,          \* etcd: whether OwnerReferences name the Deployment
    replicasetMap,  \* dc.replicasetMap: Spec.Replicas, 0 where there is no entry
    dm2rs,          \* dc.dm2rs: the Deployment's ReplicaSet, or NoRS
    upd,            \* the update goroutine that makes each ReplicaSet
    applies, deletes, failures,
    calm            \* history: the user always waited for the last change to be
                    \* carried out, and no creation or deletion was lost

eventVars == <<deployment, putEvents, delEvents>>
etcdVars == <<stored, rsConfig, owned>>
boundVars == <<applies, deletes, failures>>
vars == <<eventVars, etcdVars, replicasetMap, dm2rs, upd, boundVars, calm>>

\* Locals of `update`; from is the old ReplicaSet's size at the start.
NoUpdate == [at |-> "none", old |-> NoRS, from |-> 0, oldReplicas |-> 0, newReplicas |-> 0,
             oldDone |-> FALSE, newDone |-> FALSE, replicas |-> 0, surge |-> 0]

Init ==
    /\ deployment = Undeployed /\ putEvents = <<>> /\ delEvents = 0
    /\ stored = {}
    /\ rsConfig = [r \in RS |-> 0]
    /\ owned = [r \in RS |-> FALSE]
    /\ replicasetMap = [r \in RS |-> 0]
    /\ dm2rs = NoRS
    /\ upd = [r \in RS |-> NoUpdate]
    /\ applies = 0 /\ deletes = 0 /\ failures = 0
    /\ calm = TRUE

Updating(u) == upd[u].at \in {"start", "clear", "new", "old", "finish"}

Quiet == putEvents = <<>> /\ delEvents = 0 /\ \A u \in RS : ~Updating(u)

-----------------------------------------------------------------------------
(* The API server.                                                         *)

Failing(out) ==
    /\ out # "ok" => failures < MaxFailures
    /\ failures' = IF out = "ok" THEN failures ELSE failures + 1

\* client.Put of a ReplicaSet's configuration.
PutRS(r, n, own, out) ==
    /\ Failing(out)
    /\ IF out = "refused" THEN UNCHANGED etcdVars
       ELSE /\ stored' = stored \cup {r}
            /\ rsConfig' = [rsConfig EXCEPT ![r] = n]
            /\ owned' = [owned EXCEPT ![r] = own]

\* client.Del, answered by deleteRS: 400 without the key, which counts as refused.  The
\* first deletion sets Replicas to zero, the next one removes the key.
DelRS(r, out) ==
    IF r \notin stored THEN out = "refused" /\ UNCHANGED <<failures, etcdVars>>
    ELSE /\ Failing(out)
         /\ IF out = "refused" THEN UNCHANGED etcdVars
            ELSE /\ stored' = IF rsConfig[r] = 0 THEN stored \ {r} ELSE stored
                 /\ rsConfig' = [rsConfig EXCEPT ![r] = 0]
                 /\ owned' = [owned EXCEPT ![r] = @ /\ rsConfig[r] # 0]

-----------------------------------------------------------------------------
(* The user.                                                               *)

\* kubectl apply.
ApplyDeployment(n, surge) ==
    /\ applies < MaxApplies
    /\ applies' = applies + 1
    /\ deployment' = n
    /\ putEvents' = Append(putEvents, [rs |-> applies + 1, create |-> deployment = Undeployed,
                                       replicas |-> n, surge |-> surge])
    /\ calm' = (calm /\ Quiet)
    /\ UNCHANGED <<delEvents, etcdVars, replicasetMap, dm2rs, upd, deletes, failures>>

\* kubectl del deployment.
RemoveDeployment ==
    /\ deployment # Undeployed /\ deletes < MaxDeletes
    /\ deletes' = deletes + 1
    /\ deployment' = Undeployed
    /\ delEvents' = delEvents + 1
    /\ calm' = (calm /\ Quiet)
    /\ UNCHANGED <<putEvents, etcdVars, replicasetMap, dm2rs, upd, applies, failures>>

-----------------------------------------------------------------------------
(* The controller's two watch handlers.                                    *)

\* putDeployment, IsCreate: a failed Put is only logged.
PutDeploymentCreate(out) ==
    /\ putEvents # <<>> /\ Head(putEvents).create
    /\ LET e == Head(putEvents) IN
          /\ dm2rs' = e.rs
          /\ PutRS(e.rs, e.replicas, TRUE, out)
          /\ replicasetMap' = [replicasetMap EXCEPT ![e.rs] = e.replicas]
    /\ putEvents' = Tail(putEvents)
    /\ calm' = (calm /\ out # "refused")
    /\ UNCHANGED <<deployment, delEvents, upd, applies, deletes>>

\* putDeployment, IsModify: go update().
PutDeploymentModify ==
    /\ putEvents # <<>> /\ ~Head(putEvents).create
    /\ LET e == Head(putEvents) IN
          upd' = [upd EXCEPT ![e.rs] = [NoUpdate EXCEPT
                     !.at = "start", !.replicas = e.replicas, !.surge = e.surge]]
    /\ putEvents' = Tail(putEvents)
    /\ UNCHANGED <<deployment, delEvents, etcdVars, replicasetMap, dm2rs, boundVars, calm>>

\* deleteDeployment: without an entry in dm2rs the request names no ReplicaSet.
DeleteDeployment(out) ==
    /\ delEvents > 0
    /\ delEvents' = delEvents - 1
    /\ dm2rs' = NoRS
    /\ IF dm2rs = NoRS THEN out = "refused" /\ UNCHANGED <<failures, etcdVars>>
                       ELSE DelRS(dm2rs, out)
    /\ calm' = (calm /\ out # "refused")
    /\ UNCHANGED <<deployment, putEvents, replicasetMap, upd, applies, deletes>>

-----------------------------------------------------------------------------
(* The update goroutine that makes ReplicaSet u.                           *)

Min(a, b) == IF a < b THEN a ELSE b
Max(a, b) == IF a < b THEN b ELSE a

\* Mutant: maxSurge is ignored.
FirstReplicasAll(surge, replicas) == replicas

\* Spec.Replicas the new ReplicaSet starts with.
FirstReplicas(surge, replicas) == Min(surge, replicas)

\* Up to the owner: dm2rs.Get, replicasetMap.Get.
UpdateStart(u) ==
    /\ upd[u].at = "start"
    /\ LET n == IF dm2rs = NoRS THEN 0 ELSE replicasetMap[dm2rs] IN
          upd' = [upd EXCEPT ![u] = [@ EXCEPT
                     !.at = IF n = 0 THEN "new" ELSE "clear",
                     !.old = dm2rs, !.from = n, !.oldReplicas = n, !.oldDone = n = 0,
                     !.newReplicas = FirstReplicas(upd[u].surge, upd[u].replicas)]]
    /\ UNCHANGED <<eventVars, etcdVars, replicasetMap, dm2rs, boundVars, calm>>

\* Clear the old ReplicaSet's owner: a failed Put is only logged.
ClearOwner(u, out) ==
    /\ upd[u].at = "clear"
    /\ PutRS(upd[u].old, upd[u].oldReplicas, FALSE, out)
    /\ replicasetMap' = [replicasetMap EXCEPT ![upd[u].old] = upd[u].oldReplicas]
    /\ upd' = [upd EXCEPT ![u].at = "new"]
    /\ UNCHANGED <<eventVars, dm2rs, applies, deletes, calm>>

\* Mutant: the check that ends the loop compares the old number.
IncreaseNewOnceMore(u, out) ==
    /\ upd[u].at = "new" /\ ~upd[u].newDone
    /\ PutRS(u, upd[u].newReplicas, TRUE, out)
    /\ IF out = "ok"
          THEN /\ replicasetMap' = [replicasetMap EXCEPT ![u] = upd[u].newReplicas]
               /\ upd' = [upd EXCEPT ![u].at = "old",
                                     ![u].newReplicas = @ + 1,
                                     ![u].newDone = upd[u].newReplicas > upd[u].replicas]
          ELSE UNCHANGED <<replicasetMap, upd>>
    /\ UNCHANGED <<eventVars, dm2rs, applies, deletes, calm>>

\* Mutant: a failed Put does not skip the second half of the loop.
IncreaseNewCarriesOn(u, out) ==
    /\ upd[u].at = "new" /\ ~upd[u].newDone
    /\ PutRS(u, upd[u].newReplicas, TRUE, out)
    /\ IF out = "ok"
          THEN /\ replicasetMap' = [replicasetMap EXCEPT ![u] = upd[u].newReplicas]
               /\ upd' = [upd EXCEPT ![u].at = "old",
                                     ![u].newReplicas = @ + 1,
                                     ![u].newDone = upd[u].newReplicas + 1 > upd[u].replicas]
          ELSE upd' = [upd EXCEPT ![u].at = "old"] /\ UNCHANGED replicasetMap
    /\ UNCHANGED <<eventVars, dm2rs, applies, deletes, calm>>

\* The first half of the loop; after a failed Put the loop starts again.
IncreaseNew(u, out) ==
    /\ upd[u].at = "new" /\ ~upd[u].newDone
    /\ PutRS(u, upd[u].newReplicas, TRUE, out)
    /\ IF out = "ok"
          THEN /\ replicasetMap' = [replicasetMap EXCEPT ![u] = upd[u].newReplicas]
               /\ upd' = [upd EXCEPT ![u].at = "old",
                                     ![u].newReplicas = @ + 1,
                                     ![u].newDone = upd[u].newReplicas + 1 > upd[u].replicas]
          ELSE UNCHANGED <<replicasetMap, upd>>
    /\ UNCHANGED <<eventVars, dm2rs, applies, deletes, calm>>

NewIsDone(u) ==
    /\ upd[u].at = "new" /\ upd[u].newDone
    /\ upd' = [upd EXCEPT ![u].at = "old"]
    /\ UNCHANGED <<eventVars, etcdVars, replicasetMap, dm2rs, boundVars, calm>>

\* The second half, while replicas are left: the Put of one less; a failure restores the
\* counter and starts the loop again.
DecreaseOld(u, out) ==
    /\ upd[u].at = "old" /\ ~upd[u].oldDone /\ upd[u].oldReplicas > 1
    /\ PutRS(upd[u].old, upd[u].oldReplicas - 1, FALSE, out)
    /\ IF out = "ok"
          THEN /\ replicasetMap' =
                     [replicasetMap EXCEPT ![upd[u].old] = upd[u].oldReplicas - 1]
               /\ upd' = [upd EXCEPT ![u].at = "new", ![u].oldReplicas = @ - 1]
          ELSE /\ upd' = [upd EXCEPT ![u].at = "new"]
               /\ UNCHANGED replicasetMap
    /\ UNCHANGED <<eventVars, dm2rs, applies, deletes, calm>>

\* ... and the deletion of the last one.
DeleteOld(u, out) ==
    /\ upd[u].at = "old" /\ ~upd[u].oldDone /\ upd[u].oldReplicas = 1
    /\ DelRS(upd[u].old, out)
    /\ upd' = [upd EXCEPT ![u] = IF out = "ok"
                  THEN [@ EXCEPT !.at = IF upd[u].newDone THEN "finish" ELSE "new",
                                 !.oldReplicas = 0, !.oldDone = TRUE]
                  ELSE [@ EXCEPT !.at = "new"]]
    /\ UNCHANGED <<eventVars, replicasetMap, dm2rs, applies, deletes, calm>>

OldIsDone(u) ==
    /\ upd[u].at = "old" /\ upd[u].oldDone
    /\ upd' = [upd EXCEPT ![u].at = IF upd[u].newDone THEN "finish" ELSE "new"]
    /\ UNCHANGED <<eventVars, etcdVars, replicasetMap, dm2rs, boundVars, calm>>

\* Mutant: dm2rs keeps naming the old ReplicaSet.
UpdateFinishForgets(u) ==
    /\ upd[u].at = "finish"
    /\ upd' = [upd EXCEPT ![u].at = "done"]
    /\ UNCHANGED <<eventVars, etcdVars, replicasetMap, dm2rs, boundVars, calm>>

\* Only now does the Deployment's entry name the new ReplicaSet.
UpdateFinish(u) ==
    /\ upd[u].at = "finish"
    /\ dm2rs' = u
    /\ upd' = [upd EXCEPT ![u].at = "done"]
    /\ UNCHANGED <<eventVars, etcdVars, replicasetMap, boundVars, calm>>

-----------------------------------------------------------------------------
Update(u) ==
    \/ UpdateStart(u) \/ NewIsDone(u) \/ OldIsDone(u) \/ UpdateFinish(u)
    \/ \E out \in Outcomes :
          ClearOwner(u, out) \/ IncreaseNew(u, out) \/ DecreaseOld(u, out) \/ DeleteOld(u, out)

PutDeployment == PutDeploymentModify \/ \E out \in Outcomes : PutDeploymentCreate(out)

Next ==
    \/ \E n \in Replicas, surge \in Surges : ApplyDeployment(n, surge)
    \/ RemoveDeployment
    \/ PutDeployment
    \/ \E out \in Outcomes : DeleteDeployment(out)
    \/ \E u \in RS : Update(u)

\* The broker delivers, a goroutine keeps running, and requests do not fail forever.
Fairness ==
    /\ WF_vars(PutDeployment)
    /\ WF_vars(\E out \in Outcomes : DeleteDeployment(out))
    /\ \A u \in RS : WF_vars(Update(u))

Spec == Init /\ [][Next]_vars
FairSpec == Spec /\ Fairness

-----------------------------------------------------------------------------
UpdateLocals ==
    [at : {"none", "start", "clear", "new", "old", "finish", "done"},
     old : RS \cup {NoRS}, from : Replicas, oldReplicas : Replicas,
     newReplicas : 0..MaxReplicas + 1, oldDone : BOOLEAN, newDone : BOOLEAN,
     replicas : Replicas, surge : Surges]

PutEvent == [rs : RS, create : BOOLEAN, replicas : Replicas, surge : Surges]

\* Every variable has its type: the counts `update` computes with stay within 0..MaxReplicas
\* (one more for newReplicas), however requests fail.
TypeOK ==
    /\ deployment \in Replicas \cup {Undeployed}
    /\ putEvents \in Seq(PutEvent)
    /\ delEvents \in 0..MaxDeletes
    /\ stored \subseteq RS
    /\ rsConfig \in [RS -> Replicas]
    /\ owned \in [RS -> BOOLEAN]
    /\ replicasetMap \in [RS -> Replicas]
    /\ dm2rs \in RS \cup {NoRS}
    /\ upd \in [RS -> UpdateLocals]
    /\ applies \in 0..MaxApplies /\ deletes \in 0..MaxDeletes /\ failures \in 0..MaxFailures
    /\ calm \in BOOLEAN

\* The loop of update u is running.
Rolling(u) == upd[u].at \in {"clear", "new", "old", "finish"}

\* What update u and the one it replaces ask for together.
Asked(u) == rsConfig[u] + (IF upd[u].old = NoRS THEN 0 ELSE rsConfig[upd[u].old])

\* When changes do not overlap, a rolling update never asks for more than maxSurge replicas
\* above the larger of the two sizes, plus one for every request that failed (after a
\* failed decrease the loop raises the new ReplicaSet again), and nothing else of the
\* Deployment is left running.
SurgeRespected ==
    calm => \A u \in RS : Rolling(u) =>
       /\ Asked(u) <= Max(upd[u].from, upd[u].replicas) + upd[u].surge + failures
       /\ \A r \in RS \ {u, upd[u].old} : rsConfig[r] = 0

\* When changes do not overlap, whichever requests fail, the two ReplicaSets together never
\* ask for fewer replicas than the smaller of the two sizes (one fewer with maxSurge 0,
\* where the first decrease comes before the first increase).
StaysAvailable ==
    calm => \A u \in RS : Rolling(u) =>
       Asked(u) + (IF upd[u].surge = 0 THEN 1 ELSE 0) >= Min(upd[u].from, upd[u].replicas)

\* One ReplicaSet is live, and it has n replicas; with n = 0 none need be.
OneLive(n) == \E r \in RS : rsConfig[r] = n /\ \A q \in RS \ {r} : rsConfig[q] = 0

\* A Deployment whose changes do not overlap ends with one live ReplicaSet of the size asked
\* for, which dm2rs names and which it owns; removed, it ends with none.  At most one answer
\* may get lost: after two, deleteRS has removed the old key for good, refuses the third
\* attempt, and DeleteOld is repeated for ever.
RolloutCompletes ==
    \A n \in Replicas \cup {Undeployed} :
       <>[](calm /\ deployment = n /\ failures <= 1) =>
          <>[](IF n = Undeployed THEN \A r \in RS : rsConfig[r] = 0
               ELSE /\ Quiet /\ OneLive(n)
                    /\ dm2rs # NoRS /\ rsConfig[dm2rs] = n /\ owned[dm2rs])

\* The report: the controller manages ReplicaSets "to reach the expected number of pods"
\* (the final report, 3.1.2), whenever the user applies the next change.
ExpectedReplicasReached ==
    \A n \in Replicas \ {0} : <>[](deployment = n) => <>[]OneLive(n)

=============================================================================
