--------------------- MODULE DeploymentController_proofs ---------------------
(***************************************************************************)
(* Type correctness of the Deployment controller, and the two bounds of a  *)
(* rolling update, for every size, surge and number of applies, removals   *)
(* and failed requests.                                                    *)
(***************************************************************************)
EXTENDS DeploymentController, TLAPS

-----------------------------------------------------------------------------
(* Type correctness.                                                       *)

\* The loop's counters: the next size of the new ReplicaSet is in range until the loop knows
\* it is done, and there is an old one as long as it has replicas left.
LocalsOK(x) ==
    /\ x \in UpdateLocals
    /\ x.newDone \/ x.newReplicas <= x.replicas
    /\ x.at = "clear" => x.oldReplicas # 0
    /\ x.oldReplicas # 0 => x.old # NoRS

NothingUnstored == \A r \in RS : r \notin stored => rsConfig[r] = 0

\* TypeOK is not inductive: the counters need LocalsOK, and the pending removals need to be
\* among those that were made.
TypeInv ==
    /\ TypeOK
    /\ delEvents <= deletes
    /\ NothingUnstored
    /\ \A u \in RS : LocalsOK(upd[u])

\* A put of a ReplicaSet keeps etcd well typed, however it is answered.
LEMMA PutRSType ==
    ASSUME TypeInv, NEW r, NEW n \in Replicas, NEW own \in BOOLEAN, NEW out \in Outcomes,
           PutRS(r, n, own, out), r \in RS
    PROVE  /\ stored' \subseteq RS
           /\ rsConfig' \in [RS -> Replicas]
           /\ owned' \in [RS -> BOOLEAN]
           /\ failures' \in 0..MaxFailures
           /\ NothingUnstored'
<1>1. failures' \in 0..MaxFailures
  BY DeploymentAssumption DEF TypeInv, NothingUnstored, TypeOK, PutRS, Failing
<1>2. CASE out = "refused"
  BY <1>1, <1>2 DEF TypeInv, NothingUnstored, TypeOK, PutRS, etcdVars
<1>3. CASE out # "refused"
  BY <1>1, <1>3 DEF TypeInv, NothingUnstored, TypeOK, PutRS
<1>4. QED BY <1>2, <1>3

\* So does deleteRS.
LEMMA DelRSType ==
    ASSUME TypeInv, NEW r, NEW out \in Outcomes, DelRS(r, out)
    PROVE  /\ stored' \subseteq RS
           /\ rsConfig' \in [RS -> Replicas]
           /\ owned' \in [RS -> BOOLEAN]
           /\ failures' \in 0..MaxFailures
           /\ NothingUnstored'
<1>0. 0 \in Replicas
  BY DeploymentAssumption DEF Replicas
<1>1. CASE r \notin stored
  BY <1>1 DEF TypeInv, NothingUnstored, TypeOK, DelRS, etcdVars
<1>2. CASE r \in stored
  <2>1. failures' \in 0..MaxFailures
    BY <1>2, DeploymentAssumption DEF TypeInv, NothingUnstored, TypeOK, DelRS, Failing
  <2>2. CASE out = "refused"
    BY <1>2, <2>1, <2>2 DEF TypeInv, NothingUnstored, TypeOK, DelRS, etcdVars
  <2>3. CASE out # "refused"
    <3>1. stored' \subseteq RS /\ rsConfig' \in [RS -> Replicas]
      BY <1>0, <1>2, <2>3 DEF TypeInv, NothingUnstored, TypeOK, DelRS
    <3>2. owned' \in [RS -> BOOLEAN]
      BY <1>2, <2>3 DEF TypeInv, NothingUnstored, TypeOK, DelRS
    <3>3. NothingUnstored'
      BY <1>2, <2>3 DEF TypeInv, NothingUnstored, TypeOK, DelRS
    <3>4. QED BY <2>1, <3>1, <3>2, <3>3
  <2>4. QED BY <2>2, <2>3
<1>3. QED BY <1>1, <1>2

\* Head and Tail of a non-empty queue of S.
LEMMA HeadTail ==
    ASSUME NEW S, NEW q \in Seq(S), q # <<>>
    PROVE  Head(q) \in S /\ Tail(q) \in Seq(S)
OBVIOUS

\* The locals of a goroutine that does not exist yet are well typed.
LEMMA NoUpdateType == NoUpdate \in UpdateLocals
BY DeploymentAssumption DEF UpdateLocals, NoUpdate, Replicas, Surges, NoRS

\* A step of one goroutine, as far as upd is concerned.
LEMMA LocalsStep ==
    ASSUME TypeInv, NEW u, NEW x, LocalsOK(x), upd' = [upd EXCEPT ![u] = x]
    PROVE  upd' \in [RS -> UpdateLocals] /\ \A v \in RS : LocalsOK(upd'[v])
<1>1. x \in UpdateLocals
  BY DEF LocalsOK
<1>2. upd' \in [RS -> UpdateLocals]
  BY <1>1 DEF TypeInv, TypeOK
<1>3. \A v \in RS : upd'[v] = upd[v] \/ upd'[v] = x
  BY DEF TypeInv, TypeOK
<1>4. QED BY <1>2, <1>3 DEF TypeInv

\* TypeInv holds when the controller starts.
LEMMA TypeInit == Init => TypeInv
<1> SUFFICES ASSUME Init PROVE TypeInv
  OBVIOUS
<1>1. 0 \in Replicas
  BY DeploymentAssumption DEF Replicas
<1>2. upd \in [RS -> UpdateLocals] /\ \A u \in RS : LocalsOK(upd[u])
  <2>1. LocalsOK(NoUpdate)
    BY NoUpdateType DEF LocalsOK, NoUpdate
  <2>2. QED BY <2>1, NoUpdateType DEF Init
<1>3. QED
  BY <1>1, <1>2, DeploymentAssumption DEF Init, TypeInv, NothingUnstored, TypeOK

\* Every step keeps TypeInv.
LEMMA TypeNext == TypeInv /\ [Next]_vars => TypeInv'
<1> SUFFICES ASSUME TypeInv, [Next]_vars PROVE TypeInv'
  OBVIOUS
<1>0. /\ TypeOK
      /\ 0 \in Replicas /\ 0 \in Surges
      /\ \A n \in Replicas : n \in Nat
  BY DeploymentAssumption DEF TypeInv, Replicas, Surges
<1>1. ASSUME NEW n \in Replicas, NEW surge \in Surges, ApplyDeployment(n, surge)
      PROVE  TypeInv'
  <2>1. applies' \in 0..MaxApplies /\ applies + 1 \in RS
    BY <1>0, <1>1, DeploymentAssumption DEF ApplyDeployment, TypeOK, RS
  <2>2. [rs |-> applies + 1, create |-> deployment = Undeployed,
         replicas |-> n, surge |-> surge] \in PutEvent
    BY <2>1 DEF PutEvent
  <2>3. putEvents' \in Seq(PutEvent)
    BY <1>0, <1>1, <2>2 DEF ApplyDeployment, TypeOK
  <2>4. calm' \in BOOLEAN /\ deployment' \in Replicas \cup {Undeployed}
    BY <1>1 DEF ApplyDeployment
  <2>5. QED
    BY <1>1, <2>1, <2>3, <2>4 DEF ApplyDeployment, TypeInv, NothingUnstored, TypeOK, etcdVars
<1>2. CASE RemoveDeployment
  <2>1. calm' \in BOOLEAN
    BY <1>2 DEF RemoveDeployment
  <2>2. QED
    BY <1>2, <2>1, DeploymentAssumption DEF RemoveDeployment, TypeInv, NothingUnstored, TypeOK, etcdVars
<1>3. CASE PutDeploymentModify
  <2> DEFINE e == Head(putEvents)
             x == [NoUpdate EXCEPT !.at = "start", !.replicas = e.replicas, !.surge = e.surge]
  <2>1. e \in PutEvent /\ putEvents' \in Seq(PutEvent)
    BY <1>0, <1>3, HeadTail DEF PutDeploymentModify, TypeOK
  <2>2. LocalsOK(x)
    <3>1. e.replicas \in Replicas /\ e.surge \in Surges
      BY <2>1 DEF PutEvent
    <3>2. x \in UpdateLocals
      BY <3>1, NoUpdateType DEF UpdateLocals
    <3>3. /\ x.newReplicas = 0 /\ x.replicas = e.replicas
          /\ x.at = "start" /\ x.oldReplicas = 0
      BY DEF NoUpdate
    <3>4. QED BY <1>0, <3>1, <3>2, <3>3 DEF LocalsOK
  <2>3. upd' = [upd EXCEPT ![e.rs] = x]
    BY <1>3 DEF PutDeploymentModify
  <2> HIDE DEF x
  <2>4. upd' \in [RS -> UpdateLocals] /\ \A v \in RS : LocalsOK(upd'[v])
    BY <2>2, <2>3, LocalsStep
  <2>5. QED
    BY <1>3, <2>1, <2>4 DEF PutDeploymentModify, TypeInv, NothingUnstored, TypeOK, etcdVars, boundVars
<1>4. ASSUME NEW out \in Outcomes, PutDeploymentCreate(out) PROVE TypeInv'
  <2> DEFINE e == Head(putEvents)
  <2>1. e \in PutEvent /\ putEvents' \in Seq(PutEvent)
    BY <1>0, <1>4, HeadTail DEF PutDeploymentCreate, TypeOK
  <2>2. e.rs \in RS /\ e.replicas \in Replicas
    BY <2>1 DEF PutEvent
  <2>3. /\ stored' \subseteq RS /\ rsConfig' \in [RS -> Replicas]
        /\ owned' \in [RS -> BOOLEAN] /\ failures' \in 0..MaxFailures /\ NothingUnstored'
    BY <1>0, <1>4, <2>2, PutRSType DEF PutDeploymentCreate
  <2>4. dm2rs' \in RS \cup {NoRS} /\ replicasetMap' \in [RS -> Replicas]
    BY <1>0, <1>4, <2>2 DEF PutDeploymentCreate, TypeOK
  <2>5. calm' \in BOOLEAN
    BY <1>4 DEF PutDeploymentCreate
  <2>6. QED
    BY <1>4, <2>1, <2>3, <2>4, <2>5 DEF PutDeploymentCreate, TypeInv, TypeOK
<1>5. ASSUME NEW out \in Outcomes, DeleteDeployment(out) PROVE TypeInv'
  <2>1. /\ stored' \subseteq RS /\ rsConfig' \in [RS -> Replicas]
        /\ owned' \in [RS -> BOOLEAN] /\ failures' \in 0..MaxFailures /\ NothingUnstored'
    <3>1. CASE dm2rs = NoRS
      BY <1>0, <1>5, <3>1 DEF DeleteDeployment, TypeInv, NothingUnstored, TypeOK, etcdVars
    <3>2. CASE dm2rs # NoRS
      BY <1>0, <1>5, <3>2, DelRSType DEF DeleteDeployment
    <3>3. QED BY <3>1, <3>2
  <2>2. calm' \in BOOLEAN
    BY <1>5 DEF DeleteDeployment
  <2>3. QED
    BY <1>5, <2>1, <2>2, DeploymentAssumption DEF DeleteDeployment, TypeInv, TypeOK
<1>6. ASSUME NEW u \in RS, UpdateStart(u) PROVE TypeInv'
  <2> DEFINE first == FirstReplicas(upd[u].surge, upd[u].replicas)
             n == IF dm2rs = NoRS THEN 0 ELSE replicasetMap[dm2rs]
             x == [upd[u] EXCEPT
                     !.at = IF n = 0 THEN "new" ELSE "clear",
                     !.old = dm2rs, !.from = n, !.oldReplicas = n, !.oldDone = n = 0,
                     !.newReplicas = first]
  <2>1. /\ upd[u] \in UpdateLocals /\ dm2rs \in RS \cup {NoRS}
        /\ n \in Replicas /\ (n # 0 => dm2rs # NoRS)
    BY <1>0 DEF TypeOK
  <2>2. first \in 0..MaxReplicas + 1 /\ first <= upd[u].replicas
    <3>1. upd[u].surge \in 0..MaxSurge /\ upd[u].replicas \in 0..MaxReplicas
      BY <2>1 DEF UpdateLocals, Surges, Replicas
    <3>2. QED BY <3>1, DeploymentAssumption DEF FirstReplicas, Min
  <2>3. upd' = [upd EXCEPT ![u] = x]
    BY <1>6 DEF UpdateStart
  <2> HIDE DEF first, n
  <2>4. LocalsOK(x)
    <3>1. x \in UpdateLocals
      BY <2>1, <2>2 DEF UpdateLocals
    <3>2. /\ x.newReplicas = first /\ x.replicas = upd[u].replicas
          /\ x.at = (IF n = 0 THEN "new" ELSE "clear") /\ x.oldReplicas = n /\ x.old = dm2rs
      BY <2>1 DEF UpdateLocals
    <3>3. QED BY <2>1, <2>2, <3>1, <3>2 DEF LocalsOK
  <2> HIDE DEF x
  <2>5. upd' \in [RS -> UpdateLocals] /\ \A v \in RS : LocalsOK(upd'[v])
    BY <2>3, <2>4, LocalsStep
  <2>6. QED
    BY <1>6, <2>5 DEF UpdateStart, TypeInv, NothingUnstored, TypeOK, eventVars, etcdVars, boundVars
<1>7. ASSUME NEW u \in RS, NEW out \in Outcomes, ClearOwner(u, out) PROVE TypeInv'
  <2> DEFINE x == [upd[u] EXCEPT !.at = "new"]
  <2>1. LocalsOK(upd[u]) /\ upd[u] \in UpdateLocals
    BY DEF TypeInv, LocalsOK
  <2>2. upd[u].oldReplicas \in Replicas /\ upd[u].old \in RS
    BY <1>7, <2>1 DEF LocalsOK, UpdateLocals, ClearOwner
  <2>3. /\ stored' \subseteq RS /\ rsConfig' \in [RS -> Replicas]
        /\ owned' \in [RS -> BOOLEAN] /\ failures' \in 0..MaxFailures /\ NothingUnstored'
    BY <1>0, <1>7, <2>2, PutRSType DEF ClearOwner
  <2>4. replicasetMap' \in [RS -> Replicas]
    BY <1>0, <1>7, <2>2 DEF ClearOwner, TypeOK
  <2>5. upd' = [upd EXCEPT ![u] = x]
    BY <1>7 DEF ClearOwner
  <2>6. LocalsOK(x)
    BY <2>1 DEF LocalsOK, UpdateLocals
  <2> HIDE DEF x
  <2>7. upd' \in [RS -> UpdateLocals] /\ \A v \in RS : LocalsOK(upd'[v])
    BY <2>5, <2>6, LocalsStep
  <2>8. QED
    BY <1>7, <2>3, <2>4, <2>7 DEF ClearOwner, TypeInv, TypeOK, eventVars
<1>8. ASSUME NEW u \in RS, NEW out \in Outcomes, IncreaseNew(u, out) PROVE TypeInv'
  <2>1. LocalsOK(upd[u]) /\ upd[u] \in UpdateLocals
    BY DEF TypeInv, LocalsOK
  <2>2. /\ upd[u].newReplicas \in Replicas
        /\ upd[u].newReplicas + 1 \in 0..MaxReplicas + 1 /\ upd[u].replicas \in Nat
    <3>1. upd[u].newReplicas <= upd[u].replicas
      BY <1>8, <2>1 DEF IncreaseNew, LocalsOK
    <3>2. upd[u].newReplicas \in Nat /\ upd[u].replicas \in 0..MaxReplicas
      BY <2>1, DeploymentAssumption DEF UpdateLocals, Replicas
    <3>3. QED BY <3>1, <3>2, DeploymentAssumption DEF Replicas
  <2>3. /\ stored' \subseteq RS /\ rsConfig' \in [RS -> Replicas]
        /\ owned' \in [RS -> BOOLEAN] /\ failures' \in 0..MaxFailures /\ NothingUnstored'
    BY <1>0, <1>8, <2>2, PutRSType DEF IncreaseNew
  <2>4. CASE out = "ok"
    <3> DEFINE d == upd[u].newReplicas + 1 > upd[u].replicas
               x == [upd[u] EXCEPT !.at = "old", !.newReplicas = upd[u].newReplicas + 1,
                                   !.newDone = d]
    <3>1. upd' = [upd EXCEPT ![u] = x] /\ replicasetMap' \in [RS -> Replicas]
      BY <1>0, <1>8, <2>2, <2>4 DEF IncreaseNew, TypeOK
    <3>2. d \in BOOLEAN /\ (d \/ upd[u].newReplicas + 1 <= upd[u].replicas)
      BY <2>2
    <3> HIDE DEF d
    <3>3. LocalsOK(x)
      <4>1. x \in UpdateLocals
        BY <2>1, <2>2, <3>2 DEF UpdateLocals
      <4>2. /\ x.newReplicas = upd[u].newReplicas + 1 /\ x.replicas = upd[u].replicas
            /\ x.at = "old" /\ x.oldReplicas = upd[u].oldReplicas /\ x.old = upd[u].old
        BY <2>1 DEF UpdateLocals
      <4>3. x.newDone = d
        BY <2>1, Zenon DEF UpdateLocals
      <4>4. QED BY <2>1, <3>2, <4>1, <4>2, <4>3 DEF LocalsOK
    <3> HIDE DEF x
    <3>4. upd' \in [RS -> UpdateLocals] /\ \A v \in RS : LocalsOK(upd'[v])
      BY <3>1, <3>3, LocalsStep
    <3>5. QED
      BY <1>8, <2>3, <3>1, <3>4 DEF IncreaseNew, TypeInv, TypeOK, eventVars
  <2>5. CASE out # "ok"
    BY <1>8, <2>3, <2>5 DEF IncreaseNew, TypeInv, TypeOK, eventVars
  <2>6. QED BY <2>4, <2>5
<1>9. ASSUME NEW u \in RS, NewIsDone(u) PROVE TypeInv'
  <2> DEFINE x == [upd[u] EXCEPT !.at = "old"]
  <2>1. LocalsOK(upd[u]) /\ upd' = [upd EXCEPT ![u] = x]
    BY <1>9 DEF TypeInv, NewIsDone
  <2>2. LocalsOK(x)
    BY <2>1 DEF LocalsOK, UpdateLocals
  <2> HIDE DEF x
  <2>3. upd' \in [RS -> UpdateLocals] /\ \A v \in RS : LocalsOK(upd'[v])
    BY <2>1, <2>2, LocalsStep
  <2>4. QED
    BY <1>9, <2>3 DEF NewIsDone, TypeInv, NothingUnstored, TypeOK, eventVars, etcdVars, boundVars
<1>10. ASSUME NEW u \in RS, NEW out \in Outcomes, DecreaseOld(u, out) PROVE TypeInv'
  <2> DEFINE x == IF out = "ok"
                     THEN [upd[u] EXCEPT !.at = "new", !.oldReplicas = upd[u].oldReplicas - 1]
                     ELSE [upd[u] EXCEPT !.at = "new"]
  <2>1. LocalsOK(upd[u]) /\ upd[u] \in UpdateLocals
    BY DEF TypeInv, LocalsOK
  <2>2. upd[u].oldReplicas \in Replicas /\ upd[u].oldReplicas > 1
    BY <1>10, <2>1 DEF UpdateLocals, DecreaseOld
  <2>3. upd[u].oldReplicas - 1 \in Replicas /\ upd[u].oldReplicas # 0
    BY <2>2, DeploymentAssumption DEF Replicas
  <2>4. upd[u].old \in RS /\ upd[u].old # NoRS
    BY <2>1, <2>3 DEF LocalsOK, UpdateLocals
  <2>5. /\ stored' \subseteq RS /\ rsConfig' \in [RS -> Replicas]
        /\ owned' \in [RS -> BOOLEAN] /\ failures' \in 0..MaxFailures /\ NothingUnstored'
    BY <1>0, <1>10, <2>3, <2>4, PutRSType DEF DecreaseOld
  <2>6. upd' = [upd EXCEPT ![u] = x] /\ replicasetMap' \in [RS -> Replicas]
    BY <1>0, <1>10, <2>3 DEF DecreaseOld, TypeOK
  <2>7. LocalsOK(x)
    BY <2>1, <2>3, <2>4 DEF LocalsOK, UpdateLocals
  <2> HIDE DEF x
  <2>8. upd' \in [RS -> UpdateLocals] /\ \A v \in RS : LocalsOK(upd'[v])
    BY <2>6, <2>7, LocalsStep
  <2>9. QED
    BY <1>10, <2>5, <2>6, <2>8 DEF DecreaseOld, TypeInv, TypeOK, eventVars
<1>11. ASSUME NEW u \in RS, NEW out \in Outcomes, DeleteOld(u, out) PROVE TypeInv'
  <2> DEFINE x == IF out = "ok"
                     THEN [upd[u] EXCEPT !.at = IF upd[u].newDone THEN "finish" ELSE "new",
                                         !.oldReplicas = 0, !.oldDone = TRUE]
                     ELSE [upd[u] EXCEPT !.at = "new"]
  <2>1. LocalsOK(upd[u])
    BY DEF TypeInv
  <2>2. /\ stored' \subseteq RS /\ rsConfig' \in [RS -> Replicas]
        /\ owned' \in [RS -> BOOLEAN] /\ failures' \in 0..MaxFailures /\ NothingUnstored'
    BY <1>0, <1>11, DelRSType DEF DeleteOld
  <2>3. upd' = [upd EXCEPT ![u] = x]
    BY <1>11 DEF DeleteOld
  <2>4. LocalsOK(x)
    BY <1>0, <2>1 DEF LocalsOK, UpdateLocals
  <2> HIDE DEF x
  <2>5. upd' \in [RS -> UpdateLocals] /\ \A v \in RS : LocalsOK(upd'[v])
    BY <2>3, <2>4, LocalsStep
  <2>6. QED
    BY <1>11, <2>2, <2>5 DEF DeleteOld, TypeInv, TypeOK, eventVars
<1>12. ASSUME NEW u \in RS, OldIsDone(u) PROVE TypeInv'
  <2> DEFINE x == [upd[u] EXCEPT !.at = IF upd[u].newDone THEN "finish" ELSE "new"]
  <2>1. LocalsOK(upd[u]) /\ upd' = [upd EXCEPT ![u] = x]
    BY <1>12 DEF TypeInv, OldIsDone
  <2>2. LocalsOK(x)
    BY <2>1 DEF LocalsOK, UpdateLocals
  <2> HIDE DEF x
  <2>3. upd' \in [RS -> UpdateLocals] /\ \A v \in RS : LocalsOK(upd'[v])
    BY <2>1, <2>2, LocalsStep
  <2>4. QED
    BY <1>12, <2>3 DEF OldIsDone, TypeInv, NothingUnstored, TypeOK, eventVars, etcdVars, boundVars
<1>13. ASSUME NEW u \in RS, UpdateFinish(u) PROVE TypeInv'
  <2> DEFINE x == [upd[u] EXCEPT !.at = "done"]
  <2>1. LocalsOK(upd[u]) /\ upd' = [upd EXCEPT ![u] = x]
    BY <1>13 DEF TypeInv, UpdateFinish
  <2>2. LocalsOK(x)
    BY <2>1 DEF LocalsOK, UpdateLocals
  <2> HIDE DEF x
  <2>3. upd' \in [RS -> UpdateLocals] /\ \A v \in RS : LocalsOK(upd'[v])
    BY <2>1, <2>2, LocalsStep
  <2>4. QED
    BY <1>13, <2>3 DEF UpdateFinish, TypeInv, NothingUnstored, TypeOK, eventVars, etcdVars, boundVars
<1>14. CASE UNCHANGED vars
  BY <1>14 DEF vars, eventVars, etcdVars, boundVars, TypeInv, NothingUnstored, TypeOK
<1>15. QED
  BY <1>1, <1>2, <1>3, <1>4, <1>5, <1>6, <1>7, <1>8, <1>9, <1>10, <1>11, <1>12, <1>13, <1>14
  DEF Next, PutDeployment, Update

\* Every variable keeps its type: the counters of the update loop stay in range whichever
\* requests fail.
THEOREM TypeCorrect == Spec => []TypeOK
<1>1. TypeInv => TypeOK
  BY DEF TypeInv
<1>2. QED BY <1>1, TypeInit, TypeNext, PTL DEF Spec

-----------------------------------------------------------------------------
(* The bounds of a rolling update.  While changes do not overlap, at most  *)
(* one of them is under way; between updates only the ReplicaSet dm2rs     *)
(* names is live; and during an update the sum of the two counters is tied *)
(* to its initial value: it may run ahead by the failures, never behind.   *)

First(u) == FirstReplicas(upd[u].surge, upd[u].replicas)

OneChange ==
    /\ putEvents # <<>> =>
          /\ Len(putEvents) = 1 /\ Head(putEvents).rs = applies
          /\ deployment # Undeployed
          /\ Head(putEvents).create => dm2rs = NoRS
          /\ rsConfig[applies] = 0 /\ dm2rs # applies
          /\ delEvents = 0 /\ \A u \in RS : ~Updating(u)
    /\ delEvents # 0 => delEvents = 1 /\ \A u \in RS : ~Updating(u)
    /\ \A u, v \in RS : Updating(u) /\ Updating(v) => u = v
    /\ \A u \in RS : Updating(u) => deployment # Undeployed /\ u <= applies
    /\ deployment = Undeployed /\ delEvents = 0 => dm2rs = NoRS
    /\ dm2rs <= applies
    /\ \A r \in RS : r > applies => rsConfig[r] = 0

\* No update has begun to change anything: only dm2rs is live.
AtRest ==
    /\ \A r \in RS : r # dm2rs => rsConfig[r] = 0
    /\ dm2rs # NoRS => rsConfig[dm2rs] = replicasetMap[dm2rs]

OldSide(u) ==
    /\ upd[u].old = dm2rs /\ upd[u].old # u
    /\ \A r \in RS \ {u, upd[u].old} : rsConfig[r] = 0
    /\ upd[u].old = NoRS => upd[u].from = 0
    /\ upd[u].oldReplicas <= upd[u].from
    /\ upd[u].oldDone <=> upd[u].oldReplicas = 0
    /\ upd[u].old # NoRS =>
          IF upd[u].oldReplicas = 0 THEN rsConfig[upd[u].old] = 0
          ELSE rsConfig[upd[u].old] \in {upd[u].oldReplicas, upd[u].oldReplicas - 1}

NewSide(u) ==
    /\ First(u) <= upd[u].newReplicas
    /\ upd[u].newDone => /\ upd[u].newReplicas = upd[u].replicas + 1
                         /\ rsConfig[u] = upd[u].replicas
                         /\ replicasetMap[u] = upd[u].replicas
    /\ ~upd[u].newDone =>
          /\ upd[u].newReplicas <= upd[u].replicas
          /\ upd[u].at = "old" => /\ First(u) < upd[u].newReplicas
                                  /\ rsConfig[u] + 1 = upd[u].newReplicas
          /\ IF upd[u].newReplicas = First(u) THEN rsConfig[u] \in {0, upd[u].newReplicas}
             ELSE rsConfig[u] \in {upd[u].newReplicas - 1, upd[u].newReplicas}

\* The old ReplicaSet is about to be, or has been, lowered once more than the loop knows.
Lowered(u) ==
    \/ upd[u].at = "old"
    \/ /\ upd[u].old # NoRS /\ upd[u].oldReplicas # 0
       /\ rsConfig[upd[u].old] # upd[u].oldReplicas

\* Once the old one asks for nothing the new one may run ahead: a deletion whose answers got
\* lost is repeated, and refused once the key is gone.
OldLive(u) == upd[u].old # NoRS /\ rsConfig[upd[u].old] # 0

Balance(u) ==
    /\ ~upd[u].newDone =>
          First(u) + upd[u].from + (IF Lowered(u) THEN 1 ELSE 0)
             <= upd[u].newReplicas + upd[u].oldReplicas
    /\ ~upd[u].newDone /\ OldLive(u) =>
          upd[u].newReplicas + upd[u].oldReplicas
             <= First(u) + upd[u].from + failures + (IF upd[u].at = "old" THEN 1 ELSE 0)
    /\ upd[u].newDone /\ OldLive(u) =>
          upd[u].replicas + upd[u].oldReplicas
             <= Max(upd[u].from, upd[u].replicas) + upd[u].surge + failures

Rollout(u) ==
    /\ OldSide(u) /\ NewSide(u) /\ Balance(u)
    /\ upd[u].at = "clear" => /\ ~upd[u].newDone /\ upd[u].newReplicas = First(u)
                              /\ upd[u].oldReplicas = upd[u].from /\ rsConfig[u] = 0
                              /\ rsConfig[upd[u].old] = upd[u].from
    /\ upd[u].at = "finish" => upd[u].newDone /\ upd[u].oldDone

CalmInv ==
    calm => /\ OneChange
            /\ (\A u \in RS : ~Rolling(u)) => AtRest
            /\ \A u \in RS : upd[u].at = "start" =>
                  ~upd[u].newDone /\ rsConfig[u] = 0 /\ u # dm2rs
            /\ \A u \in RS : Rolling(u) => Rollout(u)

\* Requests, as far as the sizes are concerned.
LEMMA PutRSEffect ==
    ASSUME TypeOK, NEW r \in RS, NEW n \in Replicas, NEW own \in BOOLEAN, NEW out \in Outcomes,
           PutRS(r, n, own, out)
    PROVE  /\ failures' = IF out = "ok" THEN failures ELSE failures + 1
           /\ rsConfig' = IF out = "refused" THEN rsConfig ELSE [rsConfig EXCEPT ![r] = n]
BY DEF TypeOK, PutRS, Failing, etcdVars

\* A deletion empties the ReplicaSet or leaves it alone.
LEMMA DelRSEffect ==
    ASSUME TypeOK, NEW r \in RS, NEW out \in Outcomes, DelRS(r, out)
    PROVE  /\ failures' \in {failures, failures + 1}
           /\ rsConfig' = IF out = "refused" THEN rsConfig ELSE [rsConfig EXCEPT ![r] = 0]
           /\ out # "refused" => failures' = IF out = "ok" THEN failures ELSE failures + 1
BY DEF TypeOK, DelRS, Failing, etcdVars

\* The sizes and counters are integers, for the arithmetic of the bounds.
LEMMA Numbers ==
    ASSUME TypeOK
    PROVE  /\ \A u \in RS :
                 /\ upd[u].from \in Nat /\ upd[u].oldReplicas \in Nat
                 /\ upd[u].newReplicas \in Nat /\ upd[u].replicas \in Nat
                 /\ upd[u].surge \in Nat /\ upd[u].newDone \in BOOLEAN
                 /\ upd[u].oldDone \in BOOLEAN /\ upd[u].old \in RS \cup {NoRS}
                 /\ First(u) \in Nat /\ First(u) <= upd[u].replicas
                 /\ First(u) <= upd[u].surge
                 /\ First(u) < upd[u].replicas => First(u) = upd[u].surge
           /\ \A r \in RS : rsConfig[r] \in Nat /\ r \in Nat /\ r # NoRS
           /\ applies \in Nat /\ failures \in Nat /\ delEvents \in Nat
           /\ 0 \in Replicas
<1>1. /\ \A r \in RS : rsConfig[r] \in Nat /\ r \in Nat /\ r # NoRS
      /\ applies \in Nat /\ failures \in Nat /\ delEvents \in Nat /\ 0 \in Replicas
  BY DeploymentAssumption DEF TypeOK, RS, NoRS, Replicas
<1>2. ASSUME NEW u \in RS
      PROVE  /\ upd[u].from \in Nat /\ upd[u].oldReplicas \in Nat
             /\ upd[u].newReplicas \in Nat /\ upd[u].replicas \in Nat
             /\ upd[u].surge \in Nat /\ upd[u].newDone \in BOOLEAN
             /\ upd[u].oldDone \in BOOLEAN /\ upd[u].old \in RS \cup {NoRS}
  BY DeploymentAssumption DEF TypeOK, UpdateLocals, Replicas, Surges
<1>3. ASSUME NEW u \in RS
      PROVE  /\ First(u) \in Nat /\ First(u) <= upd[u].replicas
             /\ First(u) <= upd[u].surge
             /\ First(u) < upd[u].replicas => First(u) = upd[u].surge
  BY <1>2 DEF First, FirstReplicas, Min
<1>4. QED BY <1>1, <1>2, <1>3

\* The invariant gives both bounds.
LEMMA CalmInvBounds == TypeInv /\ CalmInv => SurgeRespected /\ StaysAvailable
<1> SUFFICES ASSUME TypeInv, CalmInv, calm, NEW u \in RS, Rolling(u)
             PROVE  /\ Asked(u) <= Max(upd[u].from, upd[u].replicas) + upd[u].surge + failures
                    /\ \A r \in RS \ {u, upd[u].old} : rsConfig[r] = 0
                    /\ Asked(u) + (IF upd[u].surge = 0 THEN 1 ELSE 0)
                          >= Min(upd[u].from, upd[u].replicas)
  BY DEF SurgeRespected, StaysAvailable
<1>1. OldSide(u) /\ NewSide(u) /\ Balance(u) /\ Rollout(u)
  BY DEF CalmInv, Rollout
<1>2. TypeOK
  BY DEF TypeInv
<1>3. \A r \in RS \ {u, upd[u].old} : rsConfig[r] = 0
  BY <1>1 DEF OldSide
<1> DEFINE old == IF upd[u].old = NoRS THEN 0 ELSE rsConfig[upd[u].old]
           oldLow == upd[u].old # NoRS /\ upd[u].oldReplicas # 0
                        /\ rsConfig[upd[u].old] # upd[u].oldReplicas
<1>4. /\ old \in Nat /\ old <= upd[u].oldReplicas
      /\ ~oldLow /\ upd[u].old # NoRS => old = upd[u].oldReplicas
      /\ oldLow => old + 1 = upd[u].oldReplicas
  BY <1>1, <1>2, Numbers DEF OldSide
<1>5. Asked(u) = rsConfig[u] + old
  BY DEF Asked
<1>6. old # 0 => OldLive(u)
  BY DEF OldLive
<1>7. oldLow => Lowered(u)
  BY DEF Lowered
<1>8. upd[u].old = NoRS => upd[u].from = 0
  BY <1>1 DEF OldSide
<1> HIDE DEF old, oldLow
<1>9. Asked(u) <= Max(upd[u].from, upd[u].replicas) + upd[u].surge + failures
  <2>1. rsConfig[u] <= upd[u].replicas
    BY <1>1, <1>2, Numbers DEF NewSide
  <2>2. CASE old = 0
    BY <1>2, <1>5, <2>1, <2>2, Numbers DEF Max
  <2>3. CASE old # 0 /\ upd[u].newDone
    BY <1>1, <1>2, <1>4, <1>5, <1>6, <2>1, <2>3, Numbers DEF Balance, Max
  <2>4. CASE old # 0 /\ ~upd[u].newDone
    <3>1. upd[u].newReplicas + upd[u].oldReplicas
             <= First(u) + upd[u].from + failures + (IF upd[u].at = "old" THEN 1 ELSE 0)
      BY <1>1, <1>6, <2>4 DEF Balance
    <3>2. rsConfig[u] + (IF upd[u].at = "old" THEN 1 ELSE 0) <= upd[u].newReplicas
      BY <1>1, <1>2, <2>4, Numbers DEF NewSide
    <3>3. QED
      BY <1>2, <1>4, <1>5, <3>1, <3>2, Numbers DEF Max
  <2>5. QED BY <2>2, <2>3, <2>4
<1>10. Asked(u) + (IF upd[u].surge = 0 THEN 1 ELSE 0) >= Min(upd[u].from, upd[u].replicas)
  <2>1. CASE upd[u].newDone
    BY <1>1, <1>2, <1>4, <1>5, <2>1, Numbers DEF NewSide, Min
  <2>2. CASE upd[u].old = NoRS
    BY <1>2, <1>4, <1>5, <1>8, <2>2, Numbers DEF Min
  <2>3. CASE ~upd[u].newDone /\ upd[u].old # NoRS
    <3>1. First(u) + upd[u].from + (IF Lowered(u) THEN 1 ELSE 0)
             <= upd[u].newReplicas + upd[u].oldReplicas
      BY <1>1, <2>3 DEF Balance
    <3>2. CASE upd[u].newReplicas = First(u)
      <4>1. upd[u].oldReplicas <= upd[u].from
        BY <1>1 DEF OldSide
      <4>2. ~oldLow /\ upd[u].oldReplicas = upd[u].from
        BY <1>2, <1>7, <3>1, <3>2, <4>1, Numbers
      <4>3. QED BY <1>2, <1>4, <1>5, <2>3, <4>2, Numbers DEF Min
    <3>3. CASE upd[u].newReplicas # First(u)
      <4>1. /\ First(u) < upd[u].newReplicas /\ upd[u].newReplicas <= upd[u].replicas
            /\ upd[u].newReplicas <= rsConfig[u] + 1
        BY <1>1, <1>2, <2>3, <3>3, Numbers DEF NewSide
      <4>2. First(u) = upd[u].surge
        BY <1>2, <4>1, Numbers
      <4>3. upd[u].oldReplicas <= old + (IF Lowered(u) THEN 1 ELSE 0)
        BY <1>2, <1>4, <1>7, <2>3, Numbers
      <4>4. upd[u].surge + upd[u].from <= rsConfig[u] + 1 + old
        BY <1>2, <1>4, <3>1, <4>1, <4>2, <4>3, Numbers
      <4>5. QED BY <1>2, <1>4, <1>5, <4>4, Numbers DEF Min
    <3>4. QED BY <3>2, <3>3
  <2>4. QED BY <1>2, <2>1, <2>2, <2>3
<1>11. QED BY <1>3, <1>9, <1>10

\* A step of the one goroutine under way that leaves it in its loop: only its own part of
\* the invariant is at stake.
LEMMA LoopStep ==
    ASSUME TypeInv, TypeInv', CalmInv, calm, NEW u \in RS, Updating(u),
           UNCHANGED <<deployment, putEvents, delEvents, dm2rs, applies, calm>>,
           NEW y, upd' = [upd EXCEPT ![u] = y],
           \A r \in RS : r # u /\ r # dm2rs => rsConfig'[r] = rsConfig[r],
           Rolling(u)', Rollout(u)'
    PROVE  CalmInv'
<1>1. OneChange /\ TypeOK
  BY DEF CalmInv, TypeInv
<1>2. putEvents = <<>> /\ delEvents = 0 /\ deployment # Undeployed /\ u <= applies
  BY <1>1 DEF OneChange
<1>3. \A v \in RS : v # u => upd'[v] = upd[v] /\ ~Updating(v)
  BY <1>1 DEF OneChange, TypeOK
<1>4. \A v \in RS : Updating(v)' => v = u
  BY <1>3 DEF Updating
<1>5. \A r \in RS : r > applies => rsConfig'[r] = 0
  BY <1>1, <1>2, Numbers DEF OneChange, TypeOK
<1>6. OneChange'
  BY <1>1, <1>2, <1>4, <1>5 DEF OneChange
<1>7. \A v \in RS : Rolling(v)' \/ upd'[v].at = "start" => v = u
  BY <1>4 DEF Rolling, Updating
<1>8. upd'[u].at # "start"
  BY DEF Rolling
<1>9. QED
  BY <1>6, <1>7, <1>8 DEF CalmInv

\* The start of update, while no other change is under way, keeps CalmInv.
LEMMA CalmStart ==
    ASSUME TypeInv, TypeInv', CalmInv, calm, NEW u \in RS, UpdateStart(u)
    PROVE  CalmInv'
<1> DEFINE first == FirstReplicas(upd[u].surge, upd[u].replicas)
           n == IF dm2rs = NoRS THEN 0 ELSE replicasetMap[dm2rs]
           y == [upd[u] EXCEPT
                     !.at = IF n = 0 THEN "new" ELSE "clear",
                     !.old = dm2rs, !.from = n, !.oldReplicas = n, !.oldDone = n = 0,
                     !.newReplicas = first]
<1>1. TypeOK /\ TypeOK' /\ OneChange /\ Updating(u)
  BY DEF CalmInv, TypeInv, UpdateStart, Updating
<1>2. upd' = [upd EXCEPT ![u] = y] /\ UNCHANGED <<eventVars, etcdVars, replicasetMap, dm2rs,
                                                   boundVars, calm>>
  BY DEF UpdateStart
<1>3. upd'[u] = y /\ upd[u] \in UpdateLocals
  BY <1>1, <1>2 DEF TypeOK
<1>4. /\ upd'[u].at = (IF n = 0 THEN "new" ELSE "clear")
      /\ upd'[u].old = dm2rs /\ upd'[u].from = n /\ upd'[u].oldReplicas = n
      /\ upd'[u].newReplicas = first /\ upd'[u].surge = upd[u].surge
      /\ upd'[u].replicas = upd[u].replicas
  BY <1>3 DEF UpdateLocals
<1>5. /\ upd'[u].oldDone = (n = 0) /\ upd'[u].newDone = upd[u].newDone
  BY <1>3, Zenon DEF UpdateLocals
<1>6. ~Rolling(u) /\ \A v \in RS : ~Rolling(v)
  BY <1>1 DEF UpdateStart, Rolling, Updating, OneChange
<1>7. AtRest /\ ~upd[u].newDone /\ rsConfig[u] = 0 /\ u # dm2rs
  BY <1>6 DEF CalmInv, UpdateStart
<1>8. First(u)' = first /\ first = First(u)
  BY <1>4 DEF First
<1>9. dm2rs # NoRS => rsConfig[dm2rs] = n /\ dm2rs \in RS
  BY <1>1, <1>7 DEF AtRest, TypeOK
<1>10. /\ rsConfig' = rsConfig /\ dm2rs' = dm2rs /\ failures' = failures
       /\ n \in Nat /\ (dm2rs = NoRS => n = 0)
  BY <1>1, <1>2, Numbers, DeploymentAssumption DEF etcdVars, boundVars, TypeOK, Replicas
<1> HIDE DEF n, first, y
<1>11. OldSide(u)'
  <2>1. upd'[u].oldDone <=> upd'[u].oldReplicas = 0
    BY <1>4, <1>5, Zenon
  <2>2. \A r \in RS \ {u, dm2rs} : rsConfig'[r] = 0
    BY <1>7, <1>10 DEF AtRest
  <2>3. QED
    BY <1>4, <1>7, <1>9, <1>10, <2>1, <2>2 DEF OldSide
<1>12. NewSide(u)'
  BY <1>1, <1>4, <1>5, <1>7, <1>8, <1>10, Numbers DEF NewSide
<1>13. Balance(u)'
  BY <1>1, <1>4, <1>5, <1>7, <1>8, <1>9, <1>10, Numbers DEF Balance, Lowered, OldLive
<1>14. Rollout(u)'
  BY <1>1, <1>4, <1>5, <1>7, <1>8, <1>9, <1>10, <1>11, <1>12, <1>13, Numbers DEF Rollout
<1>15. Rolling(u)'
  BY <1>4 DEF Rolling
<1>16. QED
  BY <1>1, <1>2, <1>10, <1>14, <1>15, LoopStep DEF eventVars, boundVars

\* Clearing the old ReplicaSet's owner keeps CalmInv.
LEMMA CalmClear ==
    ASSUME TypeInv, TypeInv', CalmInv, calm, NEW u \in RS, NEW out \in Outcomes,
           ClearOwner(u, out)
    PROVE  CalmInv'
<1>1. TypeOK /\ TypeOK' /\ Updating(u) /\ Rollout(u)
  BY DEF CalmInv, TypeInv, ClearOwner, Updating, Rolling
<1>2. upd' = [upd EXCEPT ![u] = [upd[u] EXCEPT !.at = "new"]] /\ upd[u] \in UpdateLocals
  BY <1>1 DEF ClearOwner, TypeOK
<1>3. /\ upd'[u].at = "new" /\ upd'[u].old = upd[u].old /\ upd'[u].from = upd[u].from
      /\ upd'[u].oldReplicas = upd[u].oldReplicas /\ upd'[u].newReplicas = upd[u].newReplicas
      /\ upd'[u].oldDone = upd[u].oldDone /\ upd'[u].newDone = upd[u].newDone
      /\ upd'[u].replicas = upd[u].replicas /\ upd'[u].surge = upd[u].surge
  BY <1>1, <1>2 DEF TypeOK, UpdateLocals
<1>4. /\ upd[u].old \in RS /\ upd[u].oldReplicas \in Replicas
      /\ rsConfig[upd[u].old] = upd[u].oldReplicas
  BY <1>1 DEF TypeInv, LocalsOK, UpdateLocals, ClearOwner, Rollout
<1>5. /\ rsConfig' = rsConfig
      /\ failures' = IF out = "ok" THEN failures ELSE failures + 1
  <2>1. rsConfig' = IF out = "refused" THEN rsConfig
                    ELSE [rsConfig EXCEPT ![upd[u].old] = upd[u].oldReplicas]
    BY <1>1, <1>4, PutRSEffect DEF ClearOwner
  <2>2. rsConfig = [rsConfig EXCEPT ![upd[u].old] = upd[u].oldReplicas]
    BY <1>1, <1>4 DEF TypeOK
  <2>3. QED BY <1>1, <1>4, <2>1, <2>2, PutRSEffect DEF ClearOwner
<1>6. First(u)' = First(u) /\ dm2rs' = dm2rs /\ upd[u].old = dm2rs
  BY <1>1, <1>3 DEF First, ClearOwner, Rollout, OldSide
<1>7. OldSide(u)'
  BY <1>1, <1>3, <1>5, <1>6 DEF Rollout, OldSide
<1>8. ~upd[u].newDone /\ upd[u].newReplicas = First(u) /\ upd[u].at = "clear" /\ rsConfig[u] = 0
  BY <1>1 DEF ClearOwner, Rollout
<1>9. NewSide(u)'
  BY <1>1, <1>3, <1>5, <1>6, <1>8 DEF Rollout, NewSide
<1>10. Balance(u)'
  BY <1>1, <1>3, <1>5, <1>6, <1>8, Numbers DEF Rollout, Balance, Lowered, OldLive
<1>11. Rollout(u)' /\ Rolling(u)'
  BY <1>3, <1>7, <1>9, <1>10 DEF Rollout, Rolling
<1>12. QED
  BY <1>1, <1>2, <1>5, <1>11, LoopStep DEF ClearOwner, eventVars

\* Raising the new ReplicaSet keeps CalmInv.
LEMMA CalmIncrease ==
    ASSUME TypeInv, TypeInv', CalmInv, calm, NEW u \in RS, NEW out \in Outcomes,
           IncreaseNew(u, out)
    PROVE  CalmInv'
<1>1. TypeOK /\ TypeOK' /\ Updating(u) /\ Rolling(u) /\ Rollout(u) /\ upd[u].at = "new"
  BY DEF CalmInv, TypeInv, IncreaseNew, Updating, Rolling
<1>2. OldSide(u) /\ NewSide(u) /\ Balance(u) /\ ~upd[u].newDone
  BY <1>1 DEF Rollout, IncreaseNew
<1>3. upd[u] \in UpdateLocals /\ upd[u].newReplicas \in Replicas
  BY <1>1, <1>2, Numbers, DeploymentAssumption DEF TypeOK, UpdateLocals, NewSide, Replicas
<1>4. /\ failures' = IF out = "ok" THEN failures ELSE failures + 1
      /\ rsConfig' = IF out = "refused" THEN rsConfig
                     ELSE [rsConfig EXCEPT ![u] = upd[u].newReplicas]
  BY <1>1, <1>3, PutRSEffect DEF IncreaseNew
<1>5. \A r \in RS : r # u => rsConfig'[r] = rsConfig[r]
  BY <1>1, <1>4 DEF TypeOK
<1>6. upd[u].old = dm2rs /\ dm2rs' = dm2rs /\ upd[u].old # u
  BY <1>2 DEF OldSide, IncreaseNew
<1>7. CASE out = "ok"
  <2> DEFINE d == upd[u].newReplicas + 1 > upd[u].replicas
             y == [upd[u] EXCEPT !.at = "old", !.newReplicas = upd[u].newReplicas + 1,
                                 !.newDone = d]
  <2>1. /\ upd' = [upd EXCEPT ![u] = y]
        /\ replicasetMap' = [replicasetMap EXCEPT ![u] = upd[u].newReplicas]
    BY <1>7 DEF IncreaseNew
  <2> HIDE DEF d
  <2>2. /\ upd'[u].at = "old" /\ upd'[u].old = upd[u].old /\ upd'[u].from = upd[u].from
        /\ upd'[u].oldReplicas = upd[u].oldReplicas
        /\ upd'[u].newReplicas = upd[u].newReplicas + 1
        /\ upd'[u].oldDone = upd[u].oldDone
        /\ upd'[u].replicas = upd[u].replicas /\ upd'[u].surge = upd[u].surge
    BY <1>1, <1>3, <2>1 DEF TypeOK, UpdateLocals
  <2>3. upd'[u].newDone = d
    <3>1. upd'[u] = y
      BY <1>1, <2>1 DEF TypeOK
    <3>2. QED BY <1>3, <3>1, Zenon DEF UpdateLocals
  <2>4. First(u)' = First(u) /\ rsConfig'[u] = upd[u].newReplicas
        /\ replicasetMap'[u] = upd[u].newReplicas
    BY <1>1, <1>4, <1>7, <2>1, <2>2 DEF First, TypeOK
  <2>5. upd[u].newReplicas <= upd[u].replicas /\ First(u) <= upd[u].newReplicas
    BY <1>2 DEF NewSide
  <2>6. OldSide(u)'
    BY <1>1, <1>2, <1>5, <1>6, <2>2, Numbers DEF OldSide
  <2>7. /\ d => upd[u].newReplicas = upd[u].replicas
        /\ ~d => upd[u].newReplicas + 1 <= upd[u].replicas
    BY <1>1, <2>5, Numbers DEF d
  <2>8. NewSide(u)'
    <3>1. CASE d
      BY <1>1, <2>2, <2>3, <2>4, <2>5, <2>7, <3>1, Numbers DEF NewSide
    <3>2. CASE ~d
      BY <1>1, <2>2, <2>3, <2>4, <2>5, <2>7, <3>2, Numbers DEF NewSide
    <3>3. QED BY <3>1, <3>2
  <2>9. OldLive(u)' = OldLive(u)
    BY <1>1, <1>5, <1>6, <2>2, Numbers DEF OldLive
  <2>10. /\ First(u) + upd[u].from <= upd[u].newReplicas + upd[u].oldReplicas
         /\ OldLive(u) => upd[u].newReplicas + upd[u].oldReplicas
                             <= First(u) + upd[u].from + failures
    BY <1>1, <1>2, Numbers DEF Balance
  <2>11. Balance(u)'
    <3>1. CASE d
      BY <1>1, <1>4, <1>7, <2>2, <2>3, <2>4, <2>7, <2>9, <2>10, <3>1, Numbers
      DEF Balance, Max
    <3>2. CASE ~d
      <4>1. Lowered(u)'
        BY <2>2 DEF Lowered
      <4>2. QED
        BY <1>1, <1>4, <1>7, <2>2, <2>3, <2>4, <2>9, <2>10, <3>2, <4>1, Numbers DEF Balance
    <3>3. QED BY <3>1, <3>2
  <2>12. Rollout(u)' /\ Rolling(u)'
    BY <2>2, <2>6, <2>8, <2>11 DEF Rollout, Rolling
  <2>13. QED
    BY <1>1, <1>5, <2>1, <2>12, LoopStep DEF IncreaseNew, eventVars
<1>8. CASE out # "ok"
  <2>1. UNCHANGED <<replicasetMap, upd>>
    BY <1>8 DEF IncreaseNew
  <2>2. OldSide(u)'
    BY <1>1, <1>2, <1>5, <1>6, <2>1, Numbers DEF OldSide
  <2>3. First(u)' = First(u) /\ (OldLive(u)' <=> OldLive(u)) /\ (Lowered(u)' <=> Lowered(u))
    <3>1. upd[u].old # NoRS => rsConfig'[upd[u].old] = rsConfig[upd[u].old]
      BY <1>1, <1>5, <1>6, Numbers
    <3>2. QED BY <2>1, <3>1 DEF First, OldLive, Lowered
  <2>4. NewSide(u)'
    BY <1>1, <1>2, <1>4, <1>8, <2>1, <2>3, Numbers DEF NewSide, TypeOK
  <2>5. Balance(u)'
    BY <1>1, <1>2, <1>4, <1>8, <2>1, <2>3, Numbers DEF Balance
  <2>6. Rollout(u)' /\ Rolling(u)'
    BY <1>1, <2>1, <2>2, <2>4, <2>5 DEF Rollout, Rolling
  <2>7. upd' = [upd EXCEPT ![u] = upd[u]]
    BY <1>1, <2>1 DEF TypeOK
  <2>8. QED
    BY <1>1, <1>5, <2>6, <2>7, LoopStep DEF IncreaseNew, eventVars
<1>9. QED BY <1>7, <1>8

\* Passing over the increase keeps CalmInv.
LEMMA CalmNewDone ==
    ASSUME TypeInv, TypeInv', CalmInv, calm, NEW u \in RS, NewIsDone(u)
    PROVE  CalmInv'
<1>1. TypeOK /\ TypeOK' /\ Updating(u) /\ Rollout(u) /\ upd[u].newDone /\ upd[u].at = "new"
  BY DEF CalmInv, TypeInv, NewIsDone, Updating, Rolling
<1>2. upd' = [upd EXCEPT ![u] = [upd[u] EXCEPT !.at = "old"]] /\ upd[u] \in UpdateLocals
  BY <1>1 DEF NewIsDone, TypeOK
<1>3. /\ upd'[u].at = "old" /\ upd'[u].old = upd[u].old /\ upd'[u].from = upd[u].from
      /\ upd'[u].oldReplicas = upd[u].oldReplicas /\ upd'[u].newReplicas = upd[u].newReplicas
      /\ upd'[u].oldDone = upd[u].oldDone /\ upd'[u].newDone = upd[u].newDone
      /\ upd'[u].replicas = upd[u].replicas /\ upd'[u].surge = upd[u].surge
  BY <1>1, <1>2 DEF TypeOK, UpdateLocals
<1>4. UNCHANGED <<rsConfig, replicasetMap, dm2rs, failures>> /\ First(u)' = First(u)
  BY <1>3 DEF NewIsDone, etcdVars, boundVars, First
<1>5. OldSide(u)'
  BY <1>1, <1>3, <1>4 DEF Rollout, OldSide
<1>6. NewSide(u)'
  BY <1>1, <1>3, <1>4 DEF Rollout, NewSide
<1>7. Balance(u)'
  BY <1>1, <1>3, <1>4 DEF Rollout, Balance, OldLive
<1>8. Rollout(u)' /\ Rolling(u)'
  BY <1>3, <1>5, <1>6, <1>7 DEF Rollout, Rolling
<1>9. QED
  BY <1>1, <1>2, <1>4, <1>8, LoopStep DEF NewIsDone, eventVars, boundVars

\* Passing over the decrease keeps CalmInv.
LEMMA CalmOldDone ==
    ASSUME TypeInv, TypeInv', CalmInv, calm, NEW u \in RS, OldIsDone(u)
    PROVE  CalmInv'
<1> DEFINE a == IF upd[u].newDone THEN "finish" ELSE "new"
<1>1. TypeOK /\ TypeOK' /\ Updating(u) /\ Rollout(u) /\ upd[u].oldDone /\ upd[u].at = "old"
  BY DEF CalmInv, TypeInv, OldIsDone, Updating, Rolling
<1>2. upd' = [upd EXCEPT ![u] = [upd[u] EXCEPT !.at = a]] /\ upd[u] \in UpdateLocals
  BY <1>1 DEF OldIsDone, TypeOK
<1> HIDE DEF a
<1>3. /\ upd'[u].at = a /\ upd'[u].old = upd[u].old /\ upd'[u].from = upd[u].from
      /\ upd'[u].oldReplicas = upd[u].oldReplicas /\ upd'[u].newReplicas = upd[u].newReplicas
      /\ upd'[u].oldDone = upd[u].oldDone /\ upd'[u].newDone = upd[u].newDone
      /\ upd'[u].replicas = upd[u].replicas /\ upd'[u].surge = upd[u].surge
  BY <1>1, <1>2 DEF TypeOK, UpdateLocals
<1>4. UNCHANGED <<rsConfig, replicasetMap, dm2rs, failures>> /\ First(u)' = First(u)
  BY <1>3 DEF OldIsDone, etcdVars, boundVars, First
<1>5. OldSide(u)'
  BY <1>1, <1>3, <1>4 DEF Rollout, OldSide
<1>6. NewSide(u)'
  BY <1>1, <1>3, <1>4, Numbers DEF Rollout, NewSide, a
<1>7. Balance(u)'
  <2>1. upd[u].oldReplicas = 0 /\ ~OldLive(u) /\ ~OldLive(u)'
    BY <1>1, <1>3, <1>4 DEF Rollout, OldSide, OldLive
  <2>2. ~upd[u].newDone =>
           First(u) + upd[u].from + 1 <= upd[u].newReplicas + upd[u].oldReplicas
    BY <1>1 DEF Rollout, Balance, Lowered
  <2>3. QED
    BY <1>1, <1>3, <1>4, <2>1, <2>2, Numbers DEF Balance
<1>8. Rollout(u)' /\ Rolling(u)'
  BY <1>1, <1>3, <1>5, <1>6, <1>7 DEF Rollout, Rolling, a
<1>9. QED
  BY <1>1, <1>2, <1>4, <1>8, LoopStep DEF OldIsDone, eventVars, boundVars

\* Lowering the old ReplicaSet keeps CalmInv.
LEMMA CalmDecrease ==
    ASSUME TypeInv, TypeInv', CalmInv, calm, NEW u \in RS, NEW out \in Outcomes,
           DecreaseOld(u, out)
    PROVE  CalmInv'
<1> DEFINE k == IF out = "ok" THEN upd[u].oldReplicas - 1 ELSE upd[u].oldReplicas
           y == IF out = "ok"
                   THEN [upd[u] EXCEPT !.at = "new", !.oldReplicas = upd[u].oldReplicas - 1]
                   ELSE [upd[u] EXCEPT !.at = "new"]
<1>1. /\ TypeOK /\ TypeOK' /\ Updating(u) /\ Rolling(u) /\ Rollout(u)
      /\ upd[u].at = "old" /\ ~upd[u].oldDone
  BY DEF CalmInv, TypeInv, DecreaseOld, Updating, Rolling
<1>2. OldSide(u) /\ NewSide(u) /\ Balance(u) /\ upd[u].oldReplicas > 1
  BY <1>1 DEF Rollout, DecreaseOld
<1>3. /\ upd[u] \in UpdateLocals /\ upd[u].oldReplicas - 1 \in Replicas
      /\ upd[u].old \in RS /\ upd[u].old # NoRS
  <2>1. upd[u] \in UpdateLocals /\ upd[u].oldReplicas \in Replicas
    BY <1>1 DEF TypeOK, UpdateLocals
  <2>2. upd[u].oldReplicas - 1 \in Replicas /\ upd[u].oldReplicas # 0
    BY <1>2, <2>1, DeploymentAssumption DEF Replicas
  <2>3. QED BY <2>1, <2>2 DEF TypeInv, LocalsOK, UpdateLocals
<1>4. /\ failures' = IF out = "ok" THEN failures ELSE failures + 1
      /\ rsConfig' = IF out = "refused" THEN rsConfig
                     ELSE [rsConfig EXCEPT ![upd[u].old] = upd[u].oldReplicas - 1]
  BY <1>1, <1>3, PutRSEffect DEF DecreaseOld
<1>5. /\ \A r \in RS : r # upd[u].old => rsConfig'[r] = rsConfig[r]
      /\ rsConfig'[upd[u].old] \in {rsConfig[upd[u].old], upd[u].oldReplicas - 1}
      /\ out = "ok" => rsConfig'[upd[u].old] = upd[u].oldReplicas - 1
  BY <1>1, <1>3, <1>4 DEF TypeOK
<1>6. upd[u].old = dm2rs /\ dm2rs' = dm2rs /\ upd[u].old # u
  BY <1>2 DEF OldSide, DecreaseOld
<1>7. upd' = [upd EXCEPT ![u] = y]
  BY DEF DecreaseOld
<1>8. /\ upd'[u].at = "new" /\ upd'[u].old = upd[u].old /\ upd'[u].from = upd[u].from
      /\ upd'[u].oldReplicas = k /\ upd'[u].newReplicas = upd[u].newReplicas
      /\ upd'[u].oldDone = upd[u].oldDone /\ upd'[u].newDone = upd[u].newDone
      /\ upd'[u].replicas = upd[u].replicas /\ upd'[u].surge = upd[u].surge
  BY <1>1, <1>3, <1>7 DEF TypeOK, UpdateLocals
<1>9. /\ k \in Nat /\ k # 0 /\ k <= upd[u].oldReplicas
      /\ rsConfig'[upd[u].old] \in {k, k - 1}
  BY <1>1, <1>2, <1>3, <1>5, Numbers DEF OldSide
<1>10. First(u)' = First(u) /\ rsConfig'[u] = rsConfig[u]
       /\ (replicasetMap'[u] = replicasetMap[u])
  BY <1>1, <1>3, <1>5, <1>6, <1>8 DEF First, DecreaseOld, TypeOK
<1>11. OldSide(u)'
  BY <1>1, <1>2, <1>3, <1>5, <1>6, <1>8, <1>9, Numbers DEF OldSide
<1>12. NewSide(u)'
  BY <1>1, <1>2, <1>8, <1>10, Numbers DEF NewSide
<1>13. Balance(u)'
  <2>1. OldLive(u)
    BY <1>1, <1>2, <1>3, Numbers DEF OldSide, OldLive
  <2>2. ~upd[u].newDone =>
           First(u) + upd[u].from + 1 <= upd[u].newReplicas + upd[u].oldReplicas
    BY <1>1, <1>2 DEF Balance, Lowered
  <2>3. out = "ok" => ~Lowered(u)'
    BY <1>5, <1>8 DEF Lowered
  <2>4. CASE out = "ok"
    BY <1>1, <1>2, <1>4, <1>8, <1>10, <2>1, <2>2, <2>3, <2>4, Numbers DEF Balance, Max
  <2>5. CASE out # "ok"
    BY <1>1, <1>2, <1>4, <1>8, <1>10, <2>1, <2>2, <2>5, Numbers DEF Balance, Max
  <2>6. QED BY <2>4, <2>5
<1>14. Rollout(u)' /\ Rolling(u)'
  BY <1>8, <1>11, <1>12, <1>13 DEF Rollout, Rolling
<1> HIDE DEF y
<1>15. QED
  BY <1>1, <1>5, <1>6, <1>7, <1>14, LoopStep DEF DecreaseOld, eventVars

\* Deleting the old ReplicaSet keeps CalmInv.
LEMMA CalmDeleteOld ==
    ASSUME TypeInv, TypeInv', CalmInv, calm, NEW u \in RS, NEW out \in Outcomes,
           DeleteOld(u, out)
    PROVE  CalmInv'
<1> DEFINE a == IF out = "ok" /\ upd[u].newDone THEN "finish" ELSE "new"
           k == IF out = "ok" THEN 0 ELSE 1
           y == IF out = "ok"
                   THEN [upd[u] EXCEPT !.at = IF upd[u].newDone THEN "finish" ELSE "new",
                                       !.oldReplicas = 0, !.oldDone = TRUE]
                   ELSE [upd[u] EXCEPT !.at = "new"]
<1>1. /\ TypeOK /\ TypeOK' /\ Updating(u) /\ Rolling(u) /\ Rollout(u)
      /\ upd[u].at = "old" /\ ~upd[u].oldDone
  BY DEF CalmInv, TypeInv, DeleteOld, Updating, Rolling
<1>2. OldSide(u) /\ NewSide(u) /\ Balance(u) /\ upd[u].oldReplicas = 1
  BY <1>1 DEF Rollout, DeleteOld
<1>3. upd[u] \in UpdateLocals /\ upd[u].old \in RS /\ upd[u].old # NoRS
  BY <1>2 DEF TypeInv, LocalsOK, UpdateLocals
<1>4. /\ failures' \in {failures, failures + 1}
      /\ rsConfig' = IF out = "refused" THEN rsConfig ELSE [rsConfig EXCEPT ![upd[u].old] = 0]
      /\ out # "refused" => failures' = IF out = "ok" THEN failures ELSE failures + 1
  BY <1>1, <1>3, DelRSEffect DEF DeleteOld
<1>5. /\ \A r \in RS : r # upd[u].old => rsConfig'[r] = rsConfig[r]
      /\ rsConfig'[upd[u].old] \in {rsConfig[upd[u].old], 0}
      /\ out # "refused" => rsConfig'[upd[u].old] = 0
  BY <1>1, <1>3, <1>4 DEF TypeOK
<1>6. upd[u].old = dm2rs /\ dm2rs' = dm2rs /\ upd[u].old # u
  BY <1>2 DEF OldSide, DeleteOld
<1>7. upd' = [upd EXCEPT ![u] = y]
  BY DEF DeleteOld
<1>8. /\ upd'[u].at = a /\ upd'[u].old = upd[u].old /\ upd'[u].from = upd[u].from
      /\ upd'[u].oldReplicas = k /\ upd'[u].newReplicas = upd[u].newReplicas
      /\ upd'[u].newDone = upd[u].newDone
      /\ upd'[u].replicas = upd[u].replicas /\ upd'[u].surge = upd[u].surge
  BY <1>1, <1>2, <1>3, <1>7 DEF TypeOK, UpdateLocals
<1>9. upd'[u].oldDone <=> out = "ok"
  BY <1>1, <1>3, <1>7 DEF TypeOK, UpdateLocals
<1>10. First(u)' = First(u) /\ rsConfig'[u] = rsConfig[u]
       /\ (replicasetMap'[u] = replicasetMap[u])
  BY <1>5, <1>6, <1>8 DEF First, DeleteOld
<1>11. OldSide(u)'
  BY <1>1, <1>2, <1>3, <1>5, <1>6, <1>8, <1>9, Numbers DEF OldSide
<1>12. NewSide(u)'
  BY <1>1, <1>2, <1>8, <1>10, Numbers DEF NewSide
<1>13. Balance(u)'
  <2>1. ~upd[u].newDone =>
           First(u) + upd[u].from + 1 <= upd[u].newReplicas + upd[u].oldReplicas
    BY <1>1, <1>2 DEF Balance, Lowered
  <2>2. OldLive(u)' => OldLive(u) /\ out = "refused"
    BY <1>3, <1>5, <1>8 DEF OldLive
  <2>3. out = "ok" => ~Lowered(u)'
    BY <1>8 DEF Lowered
  <2>4. out = "refused" => failures' \in {failures, failures + 1}
    BY <1>4
  <2>5. CASE out # "refused"
    BY <1>1, <1>2, <1>8, <1>10, <2>1, <2>2, <2>3, <2>5, Numbers DEF Balance
  <2>6. CASE out = "refused"
    <3>1. CASE failures' = failures + 1
      BY <1>1, <1>2, <1>8, <1>10, <2>1, <2>2, <2>6, <3>1, Numbers DEF Balance, Max
    <3>2. CASE failures' = failures
      <4>1. ~OldLive(u)
        <5>1. upd[u].old \notin stored
          BY <1>1, <1>3, <2>6, <3>2, Numbers DEF DeleteOld, DelRS, Failing
        <5>2. QED BY <1>3, <5>1 DEF OldLive, TypeInv, NothingUnstored
      <4>2. QED
        BY <1>1, <1>2, <1>8, <1>10, <2>1, <2>2, <2>6, <4>1, Numbers DEF Balance
    <3>3. QED BY <2>4, <2>6, <3>1, <3>2
  <2>7. QED BY <2>5, <2>6
<1>14. Rollout(u)' /\ Rolling(u)'
  BY <1>8, <1>9, <1>11, <1>12, <1>13 DEF Rollout, Rolling
<1> HIDE DEF y
<1>15. QED
  BY <1>1, <1>5, <1>6, <1>7, <1>14, LoopStep DEF DeleteOld, eventVars

\* The end of update, which names the new ReplicaSet in dm2rs, keeps CalmInv.
LEMMA CalmFinish ==
    ASSUME TypeInv, TypeInv', CalmInv, calm, NEW u \in RS, UpdateFinish(u)
    PROVE  CalmInv'
<1>1. /\ TypeOK /\ TypeOK' /\ OneChange /\ Updating(u) /\ Rollout(u)
      /\ upd[u].newDone /\ upd[u].oldDone
  BY DEF CalmInv, TypeInv, UpdateFinish, Updating, Rolling, Rollout
<1>2. /\ upd' = [upd EXCEPT ![u] = [upd[u] EXCEPT !.at = "done"]] /\ dm2rs' = u
      /\ UNCHANGED <<deployment, putEvents, delEvents, rsConfig, replicasetMap, applies>>
  BY DEF UpdateFinish, eventVars, etcdVars, boundVars
<1>3. /\ putEvents = <<>> /\ delEvents = 0 /\ deployment # Undeployed /\ u <= applies
      /\ \A v \in RS : v # u => ~Updating(v)
  BY <1>1 DEF OneChange
<1>4. upd'[u].at = "done" /\ \A v \in RS : v # u => upd'[v] = upd[v]
  BY <1>1, <1>2 DEF TypeOK, UpdateLocals
<1>5. \A v \in RS : ~Updating(v)' /\ ~Rolling(v)' /\ upd'[v].at # "start"
  BY <1>3, <1>4 DEF Updating, Rolling
<1>6. OneChange'
  BY <1>1, <1>2, <1>3, <1>5 DEF OneChange
<1>7. AtRest'
  BY <1>1, <1>2, Numbers DEF AtRest, Rollout, OldSide, NewSide
<1>8. QED
  BY <1>5, <1>6, <1>7 DEF CalmInv

\* Everything else happens only while no update is under way.
LEMMA CalmElse ==
    ASSUME TypeInv, TypeInv', CalmInv, calm, calm',
           \/ \E n \in Replicas, surge \in Surges : ApplyDeployment(n, surge)
           \/ RemoveDeployment
           \/ PutDeploymentModify
           \/ \E out \in Outcomes : PutDeploymentCreate(out)
           \/ \E out \in Outcomes : DeleteDeployment(out)
    PROVE  CalmInv'
<1>0. TypeOK /\ TypeOK' /\ OneChange
  BY DEF CalmInv, TypeInv
<1>1. ASSUME NEW n \in Replicas, NEW surge \in Surges, ApplyDeployment(n, surge)
      PROVE  CalmInv'
  <2> DEFINE e == [rs |-> applies + 1, create |-> deployment = Undeployed,
                   replicas |-> n, surge |-> surge]
  <2>1. Quiet /\ putEvents = <<>> /\ delEvents = 0 /\ \A u \in RS : ~Updating(u)
    BY <1>1 DEF ApplyDeployment, Quiet
  <2>2. /\ putEvents' = Append(putEvents, e) /\ applies' = applies + 1 /\ deployment' = n
        /\ UNCHANGED <<delEvents, rsConfig, replicasetMap, dm2rs, upd>>
    BY <1>1 DEF ApplyDeployment, etcdVars
  <2>3. /\ Len(putEvents') = 1 /\ Head(putEvents').rs = applies'
        /\ Head(putEvents').create => deployment = Undeployed
    <3>1. putEvents' = <<e>>
      BY <2>1, <2>2
    <3>2. Len(putEvents') = 1 /\ Head(putEvents') = e
      BY <3>1
    <3>3. e.rs = applies + 1
      OBVIOUS
    <3>4. e.create => deployment = Undeployed
      BY Zenon
    <3>5. QED BY <2>2, <3>2, <3>3, <3>4
  <2>4. applies + 1 \in RS /\ n # Undeployed
    BY <1>0, <1>1, DeploymentAssumption DEF ApplyDeployment, RS, TypeOK, Replicas, Undeployed
  <2>5. rsConfig[applies + 1] = 0 /\ dm2rs # applies + 1
    <3>1. applies \in Nat /\ applies + 1 > applies
      BY <1>0, Numbers
    <3>2. dm2rs \in Nat /\ dm2rs <= applies
      BY <1>0, Numbers DEF OneChange, TypeOK, NoRS
    <3>3. rsConfig[applies + 1] = 0
      BY <1>0, <2>4, <3>1 DEF OneChange
    <3>4. QED BY <3>1, <3>2, <3>3
  <2>6. \A u \in RS : ~Updating(u)' /\ ~Rolling(u) /\ ~Rolling(u)' /\ upd'[u].at # "start"
    BY <2>1, <2>2 DEF Updating, Rolling
  <2>7. OneChange'
    <3>1. dm2rs <= applies + 1 /\ \A r \in RS : r > applies + 1 => rsConfig[r] = 0
      BY <1>0, Numbers DEF OneChange, TypeOK, NoRS
    <3>2. deployment = Undeployed => dm2rs = NoRS
      BY <1>0, <2>1 DEF OneChange
    <3>3. QED
      BY <2>1, <2>2, <2>3, <2>4, <2>5, <2>6, <3>1, <3>2 DEF OneChange
  <2>8. AtRest'
    BY <2>2, <2>6 DEF CalmInv, AtRest
  <2>9. QED BY <2>6, <2>7, <2>8 DEF CalmInv
<1>2. CASE RemoveDeployment
  <2>1. putEvents = <<>> /\ delEvents = 0 /\ \A u \in RS : ~Updating(u)
    BY <1>2 DEF RemoveDeployment, Quiet
  <2>2. /\ deployment' = Undeployed /\ delEvents' = 1
        /\ UNCHANGED <<putEvents, rsConfig, replicasetMap, dm2rs, upd, applies>>
    BY <1>2, <2>1 DEF RemoveDeployment, etcdVars
  <2>3. \A u \in RS : ~Updating(u)' /\ ~Rolling(u) /\ ~Rolling(u)' /\ upd'[u].at # "start"
    BY <2>1, <2>2 DEF Updating, Rolling
  <2>4. OneChange'
    BY <1>0, <2>1, <2>2, <2>3 DEF OneChange
  <2>5. AtRest'
    BY <2>2, <2>3 DEF CalmInv, AtRest
  <2>6. QED BY <2>3, <2>4, <2>5 DEF CalmInv
<1>3. ASSUME putEvents # <<>>, putEvents' = Tail(putEvents)
      PROVE  /\ Head(putEvents) \in PutEvent /\ Head(putEvents).rs = applies
             /\ applies \in RS
             /\ putEvents' = <<>> /\ delEvents = 0 /\ deployment # Undeployed
             /\ \A u \in RS : ~Updating(u) /\ ~Rolling(u) /\ upd[u].at # "start"
             /\ AtRest /\ rsConfig[applies] = 0 /\ dm2rs # applies
             /\ Head(putEvents).create => dm2rs = NoRS
  <2>1. Head(putEvents) \in PutEvent /\ Len(putEvents) = 1 /\ Head(putEvents).rs = applies
    BY <1>0, <1>3, HeadTail DEF TypeOK, OneChange
  <2>2. applies \in RS
    BY <2>1 DEF PutEvent
  <2>3. putEvents' = <<>>
    BY <1>0, <1>3, <2>1 DEF TypeOK
  <2>4. \A u \in RS : ~Updating(u) /\ ~Rolling(u) /\ upd[u].at # "start"
    BY <1>0, <1>3 DEF OneChange, Updating, Rolling
  <2>5. QED
    BY <1>0, <1>3, <2>1, <2>2, <2>3, <2>4 DEF OneChange, CalmInv
<1>4. CASE PutDeploymentModify
  <2> DEFINE y == [NoUpdate EXCEPT !.at = "start", !.replicas = Head(putEvents).replicas,
                                   !.surge = Head(putEvents).surge]
  <2>1. putEvents # <<>> /\ putEvents' = Tail(putEvents)
    BY <1>4 DEF PutDeploymentModify
  <2>2. /\ upd' = [upd EXCEPT ![applies] = y]
        /\ UNCHANGED <<deployment, delEvents, rsConfig, replicasetMap, dm2rs, applies>>
    BY <1>3, <1>4, <2>1 DEF PutDeploymentModify, etcdVars, boundVars
  <2>3. upd'[applies].at = "start" /\ upd'[applies].newDone = FALSE
    BY <1>0, <1>3, <2>1, <2>2 DEF TypeOK, NoUpdate
  <2>4. \A u \in RS : u # applies => upd'[u] = upd[u] /\ ~Updating(u)'
    BY <1>0, <1>3, <2>1, <2>2 DEF TypeOK, Updating
  <2>5. \A u \in RS : ~Rolling(u)' /\ (upd'[u].at = "start" => u = applies)
    BY <1>3, <2>1, <2>3, <2>4 DEF Rolling
  <2>6. OneChange'
    BY <1>0, <1>3, <2>1, <2>2, <2>4, Numbers DEF OneChange
  <2>7. AtRest'
    BY <1>3, <2>1, <2>2 DEF AtRest
  <2>8. QED BY <1>3, <2>1, <2>2, <2>3, <2>5, <2>6, <2>7 DEF CalmInv
<1>5. ASSUME NEW out \in Outcomes, PutDeploymentCreate(out) PROVE CalmInv'
  <2>1. putEvents # <<>> /\ putEvents' = Tail(putEvents) /\ Head(putEvents).create
    BY <1>5 DEF PutDeploymentCreate
  <2>2. /\ dm2rs' = applies
        /\ PutRS(applies, Head(putEvents).replicas, TRUE, out)
        /\ replicasetMap' = [replicasetMap EXCEPT ![applies] = Head(putEvents).replicas]
        /\ UNCHANGED <<deployment, delEvents, upd, applies>> /\ out # "refused"
    BY <1>3, <1>5, <2>1 DEF PutDeploymentCreate
  <2>3. applies \in RS /\ Head(putEvents).replicas \in Replicas
    BY <1>3, <2>1 DEF PutEvent
  <2>4. rsConfig' = [rsConfig EXCEPT ![applies] = Head(putEvents).replicas]
    BY <1>0, <2>2, <2>3, PutRSEffect
  <2>5. \A u \in RS : ~Updating(u)' /\ ~Rolling(u)' /\ upd'[u].at # "start"
    BY <1>3, <2>1, <2>2 DEF Updating, Rolling
  <2>6. OneChange'
    BY <1>0, <1>3, <2>1, <2>2, <2>3, <2>4, <2>5, Numbers DEF OneChange, TypeOK
  <2>7. AtRest'
    BY <1>0, <1>3, <2>1, <2>2, <2>3, <2>4, Numbers DEF AtRest, TypeOK
  <2>8. QED BY <2>5, <2>6, <2>7 DEF CalmInv
<1>6. ASSUME NEW out \in Outcomes, DeleteDeployment(out) PROVE CalmInv'
  <2>1. /\ delEvents = 1 /\ delEvents' = 0 /\ putEvents = <<>>
        /\ \A u \in RS : ~Updating(u)
    BY <1>0, <1>6, Numbers DEF DeleteDeployment, OneChange
  <2>2. /\ dm2rs' = NoRS /\ dm2rs # NoRS /\ DelRS(dm2rs, out) /\ out # "refused"
        /\ UNCHANGED <<deployment, putEvents, upd, applies, replicasetMap>>
    BY <1>6 DEF DeleteDeployment
  <2>3. rsConfig' = [rsConfig EXCEPT ![dm2rs] = 0]
    BY <1>0, <2>2, DelRSEffect DEF TypeOK
  <2>4. \A u \in RS : ~Updating(u)' /\ ~Rolling(u) /\ ~Rolling(u)' /\ upd'[u].at # "start"
    BY <2>1, <2>2 DEF Updating, Rolling
  <2>5. OneChange'
    BY <1>0, <2>1, <2>2, <2>3, <2>4, Numbers DEF OneChange, TypeOK, NoRS
  <2>6. AtRest'
    BY <1>0, <2>2, <2>3, <2>4 DEF AtRest, CalmInv, TypeOK
  <2>7. QED BY <2>4, <2>5, <2>6 DEF CalmInv
<1>7. QED BY <1>1, <1>2, <1>4, <1>5, <1>6

\* CalmInv holds when the controller starts.
LEMMA CalmInit == Init => CalmInv
<1> SUFFICES ASSUME Init PROVE CalmInv
  OBVIOUS
<1>1. \A u \in RS : ~Updating(u) /\ ~Rolling(u) /\ upd[u].at # "start"
  BY DEF Init, NoUpdate, Updating, Rolling
<1>2. OneChange /\ AtRest
  BY <1>1, DeploymentAssumption DEF Init, OneChange, AtRest, NoRS
<1>3. QED BY <1>1, <1>2 DEF CalmInv

\* Every step keeps CalmInv.
LEMMA CalmNext == TypeInv /\ TypeInv' /\ CalmInv /\ [Next]_vars => CalmInv'
<1> SUFFICES ASSUME TypeInv, TypeInv', CalmInv, [Next]_vars, calm' PROVE CalmInv'
  BY DEF CalmInv
<1>1. CASE UNCHANGED vars
  BY <1>1 DEF vars, eventVars, etcdVars, boundVars, CalmInv, OneChange, AtRest, Rollout,
     OldSide, NewSide, Balance, Lowered, OldLive, First, Rolling, Updating
<1>2. CASE Next
  <2>1. calm
    BY <1>2 DEF Next, ApplyDeployment, RemoveDeployment, PutDeployment, PutDeploymentModify,
       PutDeploymentCreate, DeleteDeployment, Update, UpdateStart, ClearOwner, IncreaseNew,
       NewIsDone, DecreaseOld, DeleteOld, OldIsDone, UpdateFinish
  <2>2. QED
    BY <1>2, <2>1, CalmStart, CalmClear, CalmIncrease, CalmNewDone, CalmOldDone,
       CalmDecrease, CalmDeleteOld, CalmFinish, CalmElse
    DEF Next, PutDeployment, Update
<1>3. QED BY <1>1, <1>2

\* Both invariants hold always.
LEMMA Invariance == Spec => [](TypeInv /\ CalmInv)
<1>1. Init => TypeInv /\ CalmInv
  BY TypeInit, CalmInit
<1>2. TypeInv /\ CalmInv /\ [Next]_vars => TypeInv' /\ CalmInv'
  BY TypeNext, CalmNext
<1>3. QED BY <1>1, <1>2, PTL DEF Spec

\* A rolling update that no other change overlaps never exceeds maxSurge by more than the
\* failed requests, whatever the sizes, the surge and the pattern of failures.
THEOREM SurgeBound == Spec => []SurgeRespected
<1>1. TypeInv /\ CalmInv => SurgeRespected
  BY CalmInvBounds
<1>2. QED BY <1>1, Invariance, PTL

\* A rolling update that no other change overlaps never falls below the smaller of its two
\* sizes (by one with maxSurge 0), whatever the pattern of failures.
THEOREM Availability == Spec => []StaysAvailable
<1>1. TypeInv /\ CalmInv => StaysAvailable
  BY CalmInvBounds
<1>2. QED BY <1>1, Invariance, PTL

=============================================================================
