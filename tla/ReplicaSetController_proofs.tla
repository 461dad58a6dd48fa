-------------------- MODULE ReplicaSetController_proofs --------------------
(***************************************************************************)
(* Left alone, the ReplicaSet controller never deletes below the number of *)
(* replicas it was asked for, for any finite set of pod keys, any number   *)
(* of replicas and any backlog.                                            *)
(***************************************************************************)
EXTENDS ReplicaSetController, FiniteSetTheorems, TLAPS

-----------------------------------------------------------------------------
(* The invariant.                                                          *)

\* A key in the queue has its ReplicaSet in the map.
QueuedIsKnown == queue > 0 => cp # None

\* Before the user's first put nothing has happened.
Untouched ==
    applies = 0 =>
       /\ rsConfig = None /\ runtimeRS = None /\ cp = None /\ found = None
       /\ rsEvents = <<>> /\ queue = 0 /\ worker = Resting
       /\ doomed = {} /\ \A p \in PodKeys : pods[p] = "none"
WorkerType ==
    [at : {"idle", "manage"}, want : Replicas, more : Replicas, victims : SUBSET PodKeys]
TypeInv == TypeOK /\ QueuedIsKnown /\ Untouched

\* Every copy of the ReplicaSet has the number the user asked for.
OneNumber ==
    /\ \A i \in DOMAIN rsEvents : rsEvents[i] = rsConfig
    /\ cp \in {None, rsConfig} /\ found \in {None, rsConfig} /\ runtimeRS \in {None, rsConfig}
    /\ worker.at # "idle" => worker.want = rsConfig

\* The pods a list shows that nobody has asked to delete, and those the worker spares.
Staying == ActivePods \ doomed
Spared == Staying \ worker.victims
Above(set, p) == {q \in set : q > p}

\* A sync either creates or deletes, and none is under way while the worker rests.
OneKind ==
    /\ worker.more > 0 => worker.victims = {}
    /\ worker.at = "idle" => worker.victims = {}

\* A pod is asked to be deleted, or is about to be, only for the sake of enough pods with
\* larger keys, which stay; one that is about to be may be gone by then.
DoomedForOthers ==
    /\ \A p \in doomed : p \in ActivePods
    /\ \A p \in worker.victims : pods[p] = "none" \/ p \in ActivePods
    /\ \A p \in doomed \cup worker.victims : Cardinality(Above(Spared, p)) >= rsConfig

\* Both hold while the user leaves the ReplicaSet alone.
LeftAlone == OneNumber /\ OneKind /\ DoomedForOthers
SteadyInv == Steady => LeftAlone

-----------------------------------------------------------------------------
(* What getPodsToDelete picks.                                             *)

Below(set, p) == {q \in set : q < p}

\* Ranks are naturals, and a larger key has a larger rank.
LEMMA RanksGrow ==
    ASSUME NEW L \in SUBSET Nat, IsFiniteSet(L)
    PROVE  /\ \A p \in L : Cardinality(Below(L, p)) \in Nat
           /\ \A p, q \in L : p < q => Cardinality(Below(L, p)) < Cardinality(Below(L, q))
<1>1. ASSUME NEW p \in L
      PROVE  IsFiniteSet(Below(L, p)) /\ Cardinality(Below(L, p)) \in Nat
  <2>1. Below(L, p) \in SUBSET L
    BY DEF Below
  <2> QED
    BY <2>1, FS_Subset, FS_CardinalityType
<1>2. ASSUME NEW p \in L, NEW q \in L, p < q
      PROVE  Cardinality(Below(L, p)) < Cardinality(Below(L, q))
  <2>1. ASSUME NEW x \in Below(L, p) PROVE x \in Below(L, q)
    <3>1. x \in L /\ x < p /\ x \in Nat /\ p \in Nat /\ q \in Nat
      BY DEF Below
    <3> QED
      BY <1>2, <3>1 DEF Below
  <2>2. p \in Below(L, q) /\ p \notin Below(L, p)
    BY <1>2 DEF Below
  <2>3. Cardinality(Below(L, p)) <= Cardinality(Below(L, q))
        /\ (Cardinality(Below(L, q)) = Cardinality(Below(L, p)) => Below(L, q) = Below(L, p))
    <3>1. Below(L, p) \in SUBSET Below(L, q)
      BY <2>1
    <3> QED
      BY <1>1, <3>1, FS_Subset
  <2>4. Cardinality(Below(L, q)) # Cardinality(Below(L, p))
    BY <2>2, <2>3
  <2> QED
    BY <1>1, <2>3, <2>4
<1> QED
  BY <1>1, <1>2

\* The diff pods with the smallest keys, and no more, are picked from a list of n + diff: at
\* least n are spared, each has a larger key than every pod that is picked, and there is no
\* room for n others above a spared one.
LEMMA VictimsAreLowest ==
    ASSUME NEW L \in SUBSET Nat, IsFiniteSet(L), NEW n \in Nat, Cardinality(L) > n,
           NEW V, V = PodsToDelete(L, Cardinality(L) - n)
    PROVE  /\ V \subseteq L
           /\ Cardinality(L \ V) >= n
           /\ \A v \in V, t \in L \ V : v < t
           /\ \A t \in L \ V : Cardinality(Above(L, t)) < n
<1> DEFINE diff == Cardinality(L) - n
<1>0. Cardinality(L) \in Nat /\ diff \in Nat /\ diff > 0
  BY FS_CardinalityType
<1>1. V = {p \in L : Cardinality(Below(L, p)) < diff}
  BY DEF PodsToDelete, Below
<1>2. IsFiniteSet(V) /\ Cardinality(V) \in Nat
  BY <1>1, FS_Subset, FS_CardinalityType
<1> HIDE DEF diff
<1>3. Cardinality(V) <= diff
  <2> DEFINE f == [p \in V |-> Cardinality(Below(L, p))]
  <2>0. ASSUME NEW p \in V PROVE Cardinality(Below(L, p)) \in 0..(diff - 1)
    <3>1. p \in L /\ Cardinality(Below(L, p)) < diff
      BY <1>1
    <3>2. Cardinality(Below(L, p)) \in Nat
      BY <3>1, RanksGrow
    <3> QED
      BY <1>0, <3>1, <3>2
  <2>1. f \in [V -> 0..(diff - 1)]
    BY <2>0
  <2>2. ASSUME NEW p \in V, NEW q \in V, f[p] = f[q] PROVE p = q
    <3>1. p \in L /\ q \in L /\ p \in Nat /\ q \in Nat
      BY <1>1
    <3>2. ~(p < q) /\ ~(q < p)
      BY <2>2, <3>1, <1>0, RanksGrow
    <3> QED
      BY <3>1, <3>2
  <2>3. IsFiniteSet(0..(diff - 1)) /\ Cardinality(0..(diff - 1)) = diff
    <3>1. 0 \in Int /\ diff - 1 \in Int /\ ~(0 > diff - 1) /\ diff - 1 - 0 + 1 = diff
      BY <1>0
    <3> QED
      BY <3>1, FS_Interval
  <2> HIDE DEF f
  <2>4. ~(Cardinality(0..(diff - 1)) < Cardinality(V))
    <3> DEFINE T == 0..(diff - 1)
    <3>1. IsFiniteSet(T) /\ f \in [V -> T]
      BY <2>1, <2>3
    <3> HIDE DEF T
    <3>2. ~(Cardinality(T) < Cardinality(V))
      BY <1>2, <2>2, <3>1, FS_PigeonHole
    <3> QED
      BY <3>2 DEF T
  <2> QED
    BY <1>0, <1>2, <2>3, <2>4
<1>4. Cardinality(L \ V) >= n
  <2>1. V \cup (L \ V) = L /\ V \cap (L \ V) = {}
    BY <1>1
  <2>2. IsFiniteSet(L \ V) /\ Cardinality(L \ V) \in Nat
    BY FS_Subset, FS_CardinalityType
  <2>3. Cardinality(L) = Cardinality(V) + Cardinality(L \ V) - 0
    BY <1>2, <2>1, <2>2, FS_Union, FS_EmptySet
  <2> QED
    BY <1>0, <1>2, <1>3, <2>2, <2>3 DEF diff
<1>5. ASSUME NEW v \in V, NEW t \in L \ V PROVE v < t
  <2>1. v \in L /\ t \in L /\ v \in Nat /\ t \in Nat /\ v # t
    BY <1>1
  <2>2. Cardinality(Below(L, v)) < diff /\ ~(Cardinality(Below(L, t)) < diff)
    BY <1>1, <2>1
  <2>3. ~(t < v)
    BY <1>0, <2>1, <2>2, RanksGrow
  <2> QED
    BY <2>1, <2>3
<1>6. ASSUME NEW t \in L \ V PROVE Cardinality(Above(L, t)) < n
  <2>1. t \in L /\ t \in Nat /\ Cardinality(Below(L, t)) \in Nat
        /\ Cardinality(Below(L, t)) >= diff
    BY <1>0, <1>1, RanksGrow
  <2> DEFINE rest == L \ {t}
  <2>2. IsFiniteSet(rest) /\ Cardinality(rest) = Cardinality(L) - 1
    BY <2>1, FS_RemoveElement
  <2>3. Below(L, t) \in SUBSET L /\ Above(L, t) \in SUBSET L
    BY DEF Below, Above
  <2>4. IsFiniteSet(Below(L, t)) /\ IsFiniteSet(Above(L, t)) /\ Cardinality(Above(L, t)) \in Nat
    BY <2>3, FS_Subset, FS_CardinalityType
  <2>5. Below(L, t) \cup Above(L, t) = rest /\ Below(L, t) \cap Above(L, t) = {}
    <3>1. ASSUME NEW x \in L PROVE /\ x # t <=> (x < t \/ x > t)
                                   /\ ~(x < t /\ x > t)
      BY <2>1
    <3>2. \A x : x \in rest <=> x \in Below(L, t) \/ x \in Above(L, t)
      BY <2>1, <3>1 DEF Below, Above
    <3>3. \A x : ~(x \in Below(L, t) /\ x \in Above(L, t))
      BY <3>1 DEF Below, Above
    <3> QED
      BY <3>2, <3>3
  <2> HIDE DEF rest
  <2>6. Cardinality(rest) = Cardinality(Below(L, t)) + Cardinality(Above(L, t)) - 0
    BY <2>4, <2>5, FS_Union, FS_EmptySet
  <2> QED
    BY <1>0, <2>1, <2>2, <2>4, <2>6 DEF diff
<1> QED
  BY <1>1, <1>4, <1>5, <1>6

-----------------------------------------------------------------------------
(* Type correctness.                                                       *)

\* The mark for a missing entry is no number of replicas.
LEMMA NoneIsNone ==
    None \notin Replicas /\ Replicas \subseteq Nat
  BY RSAssumption DEF None, Replicas

\* A worker at rest has its type.
LEMMA RestingTyped ==
    Resting \in WorkerType /\ Resting.at = "idle" /\ Resting.victims = {}
  BY RSAssumption DEF Resting, Syncing, WorkerType, Replicas

\* The initial state has its types.
LEMMA InitTyped == Init => TypeInv
<1> SUFFICES ASSUME Init PROVE TypeInv
  OBVIOUS
<1>1. TypeOK
  BY RestingTyped, RSAssumption DEF Init, TypeOK, PodStates, WorkerType
<1> QED
  BY <1>1 DEF Init, TypeInv, QueuedIsKnown, Untouched

\* What the user does to the ReplicaSet keeps the types.
LEMMA UserTyped ==
    TypeInv /\ ((\E n \in Replicas \ {0} : ApplyRS(n)) \/ DeleteRS \/ DeleteRSForReal) => TypeInv'
<1> SUFFICES ASSUME TypeInv,
                    (\E n \in Replicas \ {0} : ApplyRS(n)) \/ DeleteRS \/ DeleteRSForReal
             PROVE  TypeInv'
  OBVIOUS
<1>0. 0 \in Replicas
  BY RSAssumption DEF Replicas
<1>1. ASSUME NEW n \in Replicas \ {0}, ApplyRS(n) PROVE TypeInv'
  <2>1. applies' \in 1..MaxApplies /\ Append(rsEvents, n) \in Seq(Replicas)
    BY <1>1, RSAssumption DEF ApplyRS, TypeInv, TypeOK
  <2> QED
    BY <1>1, <2>1 DEF ApplyRS, TypeInv, TypeOK, QueuedIsKnown, Untouched
<1>2. CASE DeleteRS
  <2>1. Append(rsEvents, 0) \in Seq(Replicas)
    BY <1>0 DEF TypeInv, TypeOK
  <2> QED
    BY <1>2, <1>0, <2>1 DEF DeleteRS, TypeInv, TypeOK, QueuedIsKnown, Untouched, userVars
<1>3. CASE DeleteRSForReal
  BY <1>3, NoneIsNone, <1>0 DEF DeleteRSForReal, TypeInv, TypeOK, QueuedIsKnown, Untouched, userVars
<1> QED
  BY <1>1, <1>2, <1>3

\* What happens to one pod keeps the types.
LEMMA PodTyped ==
    ASSUME TypeInv, NEW p \in PodKeys, UserDeletesPod(p) \/ PodDies(p) \/ Kubelets(p)
    PROVE  TypeInv'
<1>0. applies # 0
      /\ pods[p] \in PodStates
  BY DEF UserDeletesPod, PodDies, Kubelets, KubeletStarts, KubeletRuns, KubeletDeletes, TypeInv,
         TypeOK, Untouched
<1>1. CASE UserDeletesPod(p)
  <2>1. upsets' \in 0..MaxUpsets
    BY <1>1, RSAssumption DEF UserDeletesPod, MayUpset, TypeInv, TypeOK
  <2> QED
    BY <1>0, <1>1, <2>1 DEF UserDeletesPod, TypeInv, TypeOK, QueuedIsKnown, Untouched
<1>2. CASE PodDies(p)
  <2>1. upsets' \in 0..MaxUpsets /\ podEvents' \in 0..MaxBacklog
    BY <1>2, RSAssumption DEF PodDies, UploadPod, MayUpset, TypeInv, TypeOK
  <2>2. pods' \in [PodKeys -> PodStates]
    BY <1>2 DEF PodDies, UploadPod, TypeInv, TypeOK, PodStates
  <2> QED
    BY <1>0, <1>2, <2>1, <2>2 DEF PodDies, TypeInv, TypeOK, QueuedIsKnown, Untouched
<1>3. CASE KubeletStarts(p) \/ KubeletRuns(p)
  <2>1. podEvents' \in 0..MaxBacklog
    BY <1>3, RSAssumption DEF KubeletStarts, KubeletRuns, UploadPod, TypeInv, TypeOK
  <2>2. pods' \in [PodKeys -> PodStates]
    BY <1>3 DEF KubeletStarts, KubeletRuns, UploadPod, TypeInv, TypeOK, PodStates
  <2> QED
    BY <1>0, <1>3, <2>1, <2>2
       DEF KubeletStarts, KubeletRuns, TypeInv, TypeOK, QueuedIsKnown, Untouched, userVars
<1>4. CASE KubeletDeletes(p)
  <2>2. pods' \in [PodKeys -> PodStates]
    BY <1>4 DEF KubeletDeletes, TypeInv, TypeOK, PodStates
  <2> QED
    BY <1>0, <1>4, <2>2
       DEF KubeletDeletes, TypeInv, TypeOK, QueuedIsKnown, Untouched, userVars
<1> QED
  BY <1>1, <1>2, <1>3, <1>4 DEF Kubelets

\* The two watch handlers keep the types.
LEMMA HandlersTyped ==
    TypeInv /\ (AddRS \/ PodOperation \/ PodOperationPut) => TypeInv'
<1> SUFFICES ASSUME TypeInv, AddRS \/ PodOperation \/ PodOperationPut PROVE TypeInv'
  OBVIOUS
<1>1. CASE AddRS
  <2>1. Head(rsEvents) \in Replicas /\ Tail(rsEvents) \in Seq(Replicas)
    BY <1>1 DEF AddRS, TypeInv, TypeOK
  <2>2. queue' \in 0..MaxBacklog /\ applies # 0
    BY <1>1, RSAssumption DEF AddRS, TypeInv, TypeOK, Untouched
  <2> QED
    BY <1>1, <2>1, <2>2, NoneIsNone DEF AddRS, TypeInv, TypeOK, QueuedIsKnown, Untouched, userVars
<1>2. CASE PodOperation
  <2>1. podEvents' \in 0..MaxBacklog
    BY <1>2, RSAssumption DEF PodOperation, TypeInv, TypeOK
  <2>2. lost' \in 0..MaxUpsets
    BY <1>2, RSAssumption DEF PodOperation, Requested, MayUpset, TypeInv, TypeOK
  <2>3. found' \in {found, runtimeRS}
    BY <1>2 DEF PodOperation, Requested
  <2> QED
    BY <1>2, <2>1, <2>2, <2>3 DEF PodOperation, TypeInv, TypeOK, QueuedIsKnown, Untouched
<1>3. CASE PodOperationPut
  <2>2. queue' \in 0..MaxBacklog /\ applies # 0
    BY <1>3, RSAssumption DEF PodOperationPut, TypeInv, TypeOK, Untouched
  <2> QED
    BY <1>3, <2>2 DEF PodOperationPut, TypeInv, TypeOK, QueuedIsKnown, Untouched, userVars
<1> QED
  BY <1>1, <1>2, <1>3

\* What the worker decides from a list has its type.
LEMMA DecisionTyped ==
    ASSUME NEW active \in SUBSET PodKeys, NEW want \in Replicas
    PROVE  ManageReplicas(active, want) \in WorkerType
<1> DEFINE n == Cardinality(active)
<1>1. n \in Nat
  BY RSAssumption, FS_Subset, FS_CardinalityType
<1>2. CASE n = want
  BY <1>2, RestingTyped DEF ManageReplicas
<1>3. CASE n < want
  <2>1. want - n \in Replicas
    BY <1>1, <1>3, RSAssumption DEF Replicas
  <2>2. n # want
    BY <1>1, <1>3, RSAssumption DEF Replicas
  <2>3. ManageReplicas(active, want) = Syncing(want, want - n, {})
    BY <1>3, <2>2 DEF ManageReplicas
  <2> QED
    BY <2>1, <2>3 DEF Syncing, WorkerType
<1>4. CASE n > want
  <2>1. 0 \in Replicas
    BY RSAssumption DEF Replicas
  <2>4. PodsToDelete(active, n - want) \in SUBSET PodKeys
    BY DEF PodsToDelete
  <2>2. n # want /\ ~(n < want)
    BY <1>1, <1>4, RSAssumption DEF Replicas
  <2>3. ManageReplicas(active, want) = Syncing(want, 0, PodsToDelete(active, n - want))
    BY <1>4, <2>2 DEF ManageReplicas
  <2> QED
    BY <2>1, <2>3, <2>4 DEF Syncing, WorkerType
<1> QED
  BY <1>1, <1>2, <1>3, <1>4, RSAssumption DEF Replicas

\* The worker keeps the types.
LEMMA WorkerTyped == TypeInv /\ Worker => TypeInv'
<1> SUFFICES ASSUME TypeInv, Worker PROVE TypeInv'
  OBVIOUS
<1>0. worker \in WorkerType /\ applies \in Nat
  BY RSAssumption DEF TypeInv, TypeOK, WorkerType
<1>1. CASE SyncList
  <2>1. cp \in Replicas /\ applies # 0
    BY <1>1 DEF SyncList, TypeInv, TypeOK, QueuedIsKnown, Untouched
  <2>2. queue' \in 0..MaxBacklog
    BY <1>1, RSAssumption DEF SyncList, TypeInv, TypeOK
  <2>3. queue' > 0 => queue > 0
    BY <1>1, RSAssumption DEF SyncList, TypeInv, TypeOK
  <2>4. PICK active \in {ActivePods, {}} : Listed(active) /\ worker' = ManageReplicas(active, cp)
    BY <1>1 DEF SyncList
  <2>5. worker' \in WorkerType
    BY <2>1, <2>4, DecisionTyped DEF ActivePods
  <2>6. fails' \in 0..MaxUpsets
    BY <2>4, RSAssumption DEF Listed, MayUpset, TypeInv, TypeOK
  <2> QED
    BY <1>1, <2>1, <2>2, <2>3, <2>5, <2>6
       DEF SyncList, TypeInv, TypeOK, QueuedIsKnown, Untouched, WorkerType
<1>2. CASE CreateRSPod
  <2>1. applies # 0
    BY <1>2, RestingTyped DEF CreateRSPod, TypeInv, Untouched
  <2>2. worker' \in WorkerType
    <3>1. worker.more - 1 \in Replicas
      BY <1>0, <1>2, RSAssumption DEF CreateRSPod, WorkerType, Replicas
    <3> QED
      BY <1>0, <1>2, <3>1 DEF CreateRSPod, WorkerType
  <2>3. pods' \in [PodKeys -> PodStates] /\ lost' \in 0..MaxUpsets
    <3>1. PICK p \in FreeKeys : Requested(pods' = [pods EXCEPT ![p] = "new"], UNCHANGED pods)
      BY <1>2 DEF CreateRSPod
    <3>2. lost' \in 0..MaxUpsets
      BY <3>1, RSAssumption DEF Requested, MayUpset, TypeInv, TypeOK
    <3>3. pods' \in [PodKeys -> PodStates]
      BY <3>1 DEF Requested, TypeInv, TypeOK, PodStates
    <3> QED
      BY <3>2, <3>3
  <2> QED
    BY <1>2, <2>1, <2>2, <2>3 DEF CreateRSPod, TypeInv, TypeOK, QueuedIsKnown, Untouched, WorkerType
<1>3. ASSUME NEW p \in PodKeys, DeleteConfigPod(p) PROVE TypeInv'
  <2>1. applies # 0
    BY <1>3, RestingTyped DEF DeleteConfigPod, TypeInv, Untouched
  <2>2. worker' \in WorkerType
    BY <1>0, <1>3 DEF DeleteConfigPod, WorkerType
  <2>3. lost' \in 0..MaxUpsets
    BY <1>3, RSAssumption DEF DeleteConfigPod, Requested, MayUpset, TypeInv, TypeOK
  <2>4. doomed' \subseteq PodKeys
    BY <1>3 DEF DeleteConfigPod, Requested, TypeInv, TypeOK
  <2> QED
    BY <1>3, <2>1, <2>2, <2>3, <2>4
       DEF DeleteConfigPod, TypeInv, TypeOK, QueuedIsKnown, Untouched, WorkerType
<1>4. CASE PutReplicaSet
  <2>1. applies # 0
    BY <1>4, RestingTyped DEF PutReplicaSet, TypeInv, Untouched
  <2>2. runtimeRS' \in Replicas \cup {None}
    BY <1>0, <1>4 DEF PutReplicaSet, Requested, TypeInv, TypeOK, WorkerType
  <2>3. lost' \in 0..MaxUpsets
    BY <1>4, RSAssumption DEF PutReplicaSet, Requested, MayUpset, TypeInv, TypeOK
  <2> QED
    BY <1>4, <2>1, <2>2, <2>3, RestingTyped
       DEF PutReplicaSet, TypeInv, TypeOK, QueuedIsKnown, Untouched, WorkerType
<1> QED
  BY <1>1, <1>2, <1>3, <1>4 DEF Worker

\* A step that changes nothing keeps the types.
LEMMA IdleTyped == TypeInv /\ UNCHANGED vars => TypeInv'
  BY DEF TypeInv, TypeOK, QueuedIsKnown, Untouched, vars, userVars

\* The types hold in every reachable state, and the invariant with them.
LEMMA TypeInvariant == Spec => []TypeInv
<1>1. TypeInv /\ [Next]_vars => TypeInv'
  <2> SUFFICES ASSUME TypeInv, [Next]_vars PROVE TypeInv'
    OBVIOUS
  <2>1. CASE Worker
    BY <2>1, WorkerTyped
  <2>2. CASE AddRS \/ PodOperation \/ PodOperationPut
    BY <2>2, HandlersTyped
  <2>3. CASE \E p \in PodKeys : UserDeletesPod(p) \/ PodDies(p) \/ Kubelets(p)
    BY <2>3, PodTyped
  <2>4. CASE (\E n \in Replicas \ {0} : ApplyRS(n)) \/ DeleteRS \/ DeleteRSForReal
    BY <2>4, UserTyped
  <2>5. CASE UNCHANGED vars
    BY <2>5, IdleTyped
  <2> QED
    BY <2>1, <2>2, <2>3, <2>4, <2>5 DEF Next
<1> QED
  BY <1>1, InitTyped, PTL DEF Spec

\* Every variable keeps its type: the controller syncs and stores only numbers of replicas a
\* user asked for (rsc.cp, the queue and the runtime copy in etcd).
THEOREM TypeCorrect == Spec => []TypeOK
<1>1. TypeInv => TypeOK
  BY DEF TypeInv
<1> QED
  BY <1>1, TypeInvariant, PTL

-----------------------------------------------------------------------------
(* Left alone, enough pods stay.                                           *)

\* A larger set of pods has no fewer members.
LEMMA MorePods ==
    ASSUME NEW S \in SUBSET PodKeys, NEW T \in SUBSET S, NEW n \in Nat, Cardinality(T) >= n
    PROVE  Cardinality(S) >= n
<1>1. IsFiniteSet(S) /\ IsFiniteSet(T)
  BY RSAssumption, FS_Subset
<1>2. Cardinality(S) \in Nat /\ Cardinality(T) \in Nat /\ Cardinality(T) <= Cardinality(S)
  BY <1>1, FS_Subset, FS_CardinalityType
<1> QED
  BY <1>2

\* The user's first put meets a cluster in which nothing has happened.
LEMMA ApplySteady ==
    ASSUME TypeInv, NEW n \in Replicas \ {0}, ApplyRS(n), Steady'
    PROVE  LeftAlone'
<1>1. applies = 0
  BY RSAssumption DEF ApplyRS, Steady, TypeInv, TypeOK
<1>2. rsEvents' = <<n>> /\ rsConfig' = n
  BY <1>1 DEF ApplyRS, TypeInv, TypeOK, Untouched
<1>3. \A i \in DOMAIN rsEvents' : rsEvents'[i] = rsConfig'
  BY <1>2
<1>4. /\ cp' = None /\ found' = None /\ runtimeRS' = None
      /\ worker'.at = "idle" /\ worker'.victims = {} /\ doomed' = {}
  BY <1>1, RestingTyped DEF ApplyRS, TypeInv, Untouched
<1>5. None' = None
  BY DEF None
<1> QED
  BY <1>3, <1>4, <1>5 DEF LeftAlone, OneNumber, OneKind, DoomedForOthers

\* The pods above a key are more when more are spared.
LEMMA MoreSpared ==
    ASSUME NEW S \in SUBSET PodKeys, NEW T \in SUBSET S, NEW p, NEW n \in Nat,
           Cardinality(Above(T, p)) >= n
    PROVE  Cardinality(Above(S, p)) >= n
<1>1. Above(S, p) \in SUBSET PodKeys /\ Above(T, p) \in SUBSET Above(S, p)
  BY DEF Above
<1> QED
  BY <1>1, MorePods

\* A new pod that becomes visible is one more that stays.
LEMMA StartSteady ==
    ASSUME TypeInv, Steady, LeftAlone, NEW p \in PodKeys, KubeletStarts(p)
    PROVE  LeftAlone'
<1>0. /\ pods \in [PodKeys -> PodStates] /\ doomed \subseteq PodKeys
      /\ worker.victims \subseteq PodKeys /\ rsConfig \in Nat
  BY NoneIsNone DEF TypeInv, TypeOK, Steady
<1>1. /\ pods' = [pods EXCEPT ![p] = "Pending"] /\ pods[p] = "new"
      /\ UNCHANGED <<rsConfig, rsEvents, runtimeRS, cp, worker, doomed, found>>
  BY DEF KubeletStarts, UploadPod
<1>2. ActivePods' = ActivePods \cup {p} /\ p \notin ActivePods
  BY <1>0, <1>1 DEF ActivePods
<1>3. p \notin doomed /\ p \notin worker.victims
  BY <1>1, <1>2 DEF LeftAlone, DoomedForOthers
<1>4. Spared \in SUBSET Spared' /\ Spared' \in SUBSET PodKeys
  BY <1>1, <1>2 DEF Spared, Staying, ActivePods
<1>5. OneNumber' /\ OneKind'
  BY <1>1 DEF LeftAlone, OneNumber, OneKind, None
<1>6. \A q \in doomed \cup worker.victims : Cardinality(Above(Spared', q)) >= rsConfig
  BY <1>0, <1>4, MoreSpared DEF LeftAlone, DoomedForOthers
<1>7. \A q \in worker.victims : pods'[q] = pods[q]
  BY <1>0, <1>1, <1>3
<1>8. DoomedForOthers'
  BY <1>1, <1>2, <1>6, <1>7 DEF LeftAlone, DoomedForOthers, Above
<1> QED
  BY <1>5, <1>8 DEF LeftAlone

\* A pod that starts to run is as visible as before.
LEMMA RunSteady ==
    ASSUME TypeInv, Steady, LeftAlone, NEW p \in PodKeys, KubeletRuns(p)
    PROVE  LeftAlone'
<1>0. pods \in [PodKeys -> PodStates] /\ worker.victims \subseteq PodKeys
  BY DEF TypeInv, TypeOK
<1>1. /\ pods' = [pods EXCEPT ![p] = "Running"] /\ pods[p] = "Pending"
      /\ UNCHANGED <<rsConfig, rsEvents, runtimeRS, cp, worker, doomed, found>>
  BY DEF KubeletRuns, UploadPod
<1>2. ActivePods' = ActivePods
  BY <1>0, <1>1 DEF ActivePods
<1>3. Spared' = Spared
  BY <1>1, <1>2 DEF Spared, Staying
<1>4. \A q \in worker.victims : pods'[q] = "none" <=> pods[q] = "none"
  BY <1>0, <1>1
<1> QED
  BY <1>1, <1>2, <1>3, <1>4 DEF LeftAlone, OneNumber, OneKind, DoomedForOthers, None, Above

\* A pod that is removed was doomed: those that stay are the same.
LEMMA RemoveSteady ==
    ASSUME TypeInv, Steady, LeftAlone, NEW p \in PodKeys, KubeletDeletes(p)
    PROVE  LeftAlone'
<1>0. /\ pods \in [PodKeys -> PodStates] /\ worker.victims \subseteq PodKeys
  BY DEF TypeInv, TypeOK
<1>1. /\ pods' = [pods EXCEPT ![p] = "none"] /\ p \in doomed /\ doomed' = doomed \ {p}
      /\ UNCHANGED <<rsConfig, rsEvents, runtimeRS, cp, worker, found>>
  BY DEF KubeletDeletes
<1>2. ActivePods' = ActivePods \ {p}
  BY <1>0, <1>1 DEF ActivePods
<1>3. Spared' = Spared
  BY <1>1, <1>2 DEF Spared, Staying
<1>4. pods'[p] = "none" /\ \A q \in worker.victims : q # p => pods'[q] = pods[q]
  BY <1>0, <1>1
<1>5. OneNumber' /\ OneKind'
  BY <1>1 DEF LeftAlone, OneNumber, OneKind, None
<1>6. DoomedForOthers'
  BY <1>1, <1>2, <1>3, <1>4 DEF LeftAlone, DoomedForOthers, Above
<1> QED
  BY <1>5, <1>6 DEF LeftAlone

\* The handlers carry the one number on, or lose it.
LEMMA HandlersSteady ==
    ASSUME TypeInv, Steady, LeftAlone, AddRS \/ PodOperation \/ PodOperationPut
    PROVE  LeftAlone'
<1>1. UNCHANGED <<rsConfig, runtimeRS, worker, pods, doomed>>
  BY DEF AddRS, PodOperation, PodOperationPut
<1>2. None' = None
  BY DEF None
<1>3. OneNumber'
  <2>1. CASE AddRS
    <3>1. rsEvents \in Seq(Replicas) /\ rsEvents # <<>>
      BY <2>1 DEF AddRS, TypeInv, TypeOK
    <3>2. Head(rsEvents) = rsConfig
      BY <3>1 DEF LeftAlone, OneNumber
    <3>3. \A i \in DOMAIN Tail(rsEvents) : Tail(rsEvents)[i] = rsConfig
      BY <3>1 DEF LeftAlone, OneNumber
    <3> QED
      BY <1>1, <1>2, <2>1, <3>2, <3>3 DEF AddRS, LeftAlone, OneNumber
  <2>2. CASE PodOperation
    BY <1>1, <1>2, <2>2 DEF PodOperation, Requested, LeftAlone, OneNumber
  <2>3. CASE PodOperationPut
    BY <1>1, <1>2, <2>3 DEF PodOperationPut, LeftAlone, OneNumber
  <2> QED
    BY <2>1, <2>2, <2>3
<1>4. ActivePods' = ActivePods
  BY <1>1 DEF ActivePods
<1>5. Spared' = Spared
  BY <1>1, <1>4 DEF Spared, Staying
<1> QED
  BY <1>1, <1>3, <1>4, <1>5 DEF LeftAlone, OneKind, DoomedForOthers, Above

\* The worker that deletes spares enough pods of its list, and none of those it spares is
\* doomed already: those are too few places from the top for that.
LEMMA VictimsSteady ==
    ASSUME TypeInv, Steady, LeftAlone, worker.victims = {},
           Cardinality(ActivePods) > rsConfig,
           NEW V, V = PodsToDelete(ActivePods, Cardinality(ActivePods) - rsConfig)
    PROVE  /\ V \subseteq ActivePods
           /\ \A p \in doomed \cup V : Cardinality(Above(Staying \ V, p)) >= rsConfig
<1> DEFINE L == ActivePods
           T == L \ V
<1>0. rsConfig \in Nat
  BY NoneIsNone DEF TypeInv, TypeOK, Steady
<1>1. L \in SUBSET PodKeys /\ L \in SUBSET Nat
  BY RSAssumption DEF ActivePods
<1>2. IsFiniteSet(L)
  BY <1>1, RSAssumption, FS_Subset
<1>3. /\ V \subseteq L /\ Cardinality(T) >= rsConfig
      /\ \A v \in V, t \in T : v < t
      /\ \A t \in T : Cardinality(Above(L, t)) < rsConfig
  BY <1>0, <1>1, <1>2, VictimsAreLowest
<1> HIDE DEF L
<1>4. \A p \in doomed : p \in L /\ Cardinality(Above(Staying, p)) >= rsConfig
  <2>1. Spared = Staying
    BY DEF Spared
  <2> QED
    BY <2>1 DEF LeftAlone, DoomedForOthers, L
<1>5. ASSUME NEW t \in T, t \in doomed PROVE FALSE
  <2>1. Staying \in SUBSET L
    BY DEF Staying, L
  <2>2. Cardinality(Above(L, t)) >= rsConfig
    BY <1>0, <1>1, <1>4, <1>5, <2>1, MoreSpared
  <2>3. Cardinality(Above(L, t)) < rsConfig
    BY <1>3
  <2>4. Cardinality(Above(L, t)) \in Nat
    <3>1. Above(L, t) \in SUBSET L
      BY DEF Above
    <3> QED
      BY <1>2, <3>1, FS_Subset, FS_CardinalityType
  <2> QED
    BY <1>0, <2>2, <2>3, <2>4
<1>6. T \subseteq Staying \ V
  BY <1>5 DEF Staying, L
<1>7. doomed \subseteq V
  BY <1>4, <1>5
<1>8. ASSUME NEW p \in V PROVE Cardinality(Above(Staying \ V, p)) >= rsConfig
  <2>1. \A t \in T : t \in Nat /\ p \in Nat /\ p < t
    BY <1>1, <1>3
  <2>2. T \in SUBSET Above(Staying \ V, p)
    <3>1. \A t \in T : t > p
      BY <2>1
    <3> QED
      BY <1>6, <3>1 DEF Above
  <2>3. Above(Staying \ V, p) \in SUBSET PodKeys
    BY <1>1 DEF Above, Staying, L
  <2> HIDE DEF T
  <2> QED
    BY <1>0, <1>3, <2>2, <2>3, MorePods
<1> QED
  BY <1>3, <1>7, <1>8 DEF L

\* The worker lists what is visible, or nothing, and decides.
LEMMA ListSteady ==
    ASSUME TypeInv, Steady, LeftAlone, SyncList
    PROVE  LeftAlone'
<1>0. rsConfig \in Nat /\ doomed \subseteq PodKeys /\ worker.victims = {}
  BY NoneIsNone DEF TypeInv, TypeOK, Steady, SyncList, LeftAlone, OneKind
<1>1. UNCHANGED <<rsConfig, rsEvents, runtimeRS, cp, found, pods, doomed>>
  BY DEF SyncList
<1>2. PICK active \in {ActivePods, {}} : worker' = ManageReplicas(active, cp)
  BY DEF SyncList
<1>3. cp = rsConfig
  BY DEF SyncList, TypeInv, QueuedIsKnown, LeftAlone, OneNumber
<1>4. ActivePods' = ActivePods /\ Staying' = Staying
  BY <1>1 DEF ActivePods, Staying
<1> DEFINE n == Cardinality(active)
<1>5. n \in Nat
  <2>1. active \in SUBSET PodKeys
    BY DEF ActivePods
  <2> QED
    BY <2>1, RSAssumption, FS_Subset, FS_CardinalityType
<1>6. \/ worker' = Resting
      \/ n < cp /\ worker' = Syncing(cp, cp - n, {})
      \/ n > cp /\ worker' = Syncing(cp, 0, PodsToDelete(active, n - cp))
  BY <1>0, <1>2, <1>3, <1>5 DEF ManageReplicas
<1>7. OneNumber'
  BY <1>1, <1>3, <1>6, RestingTyped DEF LeftAlone, OneNumber, None, Syncing
<1>8. CASE worker'.victims = {}
  <2>1. Spared' = Staying /\ Spared = Staying
    BY <1>0, <1>4, <1>8 DEF Spared
  <2>2. DoomedForOthers'
    BY <1>0, <1>1, <1>4, <1>8, <2>1 DEF LeftAlone, DoomedForOthers, Above
  <2> QED
    BY <1>7, <1>8, <2>2 DEF LeftAlone, OneKind
<1>9. CASE n > cp /\ worker' = Syncing(cp, 0, PodsToDelete(active, n - cp))
  <2>1. active = ActivePods
    <3> SUFFICES ASSUME active = {} PROVE FALSE
      OBVIOUS
    <3>1. n = 0
      BY FS_EmptySet
    <3> QED
      BY <1>0, <1>3, <1>9, <3>1
  <2> DEFINE V == PodsToDelete(ActivePods, Cardinality(ActivePods) - rsConfig)
  <2>2. worker'.at = "manage" /\ worker'.more = 0 /\ worker'.victims = V
    BY <1>3, <1>9, <2>1 DEF Syncing
  <2>3. V \subseteq ActivePods
        /\ \A p \in doomed \cup V : Cardinality(Above(Staying \ V, p)) >= rsConfig
    BY <1>0, <1>3, <1>9, <2>1, VictimsSteady
  <2> HIDE DEF V
  <2>4. Spared' = Staying \ V
    BY <1>4, <2>2 DEF Spared
  <2>5. DoomedForOthers'
    BY <1>1, <1>4, <2>2, <2>3, <2>4 DEF LeftAlone, DoomedForOthers, Above
  <2> QED
    BY <1>7, <2>2, <2>5 DEF LeftAlone, OneKind
<1> QED
  BY <1>6, <1>8, <1>9, RestingTyped DEF Syncing

\* A pod that is created, or not, changes nothing a list shows.
LEMMA CreateSteady ==
    ASSUME TypeInv, Steady, LeftAlone, CreateRSPod
    PROVE  LeftAlone'
<1>0. pods \in [PodKeys -> PodStates] /\ worker \in WorkerType
  BY DEF TypeInv, TypeOK, WorkerType
<1>1. /\ worker.at = "manage" /\ worker.victims = {}
      /\ UNCHANGED <<rsConfig, rsEvents, runtimeRS, cp, found, doomed>>
  BY <1>0, RSAssumption DEF CreateRSPod, LeftAlone, OneKind
<1>2. worker'.at = "manage" /\ worker'.want = worker.want /\ worker'.victims = {}
  BY <1>0, <1>1 DEF CreateRSPod, WorkerType
<1>3. PICK p \in FreeKeys : pods' = [pods EXCEPT ![p] = "new"] \/ pods' = pods
  BY DEF CreateRSPod, Requested
<1>4. ActivePods' = ActivePods
  BY <1>0, <1>3 DEF ActivePods, FreeKeys
<1>5. Spared' = Spared
  BY <1>1, <1>2, <1>4 DEF Spared, Staying
<1>6. OneNumber' /\ OneKind'
  BY <1>1, <1>2 DEF LeftAlone, OneNumber, OneKind, None
<1>7. DoomedForOthers'
  BY <1>1, <1>2, <1>4, <1>5 DEF LeftAlone, DoomedForOthers, Above
<1> QED
  BY <1>6, <1>7 DEF LeftAlone

\* A victim that is asked to be deleted was not spared; one whose deletion fails is.
LEMMA DeleteSteady ==
    ASSUME TypeInv, Steady, LeftAlone, NEW p \in PodKeys, DeleteConfigPod(p)
    PROVE  LeftAlone'
<1>0. worker \in WorkerType /\ rsConfig \in Nat
  BY NoneIsNone DEF TypeInv, TypeOK, WorkerType, Steady
<1>1. /\ worker.at = "manage" /\ p \in worker.victims
      /\ UNCHANGED <<rsConfig, rsEvents, runtimeRS, cp, found, pods>>
  BY DEF DeleteConfigPod
<1>2. /\ worker'.at = "manage" /\ worker'.want = worker.want /\ worker'.more = worker.more
      /\ worker'.victims = worker.victims \ {p}
  BY <1>0, <1>1 DEF DeleteConfigPod, WorkerType
<1>3. \/ doomed' = doomed
      \/ doomed' = doomed \cup {p} /\ pods[p] # "none"
  BY DEF DeleteConfigPod, Requested
<1>4. ActivePods' = ActivePods
  BY <1>1 DEF ActivePods
<1>5. Spared \in SUBSET Spared' /\ Spared' \in SUBSET PodKeys
  BY <1>1, <1>2, <1>3, <1>4 DEF Spared, Staying, ActivePods
<1>6. OneNumber' /\ OneKind'
  BY <1>1, <1>2 DEF LeftAlone, OneNumber, OneKind, None
<1>7. \A q \in doomed' \cup worker'.victims : Cardinality(Above(Spared', q)) >= rsConfig
  BY <1>0, <1>1, <1>2, <1>3, <1>5, MoreSpared DEF LeftAlone, DoomedForOthers
<1>8. DoomedForOthers'
  BY <1>1, <1>2, <1>3, <1>4, <1>7 DEF LeftAlone, DoomedForOthers, Above
<1> QED
  BY <1>6, <1>8 DEF LeftAlone

\* The copy in etcd gets the one number, or keeps what it had.
LEMMA PutSteady ==
    ASSUME TypeInv, Steady, LeftAlone, PutReplicaSet
    PROVE  LeftAlone'
<1>1. worker.at = "manage" /\ worker.victims = {} /\ worker' = Resting
      /\ UNCHANGED <<rsConfig, rsEvents, cp, found, pods, doomed>>
  BY DEF PutReplicaSet
<1>2. runtimeRS' \in {None, rsConfig}
  BY <1>1 DEF PutReplicaSet, Requested, LeftAlone, OneNumber
<1>3. worker'.at = "idle" /\ worker'.victims = {}
  BY <1>1, RestingTyped
<1>4. OneNumber' /\ OneKind'
  BY <1>1, <1>2, <1>3 DEF LeftAlone, OneNumber, OneKind, None
<1>5. ActivePods' = ActivePods
  BY <1>1 DEF ActivePods
<1>6. Spared' = Spared
  BY <1>1, <1>3, <1>5 DEF Spared, Staying
<1>7. DoomedForOthers'
  BY <1>1, <1>3, <1>5, <1>6 DEF LeftAlone, DoomedForOthers, Above
<1> QED
  BY <1>4, <1>7 DEF LeftAlone

\* Every step keeps the invariant.
LEMMA SteadyStep == TypeInv /\ SteadyInv /\ [Next]_vars => SteadyInv'
<1> SUFFICES ASSUME TypeInv, Steady => LeftAlone, [Next]_vars, Steady'
             PROVE  LeftAlone'
  BY DEF SteadyInv
<1>1. CASE \E n \in Replicas \ {0} : ApplyRS(n)
  BY <1>1, ApplySteady
<1>2. CASE DeleteRS \/ DeleteRSForReal
  BY <1>2, NoneIsNone DEF DeleteRS, DeleteRSForReal, Steady, Replicas, None
<1>3. ASSUME NEW p \in PodKeys, UserDeletesPod(p) \/ PodDies(p) PROVE FALSE
  <2>1. upsets' = upsets + 1 /\ upsets \in Nat /\ upsets' = 0
    BY <1>3, RSAssumption DEF UserDeletesPod, PodDies, TypeInv, TypeOK, Steady
  <2> QED
    BY <2>1
<1>4. ASSUME NEW p \in PodKeys, Kubelets(p) PROVE LeftAlone'
  <2>1. Steady
    BY <1>4
       DEF Kubelets, KubeletStarts, KubeletRuns, KubeletDeletes, Steady, userVars, Replicas
  <2> QED
    BY <1>4, <2>1, StartSteady, RunSteady, RemoveSteady DEF Kubelets
<1>5. CASE AddRS \/ PodOperation \/ PodOperationPut
  <2>1. Steady
    BY <1>5 DEF AddRS, PodOperation, PodOperationPut, Steady, userVars, Replicas
  <2> QED
    BY <1>5, <2>1, HandlersSteady
<1>6. CASE Worker
  <2>1. Steady
    BY <1>6 DEF Worker, SyncList, CreateRSPod, DeleteConfigPod, PutReplicaSet, Steady, Replicas
  <2> QED
    BY <1>6, <2>1, ListSteady, CreateSteady, DeleteSteady, PutSteady DEF Worker
<1>7. CASE UNCHANGED vars
  <2>1. Steady
    BY <1>7 DEF vars, userVars, Steady, Replicas
  <2> QED
    BY <1>7, <2>1
       DEF vars, userVars, LeftAlone, OneNumber, OneKind, DoomedForOthers, Spared, Staying,
           ActivePods, Above, None
<1> QED
  BY <1>1, <1>2, <1>3, <1>4, <1>5, <1>6, <1>7 DEF Next

\* Left alone, the controller asks for the deletion of a pod only while enough others stay,
\* however stale the list of pods syncReplicaSet acts on is, in whatever order the kubelets
\* start and remove the pods and whichever requests fail.
THEOREM NeverBelowWanted == Spec => []NeverDeletesTooMany
<1>1. Init => SteadyInv
  <2>1. Init => ~Steady
    BY DEF Init, Steady
  <2> QED
    BY <2>1 DEF SteadyInv
<1>2. TypeInv /\ SteadyInv => NeverDeletesTooMany
  <2> SUFFICES ASSUME TypeInv, Steady, LeftAlone, NEW d \in doomed
               PROVE  Cardinality(Kept) >= rsConfig
    BY DEF SteadyInv, NeverDeletesTooMany
  <2>1. rsConfig \in Nat
    BY NoneIsNone DEF TypeInv, TypeOK, Steady
  <2>2. Cardinality(Above(Spared, d)) >= rsConfig
    BY DEF LeftAlone, DoomedForOthers
  <2>3. Above(Spared, d) \in SUBSET Kept /\ Kept \in SUBSET PodKeys
    BY DEF Above, Spared, Staying, ActivePods, Kept
  <2> QED
    BY <2>1, <2>2, <2>3, MorePods
<1> QED
  BY <1>1, <1>2, SteadyStep, TypeInvariant, PTL DEF Spec

=============================================================================
