------------------------- MODULE PodDispatch_proofs -------------------------
(***************************************************************************)
(* What a kubelet that has caught up runs, for any number of nodes,        *)
(* clients, applies and deletions and any capacity of the updates channel. *)
(***************************************************************************)
EXTENDS PodDispatch, SequenceTheorems, TLAPS

LastOf(s) == s[Len(s)]

\* The last event a kubelet has yet to handle is the current configuration.
CurrentAt(n) == events[n] # <<>> => LastOf(events[n]) = podConfig
EventsCurrent == \A n \in Kubelets : CurrentAt(n)

Wanted(n) == podConfig.node = n /\ ~podConfig.deleted

\* Once the last event is handled, the current configuration is in the updates channel, in
\* the hands of the sync loop, or has been given to podManager, which took it or refused it.
InChannel(n) ==
    LastOf(updates[n]).op \in {"ADD", "UPDATE"} /\ LastOf(updates[n]).pod = podConfig
Handled(n) ==
    readd[n] = Absent /\ CheckIfPodExist(n) /\ (name2pod[n] = podConfig.ver \/ Err[n])
CarriedAt(n) ==
    events[n] = <<>> /\ Wanted(n) =>
       IF updates[n] # <<>> THEN InChannel(n)
       ELSE readd[n] = podConfig \/ Handled(n)
ConfigCarried == \A n \in Kubelets : CarriedAt(n)

DispatchInv == TypeOK /\ EventsCurrent /\ ConfigCarried

-----------------------------------------------------------------------------
(* Sequences.                                                              *)

\* Head and Tail of a non-empty queue of S.
LEMMA HeadTail ==
    ASSUME NEW S, NEW q \in Seq(S), q # <<>>
    PROVE  Head(q) \in S /\ Tail(q) \in Seq(S)
OBVIOUS

\* What is appended is last.
LEMMA LastOfAppend ==
    ASSUME NEW S, NEW q \in Seq(S), NEW e \in S
    PROVE  /\ Append(q, e) \in Seq(S) /\ Append(q, e) # <<>>
           /\ LastOf(Append(q, e)) = e
BY DEF LastOf

\* Taking the head leaves the last element, unless the head was the last.
LEMMA LastOfTail ==
    ASSUME NEW S, NEW q \in Seq(S), q # <<>>
    PROVE  /\ Tail(q) # <<>> => LastOf(Tail(q)) = LastOf(q)
           /\ Tail(q) = <<>> => Head(q) = LastOf(q)
<1>1. CASE Tail(q) # <<>>
  BY <1>1 DEF LastOf
<1>2. CASE Tail(q) = <<>>
  <2>1. Len(q) = 1
    <3>1. Len(q) \in Nat /\ Len(Tail(q)) = Len(q) - 1 /\ Tail(q) \in Seq(S)
      BY HeadTailProperties
    <3>2. Len(Tail(q)) = 0
      BY <1>2, <3>1, EmptySeq
    <3>3. \A k \in Nat : k - 1 = 0 => k = 1
      OBVIOUS
    <3>4. Len(q) - 1 = 0
      BY <3>1, <3>2, Zenon
    <3>5. QED BY <3>1, <3>3, <3>4, Zenon
  <2>2. QED BY <1>2, <2>1 DEF LastOf
<1>3. QED BY <1>1, <1>2

-----------------------------------------------------------------------------
(* Type correctness.                                                       *)

PodUpdate == [op : Ops, pod : Pod]

\* No pod is Absent, and no version of a pod is NotRunning.
LEMMA AbsentNotPod == Absent \notin Pod /\ \A p \in Pod : p.ver # NotRunning
<1>1. \A p \in Pod : p.ver \in Versions
  BY DEF Pod
<1>2. 0 \notin Versions /\ Absent.ver = 0
  BY DEF Versions, Absent
<1>3. QED BY <1>1, <1>2 DEF NotRunning

\* A put of a pod keeps etcd and the events well typed.
LEMMA StorePutType ==
    ASSUME TypeOK, NEW p \in Pod, StorePut(p)
    PROVE  podConfig' \in Pod \cup {Absent} /\ events' \in [Kubelets -> Seq(Pod)]
BY LastOfAppend DEF TypeOK, StorePut

\* podManager.AddPod keeps name2pod and Err well typed.
LEMMA AddPodType ==
    ASSUME TypeOK, NEW n \in Kubelets, NEW p \in Pod, AddPod(n, p)
    PROVE  name2pod' \in [Kubelets -> Versions \cup {NotRunning}] /\ Err' \in [Kubelets -> BOOLEAN]
<1>1. p.ver \in Versions
  BY DEF Pod
<1>2. CASE CheckIfPodExist(n)
  BY <1>2 DEF TypeOK, AddPod
<1>3. CASE ~CheckIfPodExist(n)
  BY <1>1, <1>3 DEF TypeOK, AddPod
<1>4. QED BY <1>2, <1>3

\* What the sync loop receives is an update, and so is what is left.
LEMMA ReceiveType ==
    ASSUME TypeOK, NEW n \in Kubelets, NEW op, Receive(n, op)
    PROVE  /\ Head(updates[n]) \in PodUpdate /\ Head(updates[n]).pod \in Pod
           /\ updates' \in [Kubelets -> Seq(PodUpdate)]
<1>1. updates[n] \in Seq(PodUpdate) /\ updates[n] # <<>>
  BY DEF TypeOK, Receive, PodUpdate
<1>2. Head(updates[n]) \in PodUpdate /\ Tail(updates[n]) \in Seq(PodUpdate)
  BY <1>1, HeadTail
<1>3. Head(updates[n]).pod \in Pod
  BY <1>2 DEF PodUpdate
<1>4. updates' \in [Kubelets -> Seq(PodUpdate)]
  BY <1>2 DEF TypeOK, Receive, PodUpdate
<1>5. QED BY <1>2, <1>3, <1>4

\* TypeOK holds at the start.
LEMMA TypeInit == Init => TypeOK
BY DispatchAssumption DEF Init, TypeOK

\* Every step keeps TypeOK.
LEMMA TypeNext == TypeOK /\ [Next]_vars => TypeOK'
<1> SUFFICES ASSUME TypeOK, [Next]_vars PROVE TypeOK'
  OBVIOUS
<1>1. ASSUME NEW c \in Clients, AddPodGet(c) PROVE TypeOK'
  <2>1. applies' \in 0..MaxApplies /\ applies + 1 \in Versions
    BY <1>1, DispatchAssumption DEF TypeOK, AddPodGet, Versions
  <2>2. podConfig.node \in NodeNames
    BY DEF TypeOK, Pod, Absent, NodeNames
  <2>3. [ver |-> applies + 1, node |-> podConfig.node, deleted |-> FALSE] \in Pod
    BY <2>1, <2>2 DEF Pod
  <2>4. request' \in [Clients -> Pod \cup {Absent}]
    BY <1>1, <2>3 DEF TypeOK, AddPodGet
  <2>5. QED BY <1>1, <2>1, <2>4 DEF TypeOK, AddPodGet, schedVars, kubeletVars
<1>2. ASSUME NEW c \in Clients, DeletePodGet(c) PROVE TypeOK'
  <2>1. podConfig \in Pod
    BY <1>2 DEF TypeOK, DeletePodGet
  <2>2. [podConfig EXCEPT !.deleted = TRUE] \in Pod
    BY <2>1 DEF Pod
  <2>3. request' \in [Clients -> Pod \cup {Absent}] /\ deletes' \in 0..MaxDeletes
    BY <1>2, <2>2, DispatchAssumption DEF TypeOK, DeletePodGet
  <2>4. QED BY <1>2, <2>3 DEF TypeOK, DeletePodGet, schedVars, kubeletVars
<1>3. ASSUME NEW c \in Clients, RequestPut(c) PROVE TypeOK'
  <2>1. request[c] \in Pod
    BY <1>3 DEF TypeOK, RequestPut
  <2>2. podConfig' \in Pod \cup {Absent} /\ events' \in [Kubelets -> Seq(Pod)]
    BY <1>3, <2>1, StorePutType DEF RequestPut
  <2>3. schedEvents' \in Seq(Pod) /\ request' \in [Clients -> Pod \cup {Absent}]
    BY <1>3, <2>1, LastOfAppend DEF TypeOK, RequestPut
  <2>4. QED BY <1>3, <2>2, <2>3 DEF TypeOK, RequestPut
<1>4. ASSUME NEW n \in Nodes, AddNode(n) PROVE TypeOK'
  BY <1>4 DEF TypeOK, AddNode, schedVars, kubeletVars
<1>5. CASE WatchNewPod
  <2>1. Head(schedEvents) \in Pod /\ schedEvents' \in Seq(Pod)
    BY <1>5, HeadTail DEF TypeOK, WatchNewPod
  <2>2. schedQueue' \in Seq(Pod)
    BY <1>5, <2>1, LastOfAppend DEF TypeOK, WatchNewPod
  <2>3. QED BY <1>5, <2>1, <2>2 DEF TypeOK, WatchNewPod, apiVars, kubeletVars
<1>6. CASE SchedulePod
  <2>1. Head(schedQueue) \in Pod /\ schedQueue' \in Seq(Pod)
    BY <1>6, HeadTail DEF TypeOK, SchedulePod
  <2>2. PICK host \in SelectHost(nodes) :
           LET pod == [Head(schedQueue) EXCEPT !.node = host]
           IN  StorePut(pod) /\ schedEvents' = Append(schedEvents, pod)
    BY <1>6 DEF SchedulePod
  <2> DEFINE pod == [Head(schedQueue) EXCEPT !.node = host]
  <2>3. host \in NodeNames
    BY DEF SelectHost, TypeOK, NodeNames
  <2>4. pod \in Pod
    BY <2>1, <2>3 DEF Pod
  <2>5. StorePut(pod) /\ schedEvents' = Append(schedEvents, pod)
    BY <2>2
  <2> HIDE DEF pod
  <2>6. podConfig' \in Pod \cup {Absent} /\ events' \in [Kubelets -> Seq(Pod)]
    BY <2>4, <2>5, StorePutType
  <2>7. schedEvents' \in Seq(Pod)
    BY <2>4, <2>5, LastOfAppend DEF TypeOK
  <2>8. QED BY <1>6, <2>1, <2>6, <2>7 DEF TypeOK, SchedulePod
<1>7. ASSUME NEW n \in Kubelets, WatchPod(n) PROVE TypeOK'
  <2> DEFINE pod == Head(events[n])
             up == [op |-> OpFor(n, pod), pod |-> pod]
  <2>1. pod \in Pod /\ Tail(events[n]) \in Seq(Pod)
    BY <1>7, HeadTail DEF TypeOK, WatchPod
  <2>2. events' \in [Kubelets -> Seq(Pod)]
    BY <1>7, <2>1 DEF TypeOK, WatchPod
  <2>3. updates' \in [Kubelets -> Seq(PodUpdate)]
    <3>1. CASE OpFor(n, pod) = "none"
      BY <1>7, <3>1 DEF TypeOK, WatchPod, PodUpdate
    <3>2. CASE OpFor(n, pod) # "none"
      <4>1. OpFor(n, pod) \in Ops
        BY <3>2 DEF OpFor, Ops
      <4>2. up \in PodUpdate
        BY <2>1, <4>1 DEF PodUpdate
      <4>3. updates' = [updates EXCEPT ![n] = Append(@, up)]
        BY <1>7, <3>2 DEF WatchPod
      <4>4. updates \in [Kubelets -> Seq(PodUpdate)]
        BY DEF TypeOK, PodUpdate
      <4> HIDE DEF up
      <4>5. QED BY <4>2, <4>3, <4>4, LastOfAppend
    <3>3. QED BY <3>1, <3>2
  <2>4. QED BY <1>7, <2>2, <2>3 DEF TypeOK, WatchPod, PodUpdate, apiVars, schedVars
<1>8. ASSUME NEW n \in Kubelets, HandlePodAdditions(n) PROVE TypeOK'
  <2>1. /\ Head(updates[n]).pod \in Pod /\ updates' \in [Kubelets -> Seq(PodUpdate)]
    BY <1>8, ReceiveType DEF HandlePodAdditions
  <2>2. /\ name2pod' \in [Kubelets -> Versions \cup {NotRunning}]
        /\ Err' \in [Kubelets -> BOOLEAN]
    BY <1>8, <2>1, AddPodType DEF HandlePodAdditions
  <2>3. QED
    BY <1>8, <2>1, <2>2 DEF TypeOK, HandlePodAdditions, Receive, PodUpdate, apiVars, schedVars
<1>9. ASSUME NEW n \in Kubelets, HandlePodUpdates(n) PROVE TypeOK'
  <2>1. Receive(n, "UPDATE")
    BY <1>9 DEF HandlePodUpdates
  <2>2. Head(updates[n]).pod \in Pod /\ updates' \in [Kubelets -> Seq(PodUpdate)]
    BY <2>1, ReceiveType
  <2>3. /\ name2pod' \in [Kubelets -> Versions \cup {NotRunning}]
        /\ readd' \in [Kubelets -> Pod \cup {Absent}]
    BY <1>9, <2>2 DEF TypeOK, HandlePodUpdates
  <2>4. Err' \in [Kubelets -> BOOLEAN]
    BY <1>9 DEF TypeOK, HandlePodUpdates
  <2>5. QED
    BY <2>1, <2>2, <2>3, <2>4 DEF TypeOK, Receive, PodUpdate, apiVars, schedVars
<1>10. ASSUME NEW n \in Kubelets, HandlePodUpdatesAdd(n) PROVE TypeOK'
  <2>1. readd[n] \in Pod
    BY <1>10 DEF TypeOK, HandlePodUpdatesAdd
  <2>2. /\ name2pod' \in [Kubelets -> Versions \cup {NotRunning}]
        /\ Err' \in [Kubelets -> BOOLEAN]
    BY <1>10, <2>1, AddPodType DEF HandlePodUpdatesAdd
  <2>3. readd' \in [Kubelets -> Pod \cup {Absent}]
    BY <1>10 DEF TypeOK, HandlePodUpdatesAdd
  <2>4. QED
    BY <1>10, <2>2, <2>3 DEF TypeOK, HandlePodUpdatesAdd, apiVars, schedVars
<1>11. ASSUME NEW n \in Kubelets, HandlePodRemoves(n) PROVE TypeOK'
  <2>1. Receive(n, "DELETE")
    BY <1>11 DEF HandlePodRemoves
  <2>2. updates' \in [Kubelets -> Seq(PodUpdate)]
    BY <2>1, ReceiveType
  <2>3. name2pod' \in [Kubelets -> Versions \cup {NotRunning}]
    BY <1>11 DEF TypeOK, HandlePodRemoves
  <2>4. QED
    BY <1>11, <2>1, <2>2, <2>3
    DEF TypeOK, HandlePodRemoves, Receive, PodUpdate, apiVars, schedVars
<1>12. CASE UNCHANGED vars
  BY <1>12 DEF TypeOK, vars, apiVars, schedVars, kubeletVars
<1>13. CASE SchedulePodFails
  <2>1. schedQueue' \in Seq(Pod)
    BY <1>13, HeadTail DEF TypeOK, SchedulePodFails
  <2>2. fails' \in 0..MaxFails
    BY <1>13, DispatchAssumption DEF TypeOK, SchedulePodFails
  <2>3. QED BY <1>13, <2>1, <2>2 DEF TypeOK, SchedulePodFails, apiVars, kubeletVars
<1>14. QED
  BY <1>1, <1>2, <1>3, <1>4, <1>5, <1>6, <1>7, <1>8, <1>9, <1>10, <1>11, <1>12, <1>13
  DEF Next, Kubelet

-----------------------------------------------------------------------------
(* The current configuration is not lost on its way to podManager.         *)

\* A kubelet nobody touched.
LEMMA Untouched ==
    ASSUME NEW n, podConfig' = podConfig, CurrentAt(n), CarriedAt(n),
           events'[n] = events[n], updates'[n] = updates[n], readd'[n] = readd[n],
           name2pod'[n] = name2pod[n], Err'[n] = Err[n]
    PROVE  CurrentAt(n)' /\ CarriedAt(n)'
BY DEF CurrentAt, CarriedAt, Wanted, InChannel, Handled, CheckIfPodExist

\* A kubelet that handles an update, and the others.
LEMMA OnlyOne ==
    ASSUME TypeOK, EventsCurrent, ConfigCarried, NEW n \in Kubelets,
           podConfig' = podConfig, CurrentAt(n)', CarriedAt(n)',
           \A m \in Kubelets \ {n} :
              /\ events'[m] = events[m] /\ updates'[m] = updates[m] /\ readd'[m] = readd[m]
              /\ name2pod'[m] = name2pod[m] /\ Err'[m] = Err[m]
    PROVE  EventsCurrent' /\ ConfigCarried'
<1>1. ASSUME NEW m \in Kubelets PROVE CurrentAt(m)' /\ CarriedAt(m)'
  <2>1. CASE m = n
    BY <2>1
  <2>2. CASE m # n
    BY <2>2, Untouched DEF EventsCurrent, ConfigCarried
  <2>3. QED BY <2>1, <2>2
<1>2. QED BY <1>1 DEF EventsCurrent, ConfigCarried

\* A put makes itself the last event of every kubelet.
LEMMA StorePutKeeps ==
    ASSUME TypeOK, NEW p \in Pod, StorePut(p)
    PROVE  EventsCurrent' /\ ConfigCarried'
<1>1. ASSUME NEW n \in Kubelets PROVE CurrentAt(n)' /\ CarriedAt(n)'
  <2>1. events[n] \in Seq(Pod)
    BY DEF TypeOK
  <2>2. events'[n] = Append(events[n], p) /\ podConfig' = p
    BY DEF StorePut
  <2>3. events'[n] # <<>> /\ LastOf(events'[n]) = p
    BY <2>1, <2>2, LastOfAppend
  <2>4. CurrentAt(n)'
    BY <2>2, <2>3 DEF CurrentAt, LastOf
  <2>5. QED BY <2>3, <2>4 DEF CarriedAt
<1>2. QED BY <1>1 DEF EventsCurrent, ConfigCarried

\* Handling an event puts a wanted configuration last in the updates channel.
LEMMA WatchPodKeeps ==
    ASSUME TypeOK, EventsCurrent, ConfigCarried, NEW n \in Kubelets, WatchPod(n)
    PROVE  EventsCurrent' /\ ConfigCarried'
<1> DEFINE pod == Head(events[n])
           up == [op |-> OpFor(n, pod), pod |-> pod]
<1>1. /\ events[n] \in Seq(Pod) /\ events[n] # <<>> /\ events'[n] = Tail(events[n])
      /\ updates[n] \in Seq(PodUpdate) /\ podConfig' = podConfig
  BY DEF TypeOK, WatchPod, PodUpdate, apiVars
<1>2. CurrentAt(n)'
  <2>1. LastOf(events[n]) = podConfig
    BY <1>1 DEF EventsCurrent, CurrentAt
  <2>2. Tail(events[n]) # <<>> => LastOf(Tail(events[n])) = LastOf(events[n])
    BY <1>1, LastOfTail
  <2>3. QED BY <1>1, <2>1, <2>2 DEF CurrentAt, LastOf
<1>3. CarriedAt(n)'
  <2> SUFFICES ASSUME Tail(events[n]) = <<>>, Wanted(n)
               PROVE  updates'[n] # <<>> /\ InChannel(n)'
    BY <1>1 DEF CarriedAt, Wanted
  <2>1. pod = podConfig /\ pod \in Pod
    BY <1>1, LastOfTail, HeadTail DEF EventsCurrent, CurrentAt
  <2>2. pod.node = n /\ ~pod.deleted /\ n # NoNode
    BY <2>1, DispatchAssumption DEF Wanted
  <2>3. OpFor(n, pod) \in {"ADD", "UPDATE"}
    <3> HIDE DEF pod
    <3>1. CASE CheckIfPodExist(n)
      BY <2>2, <3>1 DEF OpFor
    <3>2. CASE ~CheckIfPodExist(n)
      BY <2>2, <3>2 DEF OpFor
    <3>3. QED BY <3>1, <3>2
  <2>4. OpFor(n, pod) # "none"
    BY <2>3
  <2>5. updates' = [updates EXCEPT ![n] = Append(@, up)]
    BY <2>4 DEF WatchPod
  <2>6. up \in PodUpdate /\ up.op \in {"ADD", "UPDATE"} /\ up.pod = podConfig
    BY <2>1, <2>3 DEF PodUpdate, Ops
  <2> HIDE DEF up
  <2>7. updates'[n] = Append(updates[n], up)
    BY <2>5 DEF TypeOK
  <2>8. updates'[n] # <<>> /\ LastOf(updates'[n]) = up
    BY <1>1, <2>6, <2>7, LastOfAppend
  <2>9. QED BY <1>1, <2>6, <2>8 DEF InChannel, LastOf
<1>4. \A m \in Kubelets \ {n} :
         /\ events'[m] = events[m] /\ updates'[m] = updates[m] /\ readd'[m] = readd[m]
         /\ name2pod'[m] = name2pod[m] /\ Err'[m] = Err[m]
  BY DEF TypeOK, WatchPod
<1>5. QED BY <1>1, <1>2, <1>3, <1>4, OnlyOne

\* After a receive that leaves updates behind, the last of them is still there.
LEMMA ReceiveKeeps ==
    ASSUME TypeOK, EventsCurrent, ConfigCarried, NEW n \in Kubelets, NEW op, Receive(n, op)
    PROVE  /\ podConfig' = podConfig /\ events' = events /\ CurrentAt(n)'
           /\ updates'[n] = Tail(updates[n])
           /\ \A m \in Kubelets \ {n} : updates'[m] = updates[m]
           /\ updates'[n] # <<>> => CarriedAt(n)'
           /\ updates'[n] = <<>> /\ events[n] = <<>> /\ Wanted(n) =>
                 op \in {"ADD", "UPDATE"} /\ Head(updates[n]).pod = podConfig
<1>1. /\ updates[n] \in Seq(PodUpdate) /\ updates[n] # <<>> /\ Head(updates[n]).op = op
      /\ updates'[n] = Tail(updates[n]) /\ podConfig' = podConfig /\ events' = events
      /\ \A m \in Kubelets \ {n} : updates'[m] = updates[m]
  BY DEF TypeOK, Receive, PodUpdate, apiVars
<1>2. CurrentAt(n)'
  BY <1>1 DEF EventsCurrent, CurrentAt
<1>3. events[n] = <<>> /\ Wanted(n) => InChannel(n)
  BY <1>1 DEF ConfigCarried, CarriedAt
<1>4. ASSUME updates'[n] # <<>> PROVE CarriedAt(n)'
  <2>1. LastOf(updates'[n]) = LastOf(updates[n])
    BY <1>1, <1>4, LastOfTail
  <2>2. events[n] = <<>> /\ Wanted(n) => InChannel(n)'
    BY <1>1, <1>3, <2>1 DEF InChannel, LastOf
  <2>3. QED BY <1>1, <1>4, <2>2 DEF CarriedAt, Wanted
<1>5. ASSUME updates'[n] = <<>>, events[n] = <<>>, Wanted(n)
      PROVE  op \in {"ADD", "UPDATE"} /\ Head(updates[n]).pod = podConfig
  <2>1. Head(updates[n]) = LastOf(updates[n])
    BY <1>1, <1>5, LastOfTail
  <2>2. QED BY <1>1, <1>3, <1>5, <2>1 DEF InChannel
<1>6. QED BY <1>1, <1>2, <1>4, <1>5

\* podManager.AddPod ends with the pod running, in the given version or with an error.
LEMMA AddPodHandles ==
    ASSUME TypeOK, NEW n \in Kubelets, NEW p \in Pod, AddPod(n, p)
    PROVE  /\ name2pod'[n] # NotRunning /\ (name2pod'[n] = p.ver \/ Err'[n])
           /\ \A m \in Kubelets \ {n} : name2pod'[m] = name2pod[m] /\ Err'[m] = Err[m]
<1>1. p.ver # NotRunning
  BY AbsentNotPod
<1>2. CASE CheckIfPodExist(n)
  BY <1>2 DEF TypeOK, AddPod, CheckIfPodExist
<1>3. CASE ~CheckIfPodExist(n)
  BY <1>1, <1>3 DEF TypeOK, AddPod
<1>4. QED BY <1>2, <1>3

\* The sync loop's handlers hand the last update on to podManager.
LEMMA HandlersKeep ==
    ASSUME TypeOK, EventsCurrent, ConfigCarried, NEW n \in Kubelets,
           HandlePodAdditions(n) \/ HandlePodUpdates(n) \/ HandlePodUpdatesAdd(n)
              \/ HandlePodRemoves(n)
    PROVE  EventsCurrent' /\ ConfigCarried'
<1>1. CASE HandlePodAdditions(n)
  <2>1. Receive(n, "ADD") /\ AddPod(n, Head(updates[n]).pod) /\ readd' = readd
    BY <1>1 DEF HandlePodAdditions
  <2>2. /\ Head(updates[n]).pod \in Pod /\ podConfig' = podConfig /\ events' = events
        /\ CurrentAt(n)' /\ (updates'[n] # <<>> => CarriedAt(n)')
        /\ \A m \in Kubelets \ {n} : updates'[m] = updates[m]
        /\ updates'[n] = <<>> /\ events[n] = <<>> /\ Wanted(n)
              => Head(updates[n]).pod = podConfig
    BY <2>1, ReceiveType, ReceiveKeeps
  <2>3. /\ name2pod'[n] # NotRunning
        /\ name2pod'[n] = Head(updates[n]).pod.ver \/ Err'[n]
        /\ \A m \in Kubelets \ {n} : name2pod'[m] = name2pod[m] /\ Err'[m] = Err[m]
    BY <2>1, <2>2, AddPodHandles
  <2>4. readd'[n] = Absent
    BY <2>1 DEF Receive
  <2>5. CarriedAt(n)'
    BY <2>2, <2>3, <2>4 DEF CarriedAt, Handled, CheckIfPodExist, Wanted
  <2>6. QED BY <2>1, <2>2, <2>3, <2>5, OnlyOne
<1>2. CASE HandlePodUpdates(n)
  <2>1. Receive(n, "UPDATE")
    BY <1>2 DEF HandlePodUpdates
  <2>2. /\ podConfig' = podConfig /\ events' = events
        /\ CurrentAt(n)' /\ (updates'[n] # <<>> => CarriedAt(n)')
        /\ \A m \in Kubelets \ {n} : updates'[m] = updates[m]
        /\ updates'[n] = <<>> /\ events[n] = <<>> /\ Wanted(n)
              => Head(updates[n]).pod = podConfig
    BY <2>1, ReceiveKeeps
  <2>3. /\ readd'[n] = Head(updates[n]).pod
        /\ \A m \in Kubelets \ {n} :
              name2pod'[m] = name2pod[m] /\ Err'[m] = Err[m] /\ readd'[m] = readd[m]
    BY <1>2 DEF TypeOK, HandlePodUpdates
  <2>4. CarriedAt(n)'
    BY <2>2, <2>3 DEF CarriedAt, Wanted
  <2>5. QED BY <2>2, <2>3, <2>4, OnlyOne
<1>3. CASE HandlePodUpdatesAdd(n)
  <2>1. /\ readd[n] # Absent /\ readd[n] \in Pod /\ AddPod(n, readd[n])
        /\ readd'[n] = Absent /\ \A m \in Kubelets \ {n} : readd'[m] = readd[m]
        /\ podConfig' = podConfig /\ events' = events /\ updates' = updates
    BY <1>3 DEF TypeOK, HandlePodUpdatesAdd, apiVars
  <2>2. /\ name2pod'[n] # NotRunning
        /\ name2pod'[n] = readd[n].ver \/ Err'[n]
        /\ \A m \in Kubelets \ {n} : name2pod'[m] = name2pod[m] /\ Err'[m] = Err[m]
    BY <2>1, AddPodHandles
  <2>3. CurrentAt(n)'
    BY <2>1 DEF EventsCurrent, CurrentAt
  <2>4. CarriedAt(n)'
    <3>1. CarriedAt(n)
      BY DEF ConfigCarried
    <3>2. CASE updates[n] # <<>>
      BY <2>1, <3>1, <3>2 DEF CarriedAt, Wanted, InChannel
    <3>3. CASE updates[n] = <<>>
      BY <2>1, <2>2, <3>1, <3>3 DEF CarriedAt, Wanted, Handled, CheckIfPodExist
    <3>4. QED BY <3>2, <3>3
  <2>5. QED BY <2>1, <2>2, <2>3, <2>4, OnlyOne
<1>4. CASE HandlePodRemoves(n)
  <2>1. Receive(n, "DELETE") /\ readd' = readd /\ Err' = Err
    BY <1>4 DEF HandlePodRemoves
  <2>2. /\ podConfig' = podConfig /\ events' = events
        /\ CurrentAt(n)' /\ (updates'[n] # <<>> => CarriedAt(n)')
        /\ \A m \in Kubelets \ {n} : updates'[m] = updates[m]
        /\ ~(updates'[n] = <<>> /\ events[n] = <<>> /\ Wanted(n))
    BY <2>1, ReceiveKeeps
  <2>3. \A m \in Kubelets \ {n} : name2pod'[m] = name2pod[m]
    BY <1>4 DEF TypeOK, HandlePodRemoves
  <2>4. CarriedAt(n)'
    BY <2>2 DEF CarriedAt, Wanted
  <2>5. QED BY <2>1, <2>2, <2>3, <2>4, OnlyOne
<1>5. QED BY <1>1, <1>2, <1>3, <1>4

\* DispatchInv holds at the start.
LEMMA InvInit == Init => DispatchInv
<1> SUFFICES ASSUME Init PROVE DispatchInv
  OBVIOUS
<1>1. TypeOK
  BY TypeInit
<1>2. EventsCurrent
  BY DEF Init, EventsCurrent, CurrentAt
<1>3. ConfigCarried
  BY DispatchAssumption DEF Init, ConfigCarried, CarriedAt, Wanted, Absent
<1>4. QED BY <1>1, <1>2, <1>3 DEF DispatchInv

\* Every step keeps DispatchInv.
LEMMA InvNext == DispatchInv /\ [Next]_vars => DispatchInv'
<1> SUFFICES ASSUME TypeOK, EventsCurrent, ConfigCarried, [Next]_vars
             PROVE  EventsCurrent' /\ ConfigCarried'
  BY TypeNext DEF DispatchInv
<1>1. ASSUME podConfig' = podConfig, kubeletVars' = kubeletVars
      PROVE  EventsCurrent' /\ ConfigCarried'
  BY <1>1, Untouched DEF EventsCurrent, ConfigCarried, kubeletVars
<1>2. ASSUME NEW c \in Clients, AddPodGet(c) PROVE EventsCurrent' /\ ConfigCarried'
  BY <1>1, <1>2 DEF AddPodGet
<1>3. ASSUME NEW c \in Clients, DeletePodGet(c) PROVE EventsCurrent' /\ ConfigCarried'
  BY <1>1, <1>3 DEF DeletePodGet
<1>4. ASSUME NEW c \in Clients, RequestPut(c) PROVE EventsCurrent' /\ ConfigCarried'
  <2>1. request[c] \in Pod /\ StorePut(request[c])
    BY <1>4 DEF TypeOK, RequestPut
  <2>2. QED BY <2>1, StorePutKeeps
<1>5. ASSUME NEW n \in Nodes, AddNode(n) PROVE EventsCurrent' /\ ConfigCarried'
  BY <1>1, <1>5 DEF AddNode
<1>6. CASE WatchNewPod
  BY <1>1, <1>6 DEF WatchNewPod, apiVars
<1>7. CASE SchedulePod
  <2>1. Head(schedQueue) \in Pod
    BY <1>7, HeadTail DEF TypeOK, SchedulePod
  <2>2. PICK host \in SelectHost(nodes) : StorePut([Head(schedQueue) EXCEPT !.node = host])
    BY <1>7 DEF SchedulePod
  <2>3. host \in NodeNames
    BY DEF SelectHost, TypeOK, NodeNames
  <2>4. [Head(schedQueue) EXCEPT !.node = host] \in Pod
    BY <2>1, <2>3 DEF Pod
  <2>5. QED BY <2>2, <2>4, StorePutKeeps
<1>8. ASSUME NEW n \in Kubelets, Kubelet(n) PROVE EventsCurrent' /\ ConfigCarried'
  BY <1>8, WatchPodKeeps, HandlersKeep DEF Kubelet
<1>9. CASE SchedulePodFails
  BY <1>1, <1>9 DEF SchedulePodFails, apiVars
<1>10. CASE UNCHANGED vars
  BY <1>1, <1>10 DEF vars, apiVars
<1>11. QED
  BY <1>2, <1>3, <1>4, <1>5, <1>6, <1>7, <1>8, <1>9, <1>10 DEF Next

\* DispatchInv holds always.
LEMMA Invariance == Spec => []DispatchInv
BY InvInit, InvNext, PTL DEF Spec

-----------------------------------------------------------------------------
(* The theorems.                                                           *)

\* Every stored, requested, queued, delivered and re-added pod is one that a user applied,
\* with a known node or none: deletePod and schedulePod never put a pod that is not there.
THEOREM TypeCorrect == Spec => []TypeOK
<1>1. DispatchInv => TypeOK
  BY DEF DispatchInv
<1>2. QED BY <1>1, Invariance, PTL

\* A kubelet that has handled every event and every update runs the pod assigned to it,
\* whatever watchPod saw in podManager when it chose between ADD and UPDATE.
THEOREM AssignedRuns == Spec => []AssignedPodRuns
<1>1. DispatchInv => AssignedPodRuns
  <2> SUFFICES ASSUME DispatchInv, NEW n \in Kubelets, Settled(n), Wanted(n)
               PROVE  CheckIfPodExist(n)
    BY DEF AssignedPodRuns, Wanted
  <2>1. podConfig # Absent
    BY DispatchAssumption DEF Wanted, Absent
  <2>2. QED BY <2>1 DEF DispatchInv, ConfigCarried, CarriedAt, Handled, Settled
<1>2. QED BY <1>1, Invariance, PTL

\* A kubelet that has caught up and runs an outdated version has Kubelet.Err set: the only
\* way to lose an update is an ADD that podManager.AddPod refuses.
THEOREM LostUpdateReported == Spec => []LostUpdateLeavesError
<1>1. DispatchInv => LostUpdateLeavesError
  <2> SUFFICES ASSUME DispatchInv, NEW n \in Kubelets, Settled(n), Wanted(n),
                      name2pod[n] # podConfig.ver
               PROVE  Err[n]
    BY DEF LostUpdateLeavesError, Wanted
  <2>1. podConfig # Absent
    BY DispatchAssumption DEF Wanted, Absent
  <2>2. QED BY <2>1 DEF DispatchInv, ConfigCarried, CarriedAt, Handled, Settled
<1>2. QED BY <1>1, Invariance, PTL

=============================================================================
