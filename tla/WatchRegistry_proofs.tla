------------------------- MODULE WatchRegistry_proofs -------------------------
(***************************************************************************)
(* The registry of watches and the order of the events it passes on, for   *)
(* any number of clients, changes of the key, tickets and faults.          *)
(***************************************************************************)
EXTENDS WatchRegistry, FiniteSetTheorems, SequenceTheorems, TLAPS

-----------------------------------------------------------------------------
(* The invariant.                                                          *)

\* The types, with the queues as sequences of events that have happened.
Events(q) == \A i \in 1..Len(q) : q[i] \in 1..rev
ServerType ==
    /\ rev \in 0..MaxEvents /\ life \in 0..MaxFaults /\ sold \in 0..MaxTickets
    /\ daemon \in Tickets \cup {NoTicket}
    /\ watcher \in Watchers \cup {NoWatcher} /\ set \subseteq 1..MaxTickets /\ publisher \in BOOLEAN
EtcdType ==
    /\ etcdWatch \in [Watchers -> {"off", "starting", "on"}]
    /\ next \in [Watchers -> 0..MaxEvents + 1]
    /\ pipe \in [Watchers -> Seq(Nat)]
    /\ \A w \in Watchers : Events(pipe[w]) /\ (etcdWatch[w] = "on" => next[w] > 0)
ClientType ==
    /\ client \in [Clients -> {"idle", "ticketed", "subscribed", "unsubscribed", "withdrawn"}]
    /\ ticket \in [Clients -> Tickets \cup {NoTicket}]
    /\ last \in [Clients -> 0..MaxEvents]
    /\ queue \in [Clients -> Seq(Nat)]
    /\ \A c \in Clients : Events(queue[c])
HistoryType == leaked \subseteq Tickets /\ robbed \subseteq Clients /\ troubled \subseteq Clients
BoundsType ==
    asked \in 0..MaxTickets /\ faults \in 0..MaxFaults /\ sold <= asked /\ life <= faults
HoldersType == \A c \in Holders : ticket[c] \in Tickets
TypeInv == ServerType /\ EtcdType /\ ClientType /\ HistoryType /\ BoundsType /\ HoldersType

\* Watchers that run or drain; a new one is started for an asked ticket only.
Busy == {w \in Watchers : etcdWatch[w] # "off" \/ pipe[w] # <<>>}
Promised == IF daemon = NoTicket THEN 0 ELSE 1
EnoughWatchers == Cardinality(Busy) + Promised <= asked

\* The entry of the key is there while its set has a ticket, and only its watch runs.
EntryFits ==
    /\ set = {} <=> watcher = NoWatcher
    /\ \A w \in Watchers : etcdWatch[w] # "off" <=> w = watcher

\* A holder's ticket was sold by this run of the server or an earlier one.
TicketsOfPast ==
    \A c \in Holders : ticket[c].life <= life

\* The daemon's ticket is of this run, and somebody holds it or has given it up too early.
DaemonFits ==
    daemon # NoTicket =>
       /\ daemon.life = life
       /\ (\E c \in Holders : ticket[c] = daemon) \/ daemon \in leaked

RegistryInv == EnoughWatchers /\ EntryFits /\ TicketsOfPast /\ DaemonFits /\ TicketsMatchHolders

\* The sequence is a run of successive events, the last of them before top.
Runs(q, top) == \A i \in 1..Len(q) : q[i] + Len(q) + 1 = top + i

\* The events between etcd and the broker are the last ones yielded, in order.
PipeRuns ==
    \A w \in Watchers :
       /\ etcdWatch[w] = "starting" => pipe[w] = <<>>
       /\ etcdWatch[w] = "on" => Runs(pipe[w], next[w])

Watching == watcher # NoWatcher /\ etcdWatch[watcher] = "on"
\* The event the registered watcher publishes next.
Due == next[watcher] - Len(pipe[watcher])

\* The queue of an undisturbed client holds the events before that one, in order, and the last
\* one its handler has seen comes before them.
QueueRuns(c) ==
    \/ /\ Watching /\ Runs(queue[c], Due)
       /\ last[c] # 0 => last[c] + Len(queue[c]) + 1 = Due
    \/ queue[c] = <<>> /\ last[c] = 0

Undisturbed(c) == client[c] = "subscribed" /\ c \notin troubled \cup robbed
QueuesRun == \A c \in Clients : Undisturbed(c) => QueueRuns(c)
UnboundEmpty == \A c \in Clients \ Bound : queue[c] = <<>> /\ last[c] = 0
OrderInv == PipeRuns /\ QueuesRun /\ UnboundEmpty

-----------------------------------------------------------------------------
(* Types.                                                                  *)

\* TypeInv is stronger than TypeOK.
LEMMA TypeInvImplies == TypeInv => TypeOK
<1> SUFFICES ASSUME TypeInv PROVE TypeOK
  OBVIOUS
<1>1. \A w \in Watchers : \A i \in DOMAIN pipe[w] : pipe[w][i] \in 1..rev
  BY DEF TypeInv, EtcdType, Events
<1>2. \A c \in Clients : \A i \in DOMAIN queue[c] : queue[c][i] \in 1..rev
  BY DEF TypeInv, ClientType, Events
<1>3. QED
  BY <1>1, <1>2 DEF TypeInv, TypeOK, ServerType, EtcdType, ClientType, HistoryType

\* Appending an event that has happened.
LEMMA EventsAppend ==
    ASSUME NEW q \in Seq(Nat), Events(q), NEW e \in 1..rev
    PROVE  Append(q, e) \in Seq(Nat) /\ Events(Append(q, e))
BY DEF Events

\* Taking the first event of a sequence of events that have happened.
LEMMA EventsTail ==
    ASSUME NEW q \in Seq(Nat), Events(q), q # <<>>, rev \in Nat
    PROVE  Tail(q) \in Seq(Nat) /\ Events(Tail(q)) /\ Head(q) \in 1..rev
<1>1. /\ Len(q) \in Nat /\ Len(q) > 0 /\ Len(Tail(q)) = Len(q) - 1 /\ Head(q) = q[1]
      /\ \A i \in 1..Len(Tail(q)) : Tail(q)[i] = q[i + 1]
      /\ Tail(q) \in Seq(Nat)
  OBVIOUS
<1>2. \A i \in 1..Len(Tail(q)) : i + 1 \in 1..Len(q)
  BY <1>1
<1>3. 1 \in 1..Len(q)
  BY <1>1
<1>4. QED BY <1>1, <1>2, <1>3 DEF Events

\* Watchers are numbered, so there are as many as tickets.
LEMMA WatcherCount ==
    /\ IsFiniteSet(Watchers) /\ Cardinality(Watchers) = MaxTickets
    /\ IsFiniteSet(Busy) /\ Busy \subseteq Watchers /\ Cardinality(Busy) \in Nat
<1>1. 1 \in Int /\ MaxTickets \in Int /\ MaxTickets \in Nat
  BY WatchRegistryAssumption
<1>2. IsFiniteSet(Watchers) /\ Cardinality(Watchers) = MaxTickets
  <2>1. IsFiniteSet(1..MaxTickets) /\ Cardinality(1..MaxTickets) =
           IF 1 > MaxTickets THEN 0 ELSE MaxTickets - 1 + 1
    BY <1>1, FS_Interval
  <2>2. QED BY <1>1, <2>1 DEF Watchers
<1>3. Busy \subseteq Watchers
  BY DEF Busy
<1>4. IsFiniteSet(Busy)
  BY <1>2, <1>3, FS_Subset
<1>5. Cardinality(Busy) \in Nat
  BY <1>4, FS_CardinalityType
<1>6. QED BY <1>2, <1>3, <1>4, <1>5

\* When the daemon has a ticket to install, there is a watcher for it.
LEMMA FreeWatcher ==
    ASSUME TypeInv, EnoughWatchers, daemon # NoTicket
    PROVE  Free \in Watchers /\ etcdWatch[Free] = "off" /\ pipe[Free] = <<>>
<1>1. Cardinality(Busy) + 1 <= MaxTickets
  <2>1. Promised = 1 /\ asked \in Nat /\ asked <= MaxTickets
    BY WatchRegistryAssumption DEF Promised, TypeInv, BoundsType
  <2>2. QED BY <2>1, WatcherCount, WatchRegistryAssumption DEF EnoughWatchers
<1>2. Busy # Watchers
  BY <1>1, WatcherCount, WatchRegistryAssumption
<1>3. \E w \in Watchers : etcdWatch[w] = "off" /\ pipe[w] = <<>>
  BY <1>2 DEF Busy
<1>4. QED BY <1>3, Zenon DEF Free

\* The key changes: what had happened has happened still.
LEMMA ChangeKeyType == ASSUME TypeInv, ChangeKey PROVE TypeInv'
<1> USE DEF TypeInv, serverVars, etcdVars, clientVars, history, bounds, ChangeKey
<1>0. rev' = rev + 1 /\ rev \in 0..MaxEvents /\ rev < MaxEvents /\ MaxEvents \in Nat
  BY WatchRegistryAssumption DEF ServerType
<1>1. \A q : Events(q) => Events(q)'
  BY <1>0 DEF Events
<1>2. ServerType'
  BY <1>0 DEF ServerType
<1>3. EtcdType'
  BY <1>1 DEF EtcdType
<1>4. ClientType'
  BY <1>1 DEF ClientType
<1>5. QED BY <1>2, <1>3, <1>4 DEF HistoryType, BoundsType, HoldersType, Holders

\* An etcd watch starts, yields an event, and its event is published.
LEMMA PipelineType ==
    ASSUME TypeInv, NEW w \in Watchers, Pipeline(w)
    PROVE  TypeInv'
<1> USE DEF TypeInv, serverVars, etcdVars, clientVars, history, bounds
<1>0. rev \in 0..MaxEvents /\ MaxEvents \in Nat /\ pipe[w] \in Seq(Nat) /\ Events(pipe[w])
  BY WatchRegistryAssumption DEF ServerType, EtcdType
<1>1. CASE EtcdWatchStarts(w)
  <2>1. EtcdType'
    BY <1>0, <1>1 DEF EtcdWatchStarts, EtcdType, Events
  <2>2. QED
    BY <1>1, <2>1
    DEF EtcdWatchStarts, ServerType, ClientType, Events, HistoryType, BoundsType, HoldersType, Holders
<1>2. CASE EtcdYields(w)
  <2>1. next[w] \in 1..rev /\ next[w] + 1 \in 0..MaxEvents + 1
    BY <1>0, <1>2 DEF EtcdYields, EtcdType
  <2>2. Append(pipe[w], next[w]) \in Seq(Nat) /\ Events(Append(pipe[w], next[w]))
    BY <1>0, <2>1, EventsAppend
  <2>3. EtcdType'
    <3>1. pipe' = [pipe EXCEPT ![w] = Append(pipe[w], next[w])] /\ rev' = rev /\ etcdWatch' = etcdWatch
      BY <1>2 DEF EtcdYields
    <3>2. pipe' \in [Watchers -> Seq(Nat)] /\ \A v \in Watchers : Events(pipe[v])'
      BY <2>2, <3>1 DEF EtcdType, Events
    <3>3. next' \in [Watchers -> 0..MaxEvents + 1]
      BY <1>2, <2>1 DEF EtcdYields, EtcdType
    <3>4. \A v \in Watchers : etcdWatch'[v] = "on" => next'[v] > 0
      BY <1>2, <2>1 DEF EtcdYields, EtcdType
    <3>5. QED BY <3>1, <3>2, <3>3, <3>4 DEF EtcdType, Events
  <2>4. QED
    BY <1>2, <2>3
    DEF EtcdYields, ServerType, ClientType, Events, HistoryType, BoundsType, HoldersType, Holders
<1>3. CASE Publish(w)
  <2>1. Tail(pipe[w]) \in Seq(Nat) /\ Events(Tail(pipe[w])) /\ Head(pipe[w]) \in 1..rev
    BY <1>0, <1>3, EventsTail DEF Publish
  <2>2. EtcdType'
    <3>1. pipe' = [pipe EXCEPT ![w] = Tail(pipe[w])] /\ rev' = rev /\ etcdWatch' = etcdWatch /\ next' = next
      BY <1>3 DEF Publish
    <3>2. pipe' \in [Watchers -> Seq(Nat)] /\ \A v \in Watchers : Events(pipe[v])'
      BY <2>1, <3>1 DEF EtcdType, Events
    <3>3. QED BY <3>1, <3>2 DEF EtcdType, Events
  <2>3. ClientType'
    <3>1. /\ rev' = rev /\ client' = client /\ ticket' = ticket /\ last' = last
          /\ \/ queue' = queue
             \/ queue' = [c \in Clients |->
                     IF c \in Bound THEN Append(queue[c], Head(pipe[w])) ELSE queue[c]]
      BY <1>3 DEF Publish
    <3>2. \A c \in Clients : /\ Append(queue[c], Head(pipe[w])) \in Seq(Nat)
                             /\ Events(Append(queue[c], Head(pipe[w])))
      BY <2>1, EventsAppend DEF ClientType
    <3>3. queue' \in [Clients -> Seq(Nat)] /\ \A c \in Clients : Events(queue[c])'
      BY <3>1, <3>2 DEF ClientType, Events
    <3>4. QED BY <3>1, <3>3 DEF ClientType, Events
  <2>4. HistoryType'
    BY <1>3 DEF Publish, HistoryType, Bound
  <2>5. QED
    BY <1>3, <2>2, <2>3, <2>4 DEF Publish, ServerType, BoundsType, HoldersType, Holders
<1>4. QED BY <1>1, <1>2, <1>3 DEF Pipeline

\* A watch is asked for.
LEMMA PostWatchType == ASSUME TypeInv, NEW c \in Clients, PostWatch(c) PROVE TypeInv'
<1> USE DEF TypeInv, etcdVars, history
<1>0. /\ MaxTickets \in Nat /\ MaxFaults \in Nat /\ asked \in 0..MaxTickets /\ asked < MaxTickets
      /\ sold \in 0..MaxTickets /\ sold <= asked /\ life \in 0..MaxFaults
  BY WatchRegistryAssumption DEF ServerType, BoundsType, PostWatch
<1>1. [no |-> sold + 1, life |-> life] \in Tickets
  BY <1>0 DEF Tickets
<1>2. ServerType' /\ BoundsType'
  BY <1>0, <1>1 DEF PostWatch, ServerType, BoundsType
<1>3. ClientType'
  BY <1>1 DEF PostWatch, ClientType, Events
<1>4. EtcdType' /\ HistoryType'
  BY DEF PostWatch, EtcdType, HistoryType, Events
<1>5. HoldersType'
  BY <1>1 DEF PostWatch, ClientType, HoldersType, Holders
<1>6. QED BY <1>2, <1>3, <1>4, <1>5

\* The daemon installs a ticket.
LEMMA DaemonType == ASSUME TypeInv, EnoughWatchers, DaemonInstalls PROVE TypeInv'
<1> USE DEF TypeInv, clientVars, history, bounds
<1>1. daemon \in Tickets /\ daemon.no \in 1..MaxTickets
  BY DEF DaemonInstalls, ServerType, Tickets
<1>2. Free \in Watchers
  BY FreeWatcher DEF DaemonInstalls
<1>3. ServerType'
  BY <1>1, <1>2 DEF DaemonInstalls, ServerType
<1>4. EtcdType'
  <2>1. \/ etcdWatch' = etcdWatch
        \/ etcdWatch' = [etcdWatch EXCEPT ![Free] = "starting"]
    BY DEF DaemonInstalls
  <2>2. rev' = rev /\ next' = next /\ pipe' = pipe
    BY DEF DaemonInstalls
  <2>3. \A w \in Watchers : Events(pipe[w])'
    BY <2>2 DEF EtcdType, Events
  <2>4. /\ etcdWatch' \in [Watchers -> {"off", "starting", "on"}]
        /\ \A w \in Watchers : etcdWatch'[w] = "on" => etcdWatch[w] = "on"
    BY <1>2, <2>1 DEF EtcdType
  <2>5. QED BY <2>2, <2>3, <2>4 DEF EtcdType
<1>5. QED
  BY <1>3, <1>4
  DEF DaemonInstalls, ClientType, Events, HistoryType, BoundsType, HoldersType, Holders

\* Faults of the server and of its connection.
LEMMA FaultType ==
    ASSUME TypeInv, CutPublisher \/ ReconnectPublisher \/ RestartServer
    PROVE  TypeInv'
<1> USE DEF TypeInv, serverVars, etcdVars, clientVars, history, bounds
<1>0. /\ MaxTickets \in Nat /\ MaxFaults \in Nat /\ faults \in 0..MaxFaults /\ life \in 0..MaxFaults
      /\ life <= faults
  BY WatchRegistryAssumption DEF ServerType, BoundsType
<1>1. CASE CutPublisher \/ ReconnectPublisher
  <2>1. EtcdType' /\ ClientType' /\ HistoryType' /\ HoldersType'
    BY <1>1
    DEF CutPublisher, ReconnectPublisher, EtcdType, ClientType, Events, HistoryType, HoldersType, Holders
  <2>2. ServerType'
    BY <1>1 DEF CutPublisher, ReconnectPublisher, ServerType
  <2>3. BoundsType'
    BY <1>0, <1>1 DEF CutPublisher, ReconnectPublisher, BoundsType
  <2>4. QED BY <2>1, <2>2, <2>3
<1>2. CASE RestartServer
  <2>1. ServerType' /\ BoundsType'
    BY <1>0, <1>2 DEF RestartServer, ServerType, BoundsType
  <2>2. EtcdType'
    BY <1>2, WatchRegistryAssumption DEF RestartServer, EtcdType, Events
  <2>3. HistoryType'
    BY <1>2 DEF RestartServer, HistoryType, Bound
  <2>4. QED
    BY <1>2, <2>1, <2>2, <2>3 DEF RestartServer, ClientType, Events, HoldersType, Holders
<1>3. QED BY <1>1, <1>2

\* What a client does.
LEMMA ClientStepType ==
    ASSUME TypeInv, NEW c \in Clients,
           Subscribe(c) \/ SubscribeFails(c) \/ Receive(c) \/ Rebind(c) \/ Unsubscribe(c)
    PROVE  TypeInv'
<1> USE DEF TypeInv, serverVars, etcdVars, clientVars, history, bounds
<1>0. ServerType' /\ EtcdType' /\ rev' = rev /\ ticket' = ticket
  BY DEF Subscribe, SubscribeFails, Receive, Rebind, Unsubscribe, ServerType, EtcdType, Events
<1>a. BoundsType'
  <2>1. CASE Subscribe(c) \/ SubscribeFails(c) \/ Receive(c) \/ Unsubscribe(c)
    BY <2>1 DEF Subscribe, SubscribeFails, Receive, Unsubscribe, BoundsType
  <2>2. CASE Rebind(c)
    <3>1. MaxFaults \in Nat /\ faults \in 0..MaxFaults /\ faults < MaxFaults /\ faults' = faults + 1
      BY <2>2, WatchRegistryAssumption DEF Rebind, BoundsType
    <3>2. life \in Nat /\ life <= faults /\ UNCHANGED <<life, sold, asked>>
      BY <2>2, WatchRegistryAssumption DEF Rebind, BoundsType, ServerType
    <3>3. faults' \in 0..MaxFaults /\ life' <= faults'
      BY <3>1, <3>2
    <3>4. QED BY <3>2, <3>3 DEF BoundsType
  <2>3. QED BY <2>1, <2>2
<1>1. CASE Subscribe(c) \/ SubscribeFails(c)
  BY <1>0, <1>a, <1>1
  DEF Subscribe, SubscribeFails, ClientType, Events, HistoryType, HoldersType, Holders
<1>2. CASE Receive(c)
  <2>1. rev \in Nat /\ rev <= MaxEvents /\ MaxEvents \in Nat
    BY WatchRegistryAssumption DEF ServerType
  <2>2. Tail(queue[c]) \in Seq(Nat) /\ Events(Tail(queue[c])) /\ Head(queue[c]) \in 0..MaxEvents
    BY <1>2, <2>1, EventsTail DEF Receive, ClientType
  <2>3. queue' = [queue EXCEPT ![c] = Tail(queue[c])] /\ client' = client
    BY <1>2 DEF Receive
  <2>4. queue' \in [Clients -> Seq(Nat)] /\ \A d \in Clients : Events(queue[d])'
    BY <1>0, <2>2, <2>3 DEF ClientType, Events
  <2>5. last' \in [Clients -> 0..MaxEvents]
    BY <1>2, <2>2 DEF Receive, ClientType
  <2>6. ClientType'
    BY <1>0, <2>3, <2>4, <2>5 DEF ClientType, Events
  <2>7. QED
    BY <1>0, <1>a, <1>2, <2>6 DEF Receive, HistoryType, HoldersType, Holders
<1>3. CASE Unsubscribe(c)
  <2>1. ClientType'
    BY <1>0, <1>3, WatchRegistryAssumption DEF Unsubscribe, ClientType, Events
  <2>2. HistoryType'
    BY <1>3 DEF Unsubscribe, HistoryType
  <2>3. HoldersType'
    BY <1>0, <1>3 DEF Unsubscribe, ClientType, HoldersType, Holders, Bound
  <2>4. QED BY <1>0, <1>a, <2>1, <2>2, <2>3
<1>4. CASE Rebind(c)
  <2>1. ClientType'
    BY <1>0, <1>4 DEF Rebind, ClientType, Events
  <2>2. HistoryType' /\ HoldersType'
    BY <1>0, <1>4 DEF Rebind, HistoryType, HoldersType, Holders
  <2>3. QED BY <1>0, <1>a, <2>1, <2>2
<1>5. QED BY <1>1, <1>2, <1>3, <1>4

\* A client gives its ticket back.
LEMMA WithdrawType ==
    ASSUME TypeInv, NEW c \in Clients, Withdraw(c) \/ WithdrawFails(c)
    PROVE  TypeInv'
<1> USE DEF TypeInv, serverVars, etcdVars, bounds
<1>0. /\ rev' = rev /\ BoundsType' /\ GivenBack(c)
      /\ ticket[c] \in Tickets /\ MaxEvents \in Nat
  BY WatchRegistryAssumption
  DEF Withdraw, WithdrawFails, BoundsType, GivenBack, HoldersType, Holders
<1>1. ClientType' /\ HoldersType'
  BY <1>0 DEF Withdraw, WithdrawFails, GivenBack, ClientType, Events, HoldersType, Holders
<1>2. CASE Withdraw(c)
  <2>1. ServerType'
    BY <1>2 DEF Withdraw, WithdrawTicket, Remaining, ServerType
  <2>2. EtcdType'
    <3>1. \/ etcdWatch' = etcdWatch /\ next' = next
          \/ /\ watcher \in Watchers
             /\ etcdWatch' = [etcdWatch EXCEPT ![watcher] = "off"]
             /\ next' = [next EXCEPT ![watcher] = 0]
      BY <1>2 DEF Withdraw, WithdrawTicket, ServerType
    <3>2. /\ etcdWatch' \in [Watchers -> {"off", "starting", "on"}]
          /\ next' \in [Watchers -> 0..MaxEvents + 1]
      <4>1. 0 \in 0..MaxEvents + 1
        BY <1>0
      <4>2. QED BY <3>1, <4>1 DEF EtcdType
    <3>5. \A w \in Watchers : etcdWatch'[w] = "on" => next'[w] > 0
      <4>1. CASE etcdWatch' = etcdWatch /\ next' = next
        BY <4>1 DEF EtcdType
      <4>2. CASE /\ watcher \in Watchers
                 /\ etcdWatch' = [etcdWatch EXCEPT ![watcher] = "off"]
                 /\ next' = [next EXCEPT ![watcher] = 0]
        <5>1. \A w \in Watchers : etcdWatch'[w] = "on" => w # watcher /\ etcdWatch[w] = "on"
          BY <4>2 DEF EtcdType
        <5>2. \A w \in Watchers : w # watcher => next'[w] = next[w]
          BY <4>2 DEF EtcdType
        <5>3. QED BY <5>1, <5>2 DEF EtcdType
      <4>3. QED BY <3>1, <4>1, <4>2
    <3>3. pipe' = pipe /\ \A w \in Watchers : Events(pipe[w])'
      BY <1>0, <1>2 DEF Withdraw, EtcdType, Events
    <3>4. QED BY <3>2, <3>3, <3>5 DEF EtcdType
  <2>3. HistoryType'
    BY <1>0, <1>2 DEF Withdraw, WithdrawTicket, HistoryType, Bound, Holders
  <2>4. QED BY <1>0, <1>1, <2>1, <2>2, <2>3
<1>3. CASE WithdrawFails(c)
  BY <1>0, <1>1, <1>3 DEF WithdrawFails, ServerType, EtcdType, Events, HistoryType
<1>4. QED BY <1>2, <1>3

\* Next, step by step.
LEMMA NextSteps ==
    ASSUME [Next]_vars
    PROVE  \/ ChangeKey \/ CutPublisher \/ ReconnectPublisher \/ DaemonInstalls \/ RestartServer
           \/ \E w \in Watchers : EtcdWatchStarts(w) \/ EtcdYields(w) \/ Publish(w)
           \/ \E c \in Clients :
                 \/ PostWatch(c) \/ Subscribe(c) \/ SubscribeFails(c)
                 \/ Receive(c) \/ Rebind(c) \/ Unsubscribe(c) \/ Withdraw(c) \/ WithdrawFails(c)
           \/ UNCHANGED vars
BY DEF Next, Pipeline

\* Every step keeps the types.
LEMMA TypeNext == ASSUME TypeInv, EnoughWatchers, [Next]_vars PROVE TypeInv'
<1>1. CASE UNCHANGED vars
  BY <1>1
  DEF vars, serverVars, etcdVars, clientVars, history, bounds, TypeInv, ServerType, EtcdType, ClientType,
      Events, HistoryType, BoundsType, HoldersType, Holders
<1>2. QED
  BY <1>1, NextSteps, ChangeKeyType, PipelineType, PostWatchType, DaemonType, FaultType,
     ClientStepType, WithdrawType DEF Pipeline

\* Fewer busy watchers, no more tickets in the daemon's hands: there are enough still.
LEMMA EnoughFrame ==
    ASSUME EnoughWatchers, TypeInv, Busy' \subseteq Busy, Promised' <= Promised, asked' = asked
    PROVE  EnoughWatchers'
<1>1. /\ Cardinality(Busy') \in Nat /\ Cardinality(Busy) \in Nat
      /\ Cardinality(Busy') <= Cardinality(Busy)
  <2>1. IsFiniteSet(Busy) /\ Cardinality(Busy) \in Nat
    BY WatcherCount
  <2>2. IsFiniteSet(Busy') /\ Cardinality(Busy') <= Cardinality(Busy)
    BY <2>1, FS_Subset
  <2>3. QED BY <2>1, <2>2, FS_CardinalityType
<1>2. Promised \in {0, 1} /\ Promised' \in {0, 1} /\ asked \in Nat
  BY WatchRegistryAssumption DEF Promised, TypeInv, BoundsType
<1>3. QED BY <1>1, <1>2 DEF EnoughWatchers

\* Every step leaves enough watchers.
LEMMA EnoughNext == ASSUME TypeInv, EnoughWatchers, [Next]_vars PROVE EnoughWatchers'
<1> USE DEF serverVars, etcdVars, clientVars, history, bounds
<1>0. etcdWatch \in [Watchers -> {"off", "starting", "on"}] /\ pipe \in [Watchers -> Seq(Nat)]
  BY DEF TypeInv, EtcdType
<1>1. CASE ChangeKey \/ CutPublisher \/ ReconnectPublisher \/ UNCHANGED vars
  BY <1>1
  DEF EnoughWatchers, Busy, Promised, ChangeKey, CutPublisher, ReconnectPublisher, vars
<1>2. ASSUME NEW w \in Watchers, EtcdWatchStarts(w) \/ EtcdYields(w) \/ Publish(w)
      PROVE  EnoughWatchers'
  <2>1. daemon' = daemon /\ asked' = asked
    BY <1>2 DEF EtcdWatchStarts, EtcdYields, Publish
  <2>2. Busy' \subseteq Busy
    <3>1. CASE EtcdWatchStarts(w) \/ EtcdYields(w)
      BY <1>0, <3>1 DEF Busy, EtcdWatchStarts, EtcdYields
    <3>2. CASE Publish(w)
      BY <1>0, <3>2 DEF Busy, Publish
    <3>3. QED BY <1>2, <3>1, <3>2
  <2>3. Promised' <= Promised
    BY <2>1 DEF Promised
  <2>4. QED BY <2>1, <2>2, <2>3, EnoughFrame
<1>3. CASE DaemonInstalls
  <2>1. Free \in Watchers
    BY <1>3, FreeWatcher DEF DaemonInstalls
  <2>2. Busy' \subseteq Busy \cup {Free}
    BY <1>0, <1>3, <2>1 DEF DaemonInstalls, Busy
  <2>3. /\ IsFiniteSet(Busy) /\ Cardinality(Busy) \in Nat
    BY WatcherCount
  <2>4. /\ IsFiniteSet(Busy \cup {Free})
        /\ Cardinality(Busy \cup {Free}) <= Cardinality(Busy) + 1
        /\ Cardinality(Busy \cup {Free}) \in Nat
    <3>1. /\ IsFiniteSet(Busy \cup {Free})
          /\ Cardinality(Busy \cup {Free}) =
                IF Free \in Busy THEN Cardinality(Busy) ELSE Cardinality(Busy) + 1
      BY <2>3, FS_AddElement
    <3>2. QED BY <2>3, <3>1
  <2>5. Cardinality(Busy') <= Cardinality(Busy \cup {Free}) /\ Cardinality(Busy') \in Nat
    BY <2>2, <2>4, FS_Subset, FS_CardinalityType
  <2>6. Promised = 1 /\ Promised' = 0 /\ asked' = asked /\ asked \in Nat
    BY <1>3, WatchRegistryAssumption DEF DaemonInstalls, Promised, TypeInv, BoundsType
  <2>7. QED BY <2>3, <2>4, <2>5, <2>6 DEF EnoughWatchers
<1>4. CASE RestartServer
  <2>1. Busy' = {}
    BY <1>4 DEF RestartServer, Busy
  <2>2. Promised' = 0 /\ asked' = asked /\ asked \in Nat
    BY <1>4, WatchRegistryAssumption DEF RestartServer, Promised, TypeInv, BoundsType
  <2>3. Cardinality(Busy') = 0
    BY <2>1, FS_EmptySet
  <2>4. QED BY <2>2, <2>3 DEF EnoughWatchers
<1>5. ASSUME NEW c \in Clients, PostWatch(c) PROVE EnoughWatchers'
  <2>1. Busy' = Busy /\ asked' = asked + 1 /\ asked \in Nat /\ Promised = 0 /\ Promised' \in {0, 1}
    BY <1>5, WatchRegistryAssumption DEF PostWatch, Busy, Promised, TypeInv, BoundsType
  <2>2. Cardinality(Busy) \in Nat
    BY WatcherCount
  <2>3. QED BY <2>1, <2>2 DEF EnoughWatchers
<1>6. ASSUME NEW c \in Clients,
             \/ Subscribe(c) \/ SubscribeFails(c) \/ Receive(c) \/ Rebind(c) \/ Unsubscribe(c)
             \/ WithdrawFails(c)
      PROVE  EnoughWatchers'
  BY <1>6
  DEF EnoughWatchers, Busy, Promised, Subscribe, SubscribeFails, Receive, Rebind, Unsubscribe, WithdrawFails
<1>7. ASSUME NEW c \in Clients, Withdraw(c) PROVE EnoughWatchers'
  <2>1. daemon' = daemon /\ asked' = asked /\ pipe' = pipe
    BY <1>7 DEF Withdraw
  <2>2. etcdWatch' = etcdWatch \/ etcdWatch' = [etcdWatch EXCEPT ![watcher] = "off"]
    BY <1>7 DEF Withdraw, WithdrawTicket
  <2>3. Busy' \subseteq Busy
    BY <1>0, <2>1, <2>2 DEF Busy
  <2>4. Promised' <= Promised
    BY <2>1 DEF Promised
  <2>5. QED BY <2>1, <2>3, <2>4, EnoughFrame
<1>8. QED BY <1>1, <1>2, <1>3, <1>4, <1>5, <1>6, <1>7, NextSteps

-----------------------------------------------------------------------------
(* The registry.                                                           *)

\* The two halves of TicketsMatchHolders that the steps disturb.
InstalledInSet == \A c \in Clients : Installed(c) => ticket[c].no \in set
SetIsOwned ==
    \A no \in set : \/ \E c \in Holders : ticket[c] = [no |-> no, life |-> life]
                    \/ [no |-> no, life |-> life] \in leaked

\* They are all of it, since the entry is there and its watch runs while the set has a ticket.
LEMMA MatchHalves ==
    ASSUME TypeInv, EntryFits
    PROVE  TicketsMatchHolders <=> InstalledInSet /\ SetIsOwned
<1>1. watcher # NoWatcher => etcdWatch[watcher] \in {"starting", "on"}
  <2>1. watcher # NoWatcher => watcher \in Watchers
    BY DEF TypeInv, ServerType
  <2>2. watcher # NoWatcher => etcdWatch[watcher] # "off" /\ etcdWatch[watcher] \in {"off", "starting", "on"}
    BY <2>1 DEF EntryFits, TypeInv, EtcdType
  <2>3. QED BY <2>2
<1>2. set # {} => watcher # NoWatcher
  BY DEF EntryFits
<1>3. QED BY <1>1, <1>2 DEF TicketsMatchHolders, InstalledInSet, SetIsOwned

\* The same after a step.
LEMMA MatchHalvesNext ==
    TypeInv' /\ EntryFits' /\ InstalledInSet' /\ SetIsOwned' => TicketsMatchHolders'
<1>1. TypeInv /\ EntryFits /\ InstalledInSet /\ SetIsOwned => TicketsMatchHolders
  BY MatchHalves
<1>2. QED BY <1>1, PTL

\* No ticket is NoTicket.
LEMMA NoTicketIsNone == NoTicket \notin Tickets
<1>1. NoTicket.no = 0
  BY DEF NoTicket
<1>2. \A t \in Tickets : t.no # 0
  BY WatchRegistryAssumption DEF Tickets
<1>3. QED BY <1>1, <1>2

\* Steps that leave the registry, the tickets and who holds them alone.
LEMMA RegistryFrame ==
    ASSUME RegistryInv, EnoughWatchers',
           Holders' = Holders, ticket' = ticket, UNCHANGED <<serverVars, leaked, robbed>>,
           \A w \in Watchers : etcdWatch'[w] # "off" <=> etcdWatch[w] # "off",
           watcher # NoWatcher => (etcdWatch'[watcher] \in {"starting", "on"}
                                     <=> etcdWatch[watcher] \in {"starting", "on"})
    PROVE  RegistryInv'
<1> USE DEF RegistryInv, serverVars
<1>1. EntryFits'
  BY DEF EntryFits
<1>2. TicketsOfPast' /\ DaemonFits'
  BY DEF TicketsOfPast, DaemonFits
<1>3. TicketsMatchHolders'
  BY DEF TicketsMatchHolders, Installed
<1>4. QED BY <1>1, <1>2, <1>3

\* A ticket is given back.
LEMMA WithdrawRegistry ==
    ASSUME TypeInv, TypeInv', RegistryInv, EnoughWatchers', NEW c \in Clients, Withdraw(c)
    PROVE  RegistryInv'
<1> USE DEF RegistryInv
<1>0. /\ life' = life /\ daemon' = daemon /\ c \in Holders
      /\ Holders' = Holders \ {c} /\ \A d \in Holders \ {c} : ticket'[d] = ticket[d]
  BY DEF Withdraw, GivenBack, Holders, TypeInv, ClientType
<1>1. EntryFits'
  <2>1. CASE watcher = NoWatcher
    BY <2>1 DEF Withdraw, WithdrawTicket, EntryFits
  <2>2. CASE watcher # NoWatcher /\ set' = {}
    <3>1. watcher \in Watchers /\ watcher' = NoWatcher /\ etcdWatch' = [etcdWatch EXCEPT ![watcher] = "off"]
      BY <2>2 DEF Withdraw, WithdrawTicket, TypeInv, ServerType
    <3>2. \A w \in Watchers : w # NoWatcher
      BY WatchRegistryAssumption DEF Watchers, NoWatcher
    <3>3. \A w \in Watchers : etcdWatch'[w] = "off"
      BY <3>1 DEF EntryFits, TypeInv, EtcdType
    <3>4. QED BY <2>2, <3>1, <3>2, <3>3 DEF EntryFits
  <2>3. CASE watcher # NoWatcher /\ set' # {}
    BY <2>3 DEF Withdraw, WithdrawTicket, EntryFits
  <2>4. QED BY <2>1, <2>2, <2>3
<1>2. TicketsOfPast'
  BY <1>0 DEF TicketsOfPast
<1>3. /\ leaked \subseteq leaked'
      /\ daemon = ticket[c] => ticket[c] \in leaked'
      /\ robbed' = (robbed \cup {d \in Holders : ticket[d].no = ticket[c].no}) \ {c}
  BY DEF Withdraw, WithdrawTicket
<1>4. DaemonFits'
  BY <1>0, <1>3 DEF DaemonFits
<1>5. InstalledInSet /\ SetIsOwned
  BY MatchHalves
<1>6. set' = set \ {ticket[c].no} \/ (set' = set /\ set = {})
  BY DEF Withdraw, WithdrawTicket, Remaining, EntryFits
<1>7. \A d \in Clients : Installed(d)' =>
         Installed(d) /\ d \in Holders \ {c} /\ ticket[d].no # ticket[c].no
  BY <1>0, <1>3 DEF Installed
<1>8. InstalledInSet'
  BY <1>0, <1>5, <1>6, <1>7 DEF InstalledInSet
<1>9. SetIsOwned'
  <2> SUFFICES ASSUME NEW no \in set'
               PROVE  \/ \E d \in Holders' : ticket'[d] = [no |-> no, life |-> life']
                      \/ [no |-> no, life |-> life'] \in leaked'
    BY DEF SetIsOwned
  <2>1. no \in set /\ no # ticket[c].no
    BY <1>6
  <2>2. CASE [no |-> no, life |-> life] \in leaked
    BY <1>0, <1>3, <2>2
  <2>3. CASE \E d \in Holders : ticket[d] = [no |-> no, life |-> life]
    <3>1. PICK d \in Holders : ticket[d] = [no |-> no, life |-> life]
      BY <2>3
    <3>2. ticket[d].no = no
      BY <3>1
    <3>3. d \in Holders \ {c}
      BY <2>1, <3>2
    <3>4. QED BY <1>0, <3>1, <3>3
  <2>4. QED BY <1>5, <2>1, <2>2, <2>3 DEF SetIsOwned
<1>10. QED BY <1>1, <1>2, <1>4, <1>8, <1>9, MatchHalvesNext

\* The ticket's way back fails, and the set keeps it.
LEMMA WithdrawFailsRegistry ==
    ASSUME TypeInv, TypeInv', RegistryInv, EnoughWatchers', NEW c \in Clients, WithdrawFails(c)
    PROVE  RegistryInv'
<1> USE DEF RegistryInv, serverVars, etcdVars
<1>0. /\ UNCHANGED <<life, daemon, set, watcher, etcdWatch>> /\ c \in Holders
      /\ Holders' = Holders \ {c} /\ \A d \in Holders \ {c} : ticket'[d] = ticket[d]
      /\ leaked \subseteq leaked' /\ (ticket[c].life = life => ticket[c] \in leaked')
      /\ robbed' = robbed \ {c}
  BY DEF WithdrawFails, GivenBack, Holders, TypeInv, ClientType
<1>1. EntryFits' /\ TicketsOfPast'
  BY <1>0 DEF EntryFits, TicketsOfPast
<1>2. DaemonFits'
  BY <1>0 DEF DaemonFits
<1>3. InstalledInSet /\ SetIsOwned
  BY MatchHalves
<1>4. InstalledInSet'
  BY <1>0, <1>3 DEF InstalledInSet, Installed
<1>5. SetIsOwned'
  <2> SUFFICES ASSUME NEW no \in set
               PROVE  \/ \E d \in Holders' : ticket'[d] = [no |-> no, life |-> life]
                      \/ [no |-> no, life |-> life] \in leaked'
    BY <1>0 DEF SetIsOwned
  <2>1. CASE [no |-> no, life |-> life] \in leaked
    BY <1>0, <2>1
  <2>2. CASE \E d \in Holders : ticket[d] = [no |-> no, life |-> life]
    <3>1. PICK d \in Holders : ticket[d] = [no |-> no, life |-> life]
      BY <2>2
    <3>2. CASE d = c
      BY <1>0, <3>1, <3>2
    <3>3. CASE d # c
      BY <1>0, <3>1, <3>3
    <3>4. QED BY <3>2, <3>3
  <2>3. QED BY <1>3, <2>1, <2>2 DEF SetIsOwned
<1>6. QED BY <1>1, <1>2, <1>4, <1>5, MatchHalvesNext

\* The daemon adds its ticket to the set.
LEMMA DaemonRegistry ==
    ASSUME TypeInv, TypeInv', RegistryInv, EnoughWatchers', DaemonInstalls
    PROVE  RegistryInv'
<1> USE DEF RegistryInv, clientVars, history
<1>0. /\ UNCHANGED <<life, client, ticket, leaked, robbed>> /\ Holders' = Holders
      /\ daemon # NoTicket /\ daemon' = NoTicket
  BY DEF DaemonInstalls, Holders
<1>1. /\ Free \in Watchers /\ Free # NoWatcher
  BY FreeWatcher, WatchRegistryAssumption DEF DaemonInstalls, Watchers, NoWatcher
<1>2. EntryFits'
  <2>1. CASE watcher = NoWatcher
    <3>1. watcher' = Free /\ set' # {} /\ etcdWatch' = [etcdWatch EXCEPT ![Free] = "starting"]
      BY <2>1 DEF DaemonInstalls
    <3>2. \A w \in Watchers : etcdWatch[w] = "off"
      BY <2>1, WatchRegistryAssumption DEF EntryFits, Watchers, NoWatcher
    <3>3. \A w \in Watchers : etcdWatch'[w] # "off" <=> w = Free
      BY <1>1, <3>1, <3>2 DEF TypeInv, EtcdType
    <3>4. QED BY <1>1, <3>1, <3>3 DEF EntryFits
  <2>2. CASE watcher # NoWatcher
    BY <2>2 DEF DaemonInstalls, EntryFits
  <2>3. QED BY <2>1, <2>2
<1>3. TicketsOfPast' /\ DaemonFits'
  BY <1>0 DEF TicketsOfPast, DaemonFits
<1>4. InstalledInSet /\ SetIsOwned
  BY MatchHalves
<1>5. set' = set \cup {daemon.no}
  BY DEF DaemonInstalls, EntryFits
<1>6. InstalledInSet'
  BY <1>0, <1>4, <1>5 DEF InstalledInSet, Installed
<1>7. SetIsOwned'
  <2> SUFFICES ASSUME NEW no \in set'
               PROVE  \/ \E d \in Holders : ticket[d] = [no |-> no, life |-> life]
                      \/ [no |-> no, life |-> life] \in leaked
    BY <1>0 DEF SetIsOwned
  <2>1. CASE no \in set
    BY <1>4, <2>1 DEF SetIsOwned
  <2>2. CASE no = daemon.no
    <3>1. daemon \in Tickets /\ daemon.life = life
      BY <1>0 DEF TypeInv, ServerType, DaemonFits
    <3>2. daemon = [no |-> no, life |-> life]
      BY <2>2, <3>1 DEF Tickets
    <3>3. QED BY <1>0, <3>2 DEF DaemonFits
  <2>3. QED BY <1>5, <2>1, <2>2
<1>8. QED BY <1>2, <1>3, <1>6, <1>7, MatchHalvesNext

\* A ticket is sold; the daemon has it.
LEMMA PostWatchRegistry ==
    ASSUME TypeInv, TypeInv', RegistryInv, EnoughWatchers', NEW c \in Clients, PostWatch(c)
    PROVE  RegistryInv'
<1> USE DEF RegistryInv, etcdVars, history
<1>0. /\ UNCHANGED <<life, set, watcher, etcdWatch, leaked, robbed>>
      /\ c \notin Holders /\ Holders' = Holders \cup {c} /\ daemon = NoTicket
      /\ daemon' = [no |-> sold + 1, life |-> life] /\ ticket'[c] = daemon'
      /\ \A d \in Holders : ticket'[d] = ticket[d] /\ ticket[d] # NoTicket
  <2>1. \A d \in Holders : ticket[d] # NoTicket
    BY NoTicketIsNone DEF TypeInv, HoldersType
  <2>2. QED BY <2>1 DEF PostWatch, Holders, TypeInv, ClientType
<1>1. life \in Nat
  BY WatchRegistryAssumption DEF TypeInv, ServerType
<1>2. EntryFits'
  BY <1>0 DEF EntryFits
<1>3. TicketsOfPast' /\ DaemonFits'
  BY <1>0, <1>1 DEF TicketsOfPast, DaemonFits
<1>4. InstalledInSet /\ SetIsOwned
  BY MatchHalves
<1>5. InstalledInSet'
  BY <1>0, <1>4 DEF InstalledInSet, Installed
<1>6. SetIsOwned'
  BY <1>0, <1>4 DEF SetIsOwned
<1>7. QED BY <1>2, <1>3, <1>5, <1>6, MatchHalvesNext

\* The server starts again: nobody holds a ticket of its new run.
LEMMA RestartRegistry ==
    ASSUME TypeInv, TypeInv', RegistryInv, EnoughWatchers', RestartServer
    PROVE  RegistryInv'
<1> USE DEF RegistryInv, clientVars
<1>0. /\ life \in Nat /\ life' = life + 1 /\ set' = {} /\ watcher' = NoWatcher /\ daemon' = NoTicket
      /\ UNCHANGED <<client, ticket>> /\ Holders' = Holders
      /\ \A w \in Watchers : etcdWatch'[w] = "off" /\ w # NoWatcher
  BY WatchRegistryAssumption DEF RestartServer, TypeInv, ServerType, Holders, Watchers, NoWatcher
<1>1. EntryFits' /\ DaemonFits'
  BY <1>0 DEF EntryFits, DaemonFits
<1>2. \A c \in Holders : ticket[c].life \in Nat /\ ticket[c].life < life + 1
  BY <1>0, WatchRegistryAssumption DEF TicketsOfPast, TypeInv, HoldersType, Tickets
<1>3. TicketsOfPast'
  BY <1>0, <1>2 DEF TicketsOfPast
<1>4. InstalledInSet'
  BY <1>0, <1>2 DEF InstalledInSet, Installed
<1>5. SetIsOwned'
  BY <1>0 DEF SetIsOwned
<1>6. QED BY <1>1, <1>3, <1>4, <1>5, MatchHalvesNext

\* Every step keeps the registry's invariant.
LEMMA RegistryNext == ASSUME TypeInv, RegistryInv, [Next]_vars PROVE RegistryInv'
<1> USE DEF serverVars, etcdVars, clientVars, history, bounds
<1>0. TypeInv' /\ EnoughWatchers'
  BY TypeNext, EnoughNext DEF RegistryInv
<1>1. CASE ChangeKey \/ CutPublisher \/ ReconnectPublisher \/ UNCHANGED vars
  <2>1. Holders' = Holders
    BY <1>1 DEF ChangeKey, CutPublisher, ReconnectPublisher, vars, Holders
  <2>2. QED
    BY <1>0, <1>1, <2>1, RegistryFrame DEF ChangeKey, CutPublisher, ReconnectPublisher, vars
<1>2. ASSUME NEW w \in Watchers, EtcdWatchStarts(w) \/ EtcdYields(w) \/ Publish(w)
      PROVE  RegistryInv'
  <2>1. Holders' = Holders /\ ticket' = ticket /\ UNCHANGED <<serverVars, leaked, robbed>>
    BY <1>2 DEF EtcdWatchStarts, EtcdYields, Publish, Holders
  <2>2. \A v \in Watchers : /\ etcdWatch'[v] # "off" <=> etcdWatch[v] # "off"
                            /\ etcdWatch'[v] \in {"starting", "on"} <=> etcdWatch[v] \in {"starting", "on"}
    BY <1>2 DEF EtcdWatchStarts, EtcdYields, Publish, TypeInv, EtcdType
  <2>3. watcher # NoWatcher => watcher \in Watchers
    BY DEF TypeInv, ServerType
  <2>4. QED BY <1>0, <2>1, <2>2, <2>3, RegistryFrame
<1>3. ASSUME NEW c \in Clients,
             Subscribe(c) \/ SubscribeFails(c) \/ Receive(c) \/ Rebind(c) \/ Unsubscribe(c)
      PROVE  RegistryInv'
  <2>1. Holders' = Holders
    BY <1>3 DEF Subscribe, SubscribeFails, Receive, Rebind, Unsubscribe, Holders, Bound, TypeInv, ClientType
  <2>2. ticket' = ticket /\ etcdWatch' = etcdWatch /\ UNCHANGED <<serverVars, leaked, robbed>>
    BY <1>3 DEF Subscribe, SubscribeFails, Receive, Rebind, Unsubscribe
  <2>3. QED BY <1>0, <2>1, <2>2, RegistryFrame
<1>4. QED
  BY <1>0, <1>1, <1>2, <1>3, NextSteps, WithdrawRegistry, WithdrawFailsRegistry, DaemonRegistry,
     PostWatchRegistry, RestartRegistry

\* The first states have the types and an empty registry.
LEMMA RegistryInit == Init => TypeInv /\ RegistryInv
<1> SUFFICES ASSUME Init PROVE TypeInv /\ RegistryInv
  OBVIOUS
<1> USE WatchRegistryAssumption DEF Init
<1>1. Holders = {}
  BY DEF Holders
<1>2. ServerType /\ HistoryType /\ BoundsType /\ HoldersType
  BY <1>1 DEF ServerType, HistoryType, BoundsType, HoldersType
<1>3. EtcdType /\ ClientType
  BY DEF EtcdType, ClientType, Events
<1>4. TypeInv
  BY <1>2, <1>3 DEF TypeInv
<1>5. EnoughWatchers
  <2>1. Busy = {}
    BY DEF Busy
  <2>2. Cardinality(Busy) = 0 /\ Promised = 0
    BY <2>1, FS_EmptySet DEF Promised
  <2>3. QED BY <2>2 DEF EnoughWatchers
<1>6. EntryFits
  BY DEF EntryFits, Watchers, NoWatcher
<1>7. TicketsOfPast /\ DaemonFits
  BY <1>1 DEF TicketsOfPast, DaemonFits
<1>8. InstalledInSet /\ SetIsOwned
  BY <1>1 DEF InstalledInSet, SetIsOwned, Installed
<1>9. QED BY <1>4, <1>5, <1>6, <1>7, <1>8, MatchHalves DEF RegistryInv

\* The registry's invariant holds for ever.
LEMMA RegistryInvariant == Spec => [](TypeInv /\ RegistryInv)
<1>1. TypeInv /\ RegistryInv /\ [Next]_vars => (TypeInv /\ RegistryInv)'
  BY TypeNext, RegistryNext DEF RegistryInv
<1>2. QED BY <1>1, RegistryInit, PTL DEF Spec

\* Every variable of the watch registry has its type, whatever the server, the daemon, the
\* etcd watches, the publisher and the clients do; the daemon finds a watcher for each ticket.
THEOREM TypeCorrect == Spec => []TypeOK
BY RegistryInvariant, TypeInvImplies, PTL

\* The set of tickets is that of the holders: the etcd watch is kept while anybody holds a ticket
\* that the daemon has added (and no restarted server sold again), and the set keeps no ticket
\* without a holder but those whose withdrawal overtook the daemon or was lost.
THEOREM SetMatchesHolders == Spec => []TicketsMatchHolders
<1>1. RegistryInv => TicketsMatchHolders
  BY DEF RegistryInv
<1>2. QED BY <1>1, RegistryInvariant, PTL

-----------------------------------------------------------------------------
(* The order of the events.                                                *)

\* The next event continues a run.
LEMMA RunsAppend ==
    ASSUME NEW q \in Seq(Nat), NEW top \in Nat, Runs(q, top)
    PROVE  Runs(Append(q, top), top + 1) /\ Len(Append(q, top)) = Len(q) + 1
<1>1. /\ Len(q) \in Nat /\ Len(Append(q, top)) = Len(q) + 1
      /\ Append(q, top)[Len(q) + 1] = top
      /\ \A i \in 1..Len(q) : Append(q, top)[i] = q[i]
  OBVIOUS
<1> SUFFICES ASSUME NEW i \in 1..Len(q) + 1
             PROVE  Append(q, top)[i] + (Len(q) + 1) + 1 = (top + 1) + i
  BY <1>1 DEF Runs
<1>2. CASE i = Len(q) + 1
  BY <1>1, <1>2
<1>3. CASE i \in 1..Len(q)
  <2>1. q[i] \in Nat /\ q[i] + Len(q) + 1 = top + i
    BY <1>3 DEF Runs
  <2>2. QED BY <1>1, <1>3, <2>1
<1>4. QED BY <1>1, <1>2, <1>3

\* Without its first event it is one still, and the first event comes where it should.
LEMMA RunsTail ==
    ASSUME NEW q \in Seq(Nat), NEW top \in Int, Runs(q, top), q # <<>>
    PROVE  /\ Runs(Tail(q), top) /\ Len(Tail(q)) = Len(q) - 1 /\ Len(q) \in Nat \ {0}
           /\ Head(q) + Len(q) = top /\ Head(q) \in Nat
<1>1. /\ Len(q) \in Nat \ {0} /\ Len(Tail(q)) = Len(q) - 1
      /\ \A i \in 1..Len(q) - 1 : Tail(q)[i] = q[i + 1]
      /\ Head(q) = q[1] /\ 1 \in 1..Len(q)
  OBVIOUS
<1>2. Head(q) \in Nat /\ Head(q) + Len(q) + 1 = top + 1
  BY <1>1 DEF Runs
<1>3. ASSUME NEW i \in 1..Len(q) - 1
      PROVE  Tail(q)[i] + (Len(q) - 1) + 1 = top + i
  <2>1. i + 1 \in 1..Len(q) /\ q[i + 1] \in Nat
    BY <1>1
  <2>2. q[i + 1] + Len(q) + 1 = top + (i + 1)
    BY <2>1 DEF Runs
  <2>3. Tail(q)[i] = q[i + 1] /\ Len(q) \in Nat /\ i \in Nat
    BY <1>1
  <2> DEFINE x == q[i + 1]
             n == Len(q)
  <2>4. x \in Nat /\ n \in Nat /\ i \in Nat /\ x + n + 1 = top + (i + 1) /\ Tail(q)[i] = x
    BY <2>1, <2>2, <2>3
  <2> HIDE DEF x, n
  <2>5. x + (n - 1) + 1 = top + i
    BY <2>4
  <2>6. QED BY <2>4, <2>5 DEF n
<1>4. Runs(Tail(q), top)
  BY <1>1, <1>3 DEF Runs
<1>5. QED BY <1>1, <1>2, <1>4

\* What the provers need to know of the watcher: only its watch runs.
LEMMA TheWatcher ==
    ASSUME TypeInv, EntryFits, NEW w \in Watchers, etcdWatch[w] # "off"
    PROVE  /\ w = watcher /\ watcher # NoWatcher /\ watcher \in Watchers
           /\ next[w] \in Nat /\ pipe[w] \in Seq(Nat) /\ Len(pipe[w]) \in Nat
           /\ Due = next[w] - Len(pipe[w]) /\ Due \in Int
<1>1. w = watcher /\ w # NoWatcher
  BY WatchRegistryAssumption DEF EntryFits, Watchers, NoWatcher
<1>2. next[w] \in Nat /\ pipe[w] \in Seq(Nat)
  BY WatchRegistryAssumption DEF TypeInv, EtcdType
<1>3. QED BY <1>1, <1>2 DEF Due

\* Steps that leave the watch and the queues alone and unsettle no client.
LEMMA OrderFrame ==
    ASSUME OrderInv, TypeInv, UNCHANGED <<watcher, etcdWatch, next, pipe, queue, last>>,
           Bound' = Bound, \A c \in Clients : Undisturbed(c)' => Undisturbed(c)
    PROVE  OrderInv'
<1>1. PipeRuns'
  BY DEF OrderInv, PipeRuns, Runs
<1>2. QueuesRun'
  BY DEF OrderInv, QueuesRun, QueueRuns, Watching, Due, Runs
<1>3. UnboundEmpty'
  BY DEF OrderInv, UnboundEmpty
<1>4. QED BY <1>1, <1>2, <1>3 DEF OrderInv

\* A watch starts: no undisturbed client has seen anything of an earlier one.
LEMMA StartsOrder ==
    ASSUME OrderInv, TypeInv, RegistryInv, NEW w \in Watchers, EtcdWatchStarts(w)
    PROVE  OrderInv'
<1> USE DEF serverVars, clientVars, history
<1>0. /\ etcdWatch[w] = "starting" /\ etcdWatch' = [etcdWatch EXCEPT ![w] = "on"]
      /\ UNCHANGED <<watcher, pipe, client, queue, last, troubled, robbed>>
      /\ next' = [next EXCEPT ![w] = rev + 1]
  BY DEF EtcdWatchStarts
<1>1. w = watcher /\ ~Watching
  BY <1>0, TheWatcher DEF RegistryInv, Watching
<1>2. PipeRuns'
  <2>1. etcdWatch \in [Watchers -> {"off", "starting", "on"}] /\ next \in [Watchers -> 0..MaxEvents + 1]
    BY DEF TypeInv, EtcdType
  <2>2. Runs(<<>>, next'[w])
    BY DEF Runs
  <2>3. pipe[w] = <<>>
    BY <1>0 DEF OrderInv, PipeRuns
  <2>4. \A v \in Watchers : v # w => etcdWatch'[v] = etcdWatch[v] /\ next'[v] = next[v]
    BY <1>0, <2>1
  <2>5. QED BY <1>0, <2>1, <2>2, <2>3, <2>4 DEF OrderInv, PipeRuns, Runs
<1>3. \A c \in Clients : Undisturbed(c) => queue[c] = <<>> /\ last[c] = 0
  BY <1>1 DEF OrderInv, QueuesRun, QueueRuns
<1>4. QueuesRun'
  BY <1>0, <1>3 DEF QueuesRun, QueueRuns, Undisturbed
<1>5. UnboundEmpty'
  BY <1>0 DEF OrderInv, UnboundEmpty, Bound
<1>6. QED BY <1>2, <1>4, <1>5 DEF OrderInv

\* etcd yields the next event.
LEMMA YieldsOrder ==
    ASSUME OrderInv, TypeInv, RegistryInv, NEW w \in Watchers, EtcdYields(w)
    PROVE  OrderInv'
<1> USE DEF serverVars, clientVars, history
<1>0. /\ etcdWatch[w] = "on" /\ pipe' = [pipe EXCEPT ![w] = Append(pipe[w], next[w])]
      /\ UNCHANGED <<watcher, etcdWatch, client, queue, last, troubled, robbed>>
      /\ next' = [next EXCEPT ![w] = next[w] + 1]
      /\ next \in [Watchers -> 0..MaxEvents + 1] /\ pipe \in [Watchers -> Seq(Nat)]
  BY DEF EtcdYields, TypeInv, EtcdType
<1>1. /\ w = watcher /\ next[w] \in Nat /\ pipe[w] \in Seq(Nat) /\ Len(pipe[w]) \in Nat
  BY <1>0, TheWatcher DEF RegistryInv
<1>2. /\ Runs(Append(pipe[w], next[w]), next[w] + 1)
      /\ Len(Append(pipe[w], next[w])) = Len(pipe[w]) + 1
  BY <1>0, <1>1, RunsAppend DEF OrderInv, PipeRuns
<1>3. PipeRuns'
  <2>1. pipe'[w] = Append(pipe[w], next[w]) /\ next'[w] = next[w] + 1
    BY <1>0
  <2>2. \A v \in Watchers : v # w => pipe'[v] = pipe[v] /\ next'[v] = next[v]
    BY <1>0
  <2>3. QED BY <1>0, <1>2, <2>1, <2>2 DEF OrderInv, PipeRuns, Runs
<1>4. Due' = Due
  <2>1. Due' = (next[w] + 1) - (Len(pipe[w]) + 1)
    BY <1>0, <1>1, <1>2 DEF Due
  <2>2. QED BY <1>1, <2>1 DEF Due
<1>5. QueuesRun'
  BY <1>0, <1>4 DEF OrderInv, QueuesRun, QueueRuns, Undisturbed, Watching, Runs
<1>6. UnboundEmpty'
  BY <1>0 DEF OrderInv, UnboundEmpty, Bound
<1>7. QED BY <1>3, <1>5, <1>6 DEF OrderInv

\* An event is published: the registered watcher's is the one that is due.
LEMMA PublishOrder ==
    ASSUME OrderInv, TypeInv, RegistryInv, NEW w \in Watchers, Publish(w)
    PROVE  OrderInv'
<1> USE DEF serverVars
<1>0. /\ pipe[w] # <<>> /\ pipe' = [pipe EXCEPT ![w] = Tail(pipe[w])]
      /\ UNCHANGED <<watcher, etcdWatch, next, client, last, robbed>>
      /\ next \in [Watchers -> 0..MaxEvents + 1] /\ pipe \in [Watchers -> Seq(Nat)]
      /\ queue \in [Clients -> Seq(Nat)]
      /\ troubled \subseteq troubled'
  BY DEF Publish, TypeInv, EtcdType, ClientType
<1>1. etcdWatch[w] # "starting"
  BY <1>0 DEF OrderInv, PipeRuns
<1>2. etcdWatch[w] = "on" =>
         /\ w = watcher /\ next[w] \in Nat /\ pipe[w] \in Seq(Nat) /\ Len(pipe[w]) \in Nat
         /\ Runs(Tail(pipe[w]), next[w]) /\ Len(Tail(pipe[w])) = Len(pipe[w]) - 1
         /\ Head(pipe[w]) + Len(pipe[w]) = next[w] /\ Head(pipe[w]) \in Nat
  <2> SUFFICES ASSUME etcdWatch[w] = "on"
               PROVE  /\ w = watcher /\ next[w] \in Nat /\ pipe[w] \in Seq(Nat) /\ Len(pipe[w]) \in Nat
                      /\ Runs(Tail(pipe[w]), next[w]) /\ Len(Tail(pipe[w])) = Len(pipe[w]) - 1
                      /\ Head(pipe[w]) + Len(pipe[w]) = next[w] /\ Head(pipe[w]) \in Nat
    OBVIOUS
  <2>1. /\ w = watcher /\ next[w] \in Nat /\ pipe[w] \in Seq(Nat) /\ Len(pipe[w]) \in Nat
    BY TheWatcher DEF RegistryInv
  <2>2. Runs(pipe[w], next[w])
    BY DEF OrderInv, PipeRuns
  <2>3. QED BY <1>0, <2>1, <2>2, RunsTail
<1>3. PipeRuns'
  <2>1. pipe'[w] = Tail(pipe[w])
    BY <1>0
  <2>2. \A v \in Watchers : v # w => pipe'[v] = pipe[v]
    BY <1>0
  <2>3. QED BY <1>0, <1>1, <1>2, <2>1, <2>2 DEF OrderInv, PipeRuns, Runs
<1>4. UnboundEmpty'
  <2>1. Bound' = Bound /\ \A c \in Clients \ Bound : queue'[c] = queue[c]
    BY <1>0 DEF Publish, Bound
  <2>2. QED BY <1>0, <2>1 DEF OrderInv, UnboundEmpty
<1>5. QueuesRun'
  <2>1. CASE ~publisher \/ w # watcher
    <3>1. Bound \subseteq troubled'
      BY <2>1 DEF Publish
    <3>2. \A c \in Clients : ~Undisturbed(c)'
      BY <1>0, <3>1 DEF Undisturbed, Bound
    <3>3. QED BY <3>2 DEF QueuesRun
  <2>2. CASE publisher /\ w = watcher
    <3>0. watcher # NoWatcher /\ etcdWatch[w] = "on"
      BY <1>1, <2>2, WatchRegistryAssumption
      DEF RegistryInv, EntryFits, TypeInv, EtcdType, Watchers, NoWatcher
    <3>1. Watching /\ Watching'
      BY <1>0, <2>2, <3>0 DEF Watching
    <3>2. Due \in Nat /\ Head(pipe[w]) = Due
      BY <1>2, <2>2, <3>0 DEF Due
    <3>3. Due' = Due + 1
      <4>1. Due' = next[w] - (Len(pipe[w]) - 1)
        BY <1>0, <1>2, <2>2, <3>0 DEF Due
      <4>2. QED BY <1>2, <2>2, <3>0, <4>1 DEF Due
    <3> SUFFICES ASSUME NEW c \in Clients, Undisturbed(c)' PROVE QueueRuns(c)'
      BY DEF QueuesRun
    <3>4. c \in Bound /\ QueueRuns(c)
      BY <1>0 DEF Undisturbed, Bound, OrderInv, QueuesRun
    <3>5. queue'[c] = Append(queue[c], Due) /\ last'[c] = last[c] /\ queue[c] \in Seq(Nat)
      BY <1>0, <2>2, <3>2, <3>4 DEF Publish
    <3>6. Runs(queue[c], Due) /\ (last[c] # 0 => last[c] + Len(queue[c]) + 1 = Due)
      BY <3>4 DEF QueueRuns, Runs
    <3>7. Runs(Append(queue[c], Due), Due + 1) /\ Len(Append(queue[c], Due)) = Len(queue[c]) + 1
      BY <3>2, <3>5, <3>6, RunsAppend
    <3>8. last[c] # 0 => last[c] + (Len(queue[c]) + 1) + 1 = Due + 1
      <4>1. last[c] \in Nat /\ Len(queue[c]) \in Nat
        BY <3>5, WatchRegistryAssumption DEF TypeInv, ClientType
      <4>2. QED BY <3>2, <3>6, <4>1
    <3>9. QED BY <3>1, <3>3, <3>5, <3>7, <3>8 DEF QueueRuns, Runs
  <2>3. QED BY <2>1, <2>2
<1>6. QED BY <1>3, <1>4, <1>5 DEF OrderInv

\* The daemon's new watch finds no undisturbed client of an earlier one.
LEMMA DaemonOrder ==
    ASSUME OrderInv, TypeInv, RegistryInv, DaemonInstalls
    PROVE  OrderInv'
<1> USE DEF clientVars, history
<1>0. UNCHANGED <<next, pipe, client, queue, last, troubled, robbed>>
  BY DEF DaemonInstalls
<1>1. Free \in Watchers /\ etcdWatch[Free] = "off" /\ pipe[Free] = <<>>
  BY FreeWatcher DEF DaemonInstalls, RegistryInv
<1>2. CASE watcher = NoWatcher
  <2>1. etcdWatch' = [etcdWatch EXCEPT ![Free] = "starting"]
    BY <1>2 DEF DaemonInstalls
  <2>2. PipeRuns'
    <3>1. /\ etcdWatch'[Free] = "starting"
          /\ \A v \in Watchers : v # Free => etcdWatch'[v] = etcdWatch[v]
      BY <1>1, <2>1 DEF TypeInv, EtcdType
    <3>2. QED BY <1>0, <1>1, <3>1 DEF OrderInv, PipeRuns, Runs
  <2>3. QueuesRun'
    <3>1. ~Watching
      BY <1>2 DEF Watching
    <3>2. QED BY <1>0, <3>1 DEF OrderInv, QueuesRun, QueueRuns, Undisturbed
  <2>4. QED BY <1>0, <2>2, <2>3 DEF OrderInv, UnboundEmpty, Bound
<1>3. CASE watcher # NoWatcher
  <2>1. UNCHANGED <<watcher, etcdWatch>>
    BY <1>3 DEF DaemonInstalls
  <2>2. Bound' = Bound /\ \A c \in Clients : Undisturbed(c)' => Undisturbed(c)
    BY <1>0 DEF Bound, Undisturbed
  <2>3. QED BY <1>0, <2>1, <2>2, OrderFrame
<1>4. QED BY <1>2, <1>3

\* The watch is cancelled only when no undisturbed client is left.
LEMMA WithdrawOrder ==
    ASSUME OrderInv, TypeInv, RegistryInv, NEW c \in Clients, Withdraw(c)
    PROVE  OrderInv'
<1>0. UNCHANGED <<pipe, queue, last>>
  BY DEF Withdraw
<1>1. Bound' = Bound
  BY DEF Withdraw, GivenBack, Bound, TypeInv, ClientType
<1>2. troubled \subseteq troubled' /\ c \in Holders
      /\ robbed' = (robbed \cup {d \in Holders : ticket[d].no = ticket[c].no}) \ {c}
  BY DEF Withdraw, WithdrawTicket, GivenBack, Holders
<1>3. \A d \in Clients : Undisturbed(d)' =>
         /\ d # c /\ Undisturbed(d) /\ d \in Bound /\ d \in Holders
         /\ ticket[d].no # ticket[c].no
  <2>1. \A d \in Clients : client'[d] = "subscribed" => d # c /\ client[d] = "subscribed"
    BY DEF Withdraw, GivenBack, TypeInv, ClientType
  <2>2. QED BY <1>2, <2>1 DEF Undisturbed, Bound, Holders
<1>4. CASE UNCHANGED <<watcher, etcdWatch, next>>
  BY <1>0, <1>1, <1>3, <1>4, OrderFrame
<1>5. CASE /\ watcher # NoWatcher /\ set' = {} /\ set' = set \ {ticket[c].no}
           /\ etcdWatch' = [etcdWatch EXCEPT ![watcher] = "off"]
           /\ next' = [next EXCEPT ![watcher] = 0]
           /\ troubled' = troubled \cup {d \in Bound : ~Installed(d)}
  <2>1. \A d \in Clients : ~Undisturbed(d)'
    <3> SUFFICES ASSUME NEW d \in Clients, Undisturbed(d)' PROVE FALSE
      OBVIOUS
    <3>1. d \in Bound /\ d \notin troubled'
      BY <1>3 DEF Undisturbed
    <3>2. Installed(d)
      BY <1>5, <3>1
    <3>3. ticket[d].no \in set
      BY <3>2 DEF RegistryInv, TicketsMatchHolders
    <3>4. QED BY <1>3, <1>5, <3>3
  <2>2. watcher \in Watchers
    BY <1>5 DEF TypeInv, ServerType
  <2>3. PipeRuns'
    <3>1. /\ etcdWatch'[watcher] = "off"
          /\ \A v \in Watchers : v # watcher => etcdWatch'[v] = etcdWatch[v] /\ next'[v] = next[v]
      BY <1>5, <2>2 DEF TypeInv, EtcdType
    <3>2. QED BY <1>0, <3>1 DEF OrderInv, PipeRuns, Runs
  <2>4. QED BY <1>0, <1>1, <2>1, <2>3 DEF OrderInv, QueuesRun, UnboundEmpty
<1>6. QED BY <1>4, <1>5 DEF Withdraw, WithdrawTicket, Remaining

\* A restart disturbs every client with a queue.
LEMMA RestartOrder ==
    ASSUME OrderInv, TypeInv, RestartServer
    PROVE  OrderInv'
<1>1. /\ UNCHANGED <<client, queue, last, robbed>> /\ troubled' = troubled \cup Bound
      /\ etcdWatch' = [w \in Watchers |-> "off"]
  BY DEF RestartServer, clientVars
<1>2. \A c \in Clients : ~Undisturbed(c)'
  BY <1>1 DEF Undisturbed, Bound
<1>3. PipeRuns'
  BY <1>1 DEF PipeRuns
<1>4. QED BY <1>1, <1>2, <1>3 DEF OrderInv, QueuesRun, UnboundEmpty, Bound

\* A handler takes an event of its queue: the next one.
LEMMA ReceiveOrder ==
    ASSUME OrderInv, TypeInv, RegistryInv, NEW c \in Clients, Receive(c)
    PROVE  /\ OrderInv'
           /\ Undisturbed(c) /\ last[c] # 0 => last'[c] = last[c] + 1
<1> USE DEF serverVars, etcdVars, history
<1>0. /\ UNCHANGED <<watcher, etcdWatch, next, pipe, client, troubled, robbed>>
      /\ c \in Bound /\ queue[c] # <<>>
      /\ last' = [last EXCEPT ![c] = Head(queue[c])] /\ queue' = [queue EXCEPT ![c] = Tail(queue[c])]
      /\ queue \in [Clients -> Seq(Nat)] /\ last \in [Clients -> 0..MaxEvents]
  BY DEF Receive, TypeInv, ClientType
<1>1. PipeRuns'
  BY <1>0 DEF OrderInv, PipeRuns, Runs
<1>2. UnboundEmpty'
  BY <1>0 DEF OrderInv, UnboundEmpty, Bound
<1>3. Due' = Due /\ Watching' = Watching
  BY <1>0 DEF Due, Watching
<1>4. Undisturbed(c) =>
         /\ Watching /\ Runs(Tail(queue[c]), Due) /\ Due \in Int
         /\ Head(queue[c]) + Len(Tail(queue[c])) + 1 = Due
         /\ last[c] # 0 => Head(queue[c]) = last[c] + 1
  <2> SUFFICES ASSUME Undisturbed(c)
               PROVE  /\ Watching /\ Runs(Tail(queue[c]), Due) /\ Due \in Int
                      /\ Head(queue[c]) + Len(Tail(queue[c])) + 1 = Due
                      /\ last[c] # 0 => Head(queue[c]) = last[c] + 1
    OBVIOUS
  <2>1. Watching /\ Runs(queue[c], Due) /\ (last[c] # 0 => last[c] + Len(queue[c]) + 1 = Due)
    BY <1>0 DEF OrderInv, QueuesRun, QueueRuns
  <2>2. Due \in Int
    <3>1. watcher \in Watchers /\ etcdWatch[watcher] # "off"
      BY <2>1 DEF Watching, TypeInv, ServerType
    <3>2. QED BY <3>1, TheWatcher DEF RegistryInv
  <2>3. /\ Runs(Tail(queue[c]), Due) /\ Len(Tail(queue[c])) = Len(queue[c]) - 1
        /\ Len(queue[c]) \in Nat \ {0}
        /\ Head(queue[c]) + Len(queue[c]) = Due /\ Head(queue[c]) \in Nat
    BY <1>0, <2>1, <2>2, RunsTail
  <2>4. last[c] \in Nat
    BY <1>0, WatchRegistryAssumption
  <2>5. QED BY <2>1, <2>2, <2>3, <2>4
<1>5. QueuesRun'
  <2> SUFFICES ASSUME NEW d \in Clients, Undisturbed(d)' PROVE QueueRuns(d)'
    BY DEF QueuesRun
  <2>1. Undisturbed(d) /\ QueueRuns(d)
    BY <1>0 DEF Undisturbed, OrderInv, QueuesRun
  <2>2. CASE d = c
    <3>1. queue'[d] = Tail(queue[c]) /\ last'[d] = Head(queue[c])
      BY <1>0, <2>2
    <3>2. QED BY <1>3, <1>4, <2>1, <2>2, <3>1 DEF QueueRuns, Runs
  <2>3. CASE d # c
    <3>1. queue'[d] = queue[d] /\ last'[d] = last[d]
      BY <1>0, <2>3
    <3>2. QED BY <1>3, <2>1, <3>1 DEF QueueRuns, Runs
  <2>4. QED BY <2>2, <2>3
<1>6. last'[c] = Head(queue[c])
  BY <1>0
<1>7. QED BY <1>1, <1>2, <1>4, <1>5, <1>6 DEF OrderInv

\* A client whose queue is lost is disturbed, the others notice nothing.
LEMMA RebindOrder ==
    ASSUME OrderInv, TypeInv, NEW c \in Clients, Rebind(c)
    PROVE  OrderInv'
<1>1. /\ UNCHANGED <<watcher, etcdWatch, next, pipe, client, last, robbed>>
      /\ c \in Bound /\ queue' = [queue EXCEPT ![c] = <<>>] /\ troubled' = troubled \cup {c}
      /\ queue \in [Clients -> Seq(Nat)]
  BY DEF Rebind, serverVars, etcdVars, TypeInv, ClientType
<1>2. PipeRuns'
  BY <1>1 DEF OrderInv, PipeRuns, Runs
<1>3. QueuesRun'
  <2> SUFFICES ASSUME NEW d \in Clients, Undisturbed(d)' PROVE QueueRuns(d)'
    BY DEF QueuesRun
  <2>1. d # c /\ Undisturbed(d) /\ queue'[d] = queue[d]
    BY <1>1 DEF Undisturbed
  <2>2. QueueRuns(d)
    BY <2>1 DEF OrderInv, QueuesRun
  <2>3. QED BY <1>1, <2>1, <2>2 DEF QueueRuns, Watching, Due, Runs
<1>4. UnboundEmpty'
  BY <1>1 DEF OrderInv, UnboundEmpty, Bound
<1>5. QED BY <1>2, <1>3, <1>4 DEF OrderInv

\* A client that comes starts with an empty queue, and one that goes leaves one.
LEMMA ComeAndGoOrder ==
    ASSUME OrderInv, TypeInv, NEW c \in Clients,
           Subscribe(c) \/ SubscribeFails(c) \/ Unsubscribe(c)
    PROVE  OrderInv'
<1> USE DEF serverVars, etcdVars, history
<1>0. /\ UNCHANGED <<watcher, etcdWatch, next, pipe, robbed>>
      /\ client \in [Clients -> {"idle", "ticketed", "subscribed", "unsubscribed", "withdrawn"}]
      /\ queue \in [Clients -> Seq(Nat)] /\ last \in [Clients -> 0..MaxEvents]
  BY DEF Subscribe, SubscribeFails, Unsubscribe, TypeInv, ClientType
<1>1. \A d \in Clients : d # c =>
         /\ client'[d] = client[d] /\ queue'[d] = queue[d] /\ last'[d] = last[d]
         /\ d \in troubled <=> d \in troubled'
  BY <1>0 DEF Subscribe, SubscribeFails, Unsubscribe
<1>2. queue'[c] = <<>> /\ last'[c] = 0
  <2>1. CASE Subscribe(c) \/ SubscribeFails(c)
    <3>1. c \notin Bound /\ queue' = queue /\ last' = last
      BY <2>1 DEF Subscribe, SubscribeFails, Bound
    <3>2. QED BY <3>1 DEF OrderInv, UnboundEmpty
  <2>2. CASE Unsubscribe(c)
    BY <1>0, <2>2 DEF Unsubscribe
  <2>3. QED BY <2>1, <2>2
<1>3. PipeRuns'
  BY <1>0 DEF OrderInv, PipeRuns, Runs
<1>4. QueuesRun'
  <2> SUFFICES ASSUME NEW d \in Clients, Undisturbed(d)', d # c PROVE QueueRuns(d)'
    BY <1>2 DEF QueuesRun, QueueRuns
  <2>1. QueueRuns(d)
    BY <1>0, <1>1 DEF Undisturbed, OrderInv, QueuesRun
  <2>2. QED BY <1>0, <1>1, <2>1 DEF QueueRuns, Watching, Due, Runs
<1>5. UnboundEmpty'
  <2>1. \A d \in Clients : d # c => (d \in Bound' <=> d \in Bound)
    BY <1>1 DEF Bound
  <2>2. QED BY <1>1, <1>2, <2>1 DEF OrderInv, UnboundEmpty
<1>6. QED BY <1>3, <1>4, <1>5 DEF OrderInv

\* Every step keeps the order of the events.
LEMMA OrderNext == ASSUME OrderInv, TypeInv, RegistryInv, [Next]_vars PROVE OrderInv'
<1> USE DEF serverVars, etcdVars, clientVars, history
<1>1. CASE ChangeKey \/ CutPublisher \/ ReconnectPublisher \/ UNCHANGED vars
  <2>1. UNCHANGED <<watcher, etcdWatch, next, pipe, queue, last, client, troubled, robbed>>
    BY <1>1 DEF ChangeKey, CutPublisher, ReconnectPublisher, vars
  <2>2. Bound' = Bound /\ \A c \in Clients : Undisturbed(c)' => Undisturbed(c)
    BY <2>1 DEF Bound, Undisturbed
  <2>3. QED BY <2>1, <2>2, OrderFrame
<1>2. ASSUME NEW c \in Clients, PostWatch(c) \/ WithdrawFails(c) PROVE OrderInv'
  <2>1. UNCHANGED <<watcher, etcdWatch, next, pipe, queue, last, troubled>>
    BY <1>2 DEF PostWatch, WithdrawFails
  <2>2. Bound' = Bound
    BY <1>2 DEF PostWatch, WithdrawFails, GivenBack, Bound, TypeInv, ClientType
  <2>3. \A d \in Clients : Undisturbed(d)' => Undisturbed(d)
    BY <1>2 DEF PostWatch, WithdrawFails, GivenBack, Undisturbed, TypeInv, ClientType
  <2>4. QED BY <2>1, <2>2, <2>3, OrderFrame
<1>3. QED
  BY <1>1, <1>2, NextSteps, StartsOrder, YieldsOrder, PublishOrder, DaemonOrder, WithdrawOrder,
     RestartOrder, ReceiveOrder, RebindOrder, ComeAndGoOrder

\* At first nothing is on its way.
LEMMA OrderInit == Init => OrderInv
BY DEF Init, OrderInv, PipeRuns, QueuesRun, QueueRuns, UnboundEmpty

\* What a step gives a handler is the event after its last.
LEMMA OrderStep ==
    ASSUME OrderInv, TypeInv, RegistryInv, [Next]_vars, NEW c \in Clients,
           client[c] = "subscribed", last[c] # 0, last'[c] \notin {0, last[c]}
    PROVE  last'[c] = last[c] + 1 \/ c \in troubled \cup robbed
<1> USE DEF clientVars
<1>1. last \in [Clients -> 0..MaxEvents]
  BY DEF TypeInv, ClientType
<1>2. Receive(c)
  <2>1. ASSUME NEW d \in Clients, Receive(d) PROVE Receive(c)
    BY <1>1, <2>1 DEF Receive
  <2>2. ASSUME NEW d \in Clients, Unsubscribe(d) PROVE FALSE
    BY <1>1, <2>2 DEF Unsubscribe
  <2>3. ASSUME last' = last PROVE FALSE
    BY <2>3
  <2>4. ASSUME NEW w \in Watchers, EtcdWatchStarts(w) \/ EtcdYields(w) \/ Publish(w) PROVE last' = last
    BY <2>4 DEF EtcdWatchStarts, EtcdYields, Publish
  <2>5. ASSUME NEW d \in Clients,
               \/ PostWatch(d) \/ Subscribe(d) \/ SubscribeFails(d) \/ Rebind(d) \/ Withdraw(d)
               \/ WithdrawFails(d)
        PROVE  last' = last
    BY <2>5 DEF PostWatch, Subscribe, SubscribeFails, Rebind, Withdraw, WithdrawFails
  <2>6. ChangeKey \/ CutPublisher \/ ReconnectPublisher \/ DaemonInstalls \/ RestartServer
           \/ UNCHANGED vars => last' = last
    BY DEF ChangeKey, CutPublisher, ReconnectPublisher, DaemonInstalls, RestartServer, vars
  <2>7. QED BY <2>1, <2>2, <2>3, <2>4, <2>5, <2>6, NextSteps
<1>3. QED BY <1>2, ReceiveOrder DEF Undisturbed

\* A handler sees the events one after the other, none left out, none twice and none out of
\* order, unless a cancelled watcher's events, a failed publication, a restart of the server or a
\* drop of the client's own connection came between.
THEOREM EventsInOrder == Spec => InOrder
<1> DEFINE Inv == TypeInv /\ RegistryInv /\ OrderInv
           Step == \A c \in Clients :
                      client[c] = "subscribed" /\ last[c] # 0 /\ last'[c] \notin {0, last[c]} =>
                         last'[c] = last[c] + 1 \/ c \in troubled \cup robbed
<1>1. Init => Inv
  BY RegistryInit, OrderInit
<1>2. Inv /\ [Next]_vars => Inv'
  BY TypeNext, RegistryNext, OrderNext DEF RegistryInv
<1>3. Inv /\ [Next]_vars => Step
  BY OrderStep
<1>4. QED BY <1>1, <1>2, <1>3, PTL DEF Spec, InOrder

=============================================================================
