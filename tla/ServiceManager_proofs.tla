------------------------ MODULE ServiceManager_proofs ------------------------
(***************************************************************************)
(* The Manager of pkg/service: its DnsAndTrans objects (Gateway) and its   *)
(* Services (ServiceController).                                           *)
(*                                                                         *)
(* What the user asked for last wins and is what the nodes serve, for any  *)
(* nodes and any number of versions, deletions and failures.  The entry of *)
(* a Service is what its RuntimeService has selected, for any pods and any *)
(* number of generations, deletions and failures.                          *)
(***************************************************************************)
EXTENDS Gateway, ServiceController, FiniteSetTheorems, WellFoundedInduction, TLAPS

-----------------------------------------------------------------------------
(* DnsAndTrans: the invariant.                                             *)

Versions == Nat \ {0}
Phases == {NoPhase, "FileCreated", "ServiceCreated"}
Objects == [phase : Phases \cup {"Delete"}, ver : Versions]
Created == [phase : {"FileCreated"}, ver : Versions]
Deploys == [do : {"rs", "service", "wait"}, d : Created]
Undeploys == [do : {"deleteService"}, d : [phase : {"Delete"}, ver : Versions]]

UserType ==
    /\ dns \in Objects \cup {None} /\ client \in [phase : Phases, ver : Versions] \cup {None}
    /\ asked \in [op : {"none", "apply", "delete", "kubectl"}, ver : Nat]
    /\ client # None => asked.op = "apply" /\ client.ver = asked.ver
    /\ lagged \in BOOLEAN /\ dropped \in BOOLEAN /\ removals \in Nat /\ refusals \in Nat
NodeType ==
    /\ toWriter \in [Nodes -> Seq(Objects)]
    /\ known \in [Nodes -> BOOLEAN] /\ core \in [Nodes -> BOOLEAN] /\ dir \in [Nodes -> Nat]
    /\ put \in [Nodes -> Created \cup {None}]
ManagerType ==
    /\ toManager \in Seq(Objects)
    /\ \A i \in DOMAIN toManager : toManager[i].phase \in {"FileCreated", "Delete"}
    /\ handler \in {Idle} \cup Deploys \cup Undeploys /\ name2Dns \in Created \cup {None}
    /\ gatewayRs \in BOOLEAN /\ service \in {"none", "applied", "again", "deleted"} /\ serviceUp \in BOOLEAN
GatewayTypeOK == UserType /\ NodeType /\ ManagerType

\* A node that serves anything knows the object, so that its deletion is not ignored.
ServedIsKnown == \A n \in Nodes : core[n] \/ dir[n] # 0 => known[n]

\* Nobody is on the way from the phase "" to FileCreated, or from there to ServiceCreated.
WritersDone == \A n \in Nodes : put[n] = None /\ ~Has(toWriter[n], NoPhase)
Deploying == handler.do \in {"rs", "service", "wait"}
ManagerDone == name2Dns = None /\ ~Deploying /\ ~Has(toManager, "FileCreated")

\* The last event of a phase is of the version v.
LastIs(events, p, v) ==
    \A i \in DOMAIN events :
       events[i].phase = p /\ (\A j \in DOMAIN events : j > i => events[j].phase # p)
          => events[i].ver = v

\* What a writer puts last is of the version applied last.
WritersPutLast ==
    \A n \in Nodes : /\ LastIs(toWriter[n], NoPhase, asked.ver)
                     /\ ~Has(toWriter[n], NoPhase) /\ put[n] # None => put[n].ver = asked.ver

\* Once the writers have put everything, what the manager puts last is of that version, too.
ManagerPutsLast ==
    WritersDone =>
       /\ LastIs(toManager, "FileCreated", asked.ver)
       /\ ~Has(toManager, "FileCreated") /\ Deploying => handler.d.ver = asked.ver
       /\ ~Has(toManager, "FileCreated") /\ ~Deploying /\ name2Dns # None => name2Dns.ver = asked.ver

\* Serving v is the last the writer of n has been told, or what it does.
Serves(n, v) ==
    \/ toWriter[n] = <<>> /\ core[n] /\ dir[n] = v
    \/ toWriter[n] # <<>> /\ toWriter[n][Len(toWriter[n])] = Dns("ServiceCreated", v)

\* Once the manager has put everything, the store has that version, deployed.
DeployedLast ==
    WritersDone /\ ManagerDone =>
       dns = Dns("ServiceCreated", asked.ver) /\ \A n \in Nodes : Serves(n, asked.ver)

\* The nginx directory (of version v now) is there, or will be: every deletion on the way is
\* followed by an apply.
Ready(events, v) ==
    /\ \A i \in DOMAIN events : events[i].phase = "Delete" =>
          \E j \in DOMAIN events : j > i /\ events[j].phase = NoPhase
    /\ ~Has(events, NoPhase) => v # 0
Prepared == \A n \in Nodes : Ready(toWriter[n], dir[n])

\* The writer of n has been told of the deletion last, or has carried it out.
Removed(n) ==
    \/ toWriter[n] = <<>> /\ ~core[n] /\ dir[n] = 0
    \/ toWriter[n] # <<>> /\ toWriter[n][Len(toWriter[n])].phase = "Delete"

\* How far the last request has come.
Progress ==
    /\ asked.op = "apply" /\ client = None => WritersPutLast /\ ManagerPutsLast /\ DeployedLast
    /\ asked.op = "apply" /\ (client = None \/ client.phase # NoPhase) => Prepared
    /\ asked.op = "delete" =>
          WritersDone /\ ManagerDone /\ dns.phase = "Delete" /\ \A n \in Nodes : Removed(n)
    /\ asked.op \in {"none", "kubectl"} => WritersDone /\ ManagerDone /\ dns = None
LastInv == ServedIsKnown /\ (~lagged /\ ~dropped => Progress)

-----------------------------------------------------------------------------
(* Events in sequence.                                                     *)

\* What an event that comes in changes.
LEMMA AppendFacts ==
    ASSUME NEW q \in Seq(Objects), NEW d \in Objects
    PROVE  /\ Append(q, d) \in Seq(Objects) /\ Append(q, d) # <<>>
           /\ Append(q, d)[Len(Append(q, d))] = d
           /\ \A p : Has(Append(q, d), p) <=> Has(q, p) \/ d.phase = p
           /\ \A p, v : d.phase = p /\ d.ver = v => LastIs(Append(q, d), p, v)
           /\ \A p, v : d.phase # p /\ LastIs(q, p, v) => LastIs(Append(q, d), p, v)
<1> DEFINE a == Append(q, d)
           l == Len(q)
<1>1. a \in Seq(Objects) /\ l \in Nat /\ Len(a) = l + 1 /\ DOMAIN a = 1..(l + 1) /\ DOMAIN q = 1..l
      /\ a[l + 1] = d /\ \A i \in 1..l : a[i] = q[i]
  OBVIOUS
<1> HIDE DEF a, l
<1>2. a # <<>>
  BY <1>1
<1>3. \A p : Has(a, p) <=> Has(q, p) \/ d.phase = p
  BY <1>1 DEF Has
<1>4. \A p, v : d.phase = p /\ d.ver = v => LastIs(a, p, v)
  <2> SUFFICES ASSUME NEW i \in DOMAIN a, \A j \in DOMAIN a : j > i => a[j].phase # d.phase
               PROVE  a[i].ver = d.ver
    BY DEF LastIs
  <2>1. i = l + 1
    BY <1>1
  <2> QED BY <1>1, <2>1
<1>5. \A p, v : d.phase # p /\ LastIs(q, p, v) => LastIs(a, p, v)
  <2> SUFFICES ASSUME NEW p, NEW v, d.phase # p, LastIs(q, p, v), NEW i \in DOMAIN a,
                      a[i].phase = p, \A j \in DOMAIN a : j > i => a[j].phase # p
               PROVE  a[i].ver = v
    BY DEF LastIs
  <2>1. i \in DOMAIN q /\ a[i] = q[i]
    BY <1>1
  <2>2. \A j \in DOMAIN q : j > i => q[j].phase # p
    BY <1>1
  <2> QED BY <2>1, <2>2 DEF LastIs
<1> QED BY <1>1, <1>2, <1>3, <1>4, <1>5 DEF a

\* What an event that is taken changes.
LEMMA TailFacts ==
    ASSUME NEW q \in Seq(Objects), q # <<>>
    PROVE  /\ Tail(q) \in Seq(Objects) /\ Head(q) \in Objects
           /\ Tail(q) = <<>> => q[Len(q)] = Head(q)
           /\ Tail(q) # <<>> => Tail(q)[Len(Tail(q))] = q[Len(q)]
           /\ \A p : Has(q, p) <=> Head(q).phase = p \/ Has(Tail(q), p)
           /\ \A p, v : LastIs(q, p, v) => LastIs(Tail(q), p, v)
           /\ \A p, v : LastIs(q, p, v) /\ Head(q).phase = p /\ ~Has(Tail(q), p) => Head(q).ver = v
<1> DEFINE a == Tail(q)
           l == Len(q)
<1>1. a \in Seq(Objects) /\ l \in Nat /\ l > 0 /\ Len(a) = l - 1 /\ DOMAIN a = 1..(l - 1) /\ DOMAIN q = 1..l
      /\ Head(q) = q[1] /\ (\A i \in 1..(l - 1) : a[i] = q[i + 1]) /\ Head(q) \in Objects
      /\ (a = <<>> <=> Len(a) = 0)
  <2>1. l \in Nat /\ l > 0 /\ DOMAIN q = 1..l /\ Head(q) = q[1] /\ Head(q) \in Objects
    OBVIOUS
  <2>2. a \in Seq(Objects) /\ Len(a) = l - 1 /\ DOMAIN a = 1..(l - 1)
    BY <2>1
  <2>3. \A i \in 1..(l - 1) : a[i] = q[i + 1]
    BY <2>1
  <2>4. a = <<>> <=> Len(a) = 0
    BY <2>2
  <2> QED BY <2>1, <2>2, <2>3, <2>4
<1> HIDE DEF a, l
<1>2. a = <<>> => q[l] = Head(q)
  BY <1>1
<1>3. a # <<>> => a[Len(a)] = q[l]
  <2> SUFFICES ASSUME a # <<>> PROVE a[l - 1] = q[l]
    BY <1>1
  <2>1. l - 1 \in 1..(l - 1) /\ (l - 1) + 1 = l
    BY <1>1
  <2> QED BY <1>1, <2>1
<1>4. \A p : Has(q, p) <=> Head(q).phase = p \/ Has(a, p)
  <2> SUFFICES ASSUME NEW p PROVE Has(q, p) <=> Head(q).phase = p \/ Has(a, p)
    OBVIOUS
  <2>1. ASSUME NEW i \in DOMAIN q, q[i].phase = p PROVE Head(q).phase = p \/ Has(a, p)
    <3>1. CASE i = 1
      BY <1>1, <2>1, <3>1
    <3>2. CASE i # 1
      <4>1. i - 1 \in DOMAIN a /\ (i - 1) + 1 = i
        BY <1>1, <3>2
      <4>2. a[i - 1] = q[i]
        BY <1>1, <4>1
      <4> QED BY <2>1, <4>1, <4>2 DEF Has
    <3> QED BY <3>1, <3>2
  <2>2. Head(q).phase = p => Has(q, p)
    BY <1>1 DEF Has
  <2>3. ASSUME NEW i \in DOMAIN a, a[i].phase = p PROVE Has(q, p)
    <3>1. i + 1 \in DOMAIN q /\ a[i] = q[i + 1]
      BY <1>1
    <3> QED BY <2>3, <3>1 DEF Has
  <2> QED BY <2>1, <2>2, <2>3 DEF Has
<1>5. \A p, v : LastIs(q, p, v) => LastIs(a, p, v)
  <2> SUFFICES ASSUME NEW p, NEW v, LastIs(q, p, v) PROVE LastIs(a, p, v)
    OBVIOUS
  <2> SUFFICES ASSUME NEW i \in DOMAIN a, a[i].phase = p, \A j \in DOMAIN a : j > i => a[j].phase # p
               PROVE  a[i].ver = v
    BY DEF LastIs
  <2>1. i + 1 \in DOMAIN q /\ a[i] = q[i + 1]
    BY <1>1
  <2>2. ASSUME NEW j \in DOMAIN q, j > i + 1 PROVE q[j].phase # p
    <3>1. j - 1 \in DOMAIN a /\ (j - 1) + 1 = j /\ j - 1 > i
      BY <1>1, <2>2
    <3>2. a[j - 1] = q[j]
      BY <1>1, <3>1
    <3> QED BY <3>1, <3>2
  <2> QED BY <2>1, <2>2 DEF LastIs
<1>6. \A p, v : LastIs(q, p, v) /\ Head(q).phase = p /\ ~Has(a, p) => Head(q).ver = v
  <2> SUFFICES ASSUME NEW p, NEW v, LastIs(q, p, v), Head(q).phase = p, ~Has(a, p) PROVE Head(q).ver = v
    OBVIOUS
  <2>1. ASSUME NEW j \in DOMAIN q, j > 1 PROVE q[j].phase # p
    <3>1. j - 1 \in DOMAIN a /\ (j - 1) + 1 = j
      BY <1>1, <2>1
    <3>2. a[j - 1] = q[j]
      BY <1>1, <3>1
    <3> QED BY <3>1, <3>2 DEF Has
  <2>2. 1 \in DOMAIN q
    BY <1>1
  <2> QED BY <1>1, <2>1, <2>2 DEF LastIs
<1> QED BY <1>1, <1>2, <1>3, <1>4, <1>5, <1>6 DEF a, l

\* What is not there has no last event.
LEMMA NoLast ==
    ASSUME NEW q, NEW p, NEW v, ~Has(q, p)
    PROVE  LastIs(q, p, v)
BY DEF Has, LastIs

-----------------------------------------------------------------------------
(* Types.                                                                  *)

\* Next, step by step.
LEMMA NextSteps ==
    ASSUME [GatewayNext]_gatewayVars
    PROVE  \/ UNCHANGED gatewayVars
           \/ Apply \/ ApplyStores \/ ApplyDelete \/ KubectlDelete
           \/ \E n \in Nodes : Writer(n) \/ WriterPuts(n)
           \/ WatchDnsAndTrans \/ AddConfigRs \/ UpdateService \/ PutName2Dns \/ DeleteGatewayService
           \/ CheckDnsAndTrans \/ ServiceFollows
BY DEF GatewayNext, ManagerStep

\* The empty phase is none of the others.
LEMMA UnsetFacts == NoPhase \notin {"none", "FileCreated", "ServiceCreated", "Delete", "kubectl"}
BY Zenon DEF NoPhase

\* The objects the handlers build.
LEMMA DnsFacts ==
    /\ \A p \in Phases \cup {"Delete"}, v \in Versions :
          /\ Dns(p, v) \in Objects /\ Dns(p, v).phase = p /\ Dns(p, v).ver = v /\ Dns(p, v) # None
          /\ p = "FileCreated" => Dns(p, v) \in Created
    /\ \A d \in Objects : d # None /\ d.phase \in Phases \cup {"Delete"} /\ d.ver \in Versions /\ d = Dns(d.phase, d.ver)
    /\ \A d \in Created : d # None /\ d \in Objects /\ d.phase = "FileCreated" /\ d.ver \in Versions
    /\ \A d \in [phase : Phases, ver : Versions] : d # None /\ d \in Objects /\ d.phase \in Phases /\ d.ver \in Versions
    /\ None.phase = "none"
<1>1. \A p \in Phases \cup {"Delete"}, v \in Versions :
          /\ Dns(p, v) \in Objects /\ Dns(p, v).phase = p /\ Dns(p, v).ver = v /\ Dns(p, v) # None
          /\ p = "FileCreated" => Dns(p, v) \in Created
  BY UnsetFacts DEF Dns, Objects, Created, None, Phases
<1>6. None.phase = "none"
  BY DEF None
<1>2. \A d \in Objects : d # None /\ d.phase \in Phases \cup {"Delete"} /\ d.ver \in Versions
  <2>1. \A d \in Objects : d.phase \in Phases \cup {"Delete"} /\ d.ver \in Versions
    BY DEF Objects
  <2>2. "none" \notin Phases \cup {"Delete"}
    BY UnsetFacts DEF Phases
  <2> QED BY <2>1, <2>2, <1>6
<1>3. \A d \in Objects : d = Dns(d.phase, d.ver)
  BY DEF Objects, Dns
<1>4. \A d \in Created : d # None /\ d \in Objects /\ d.phase = "FileCreated" /\ d.ver \in Versions
  <2>1. \A d \in Created : d \in Objects /\ d.phase = "FileCreated" /\ d.ver \in Versions
    BY UnsetFacts DEF Created, Objects, Phases
  <2> QED BY <2>1, <1>2
<1>5. \A d \in [phase : Phases, ver : Versions] : d # None /\ d \in Objects /\ d.phase \in Phases /\ d.ver \in Versions
  <2>1. \A d \in [phase : Phases, ver : Versions] : d \in Objects /\ d.phase \in Phases /\ d.ver \in Versions
    BY DEF Objects
  <2> QED BY <2>1, <1>2
<1> QED BY <1>1, <1>2, <1>3, <1>4, <1>5, <1>6

\* The manager's handler.
LEMMA HandlerFacts ==
    /\ Idle.do = "none" /\ \A h \in Deploys : h # Idle /\ h.do \in {"rs", "service", "wait"} /\ h.d \in Created
    /\ \A h \in Undeploys : h # Idle /\ h.do = "deleteService"
BY DEF Idle, Deploys, Undeploys

\* What a put changes: the store, and what its watchers have to do.
Stores(d) ==
    /\ dns' = d
    /\ toManager' \in Seq(Objects) /\ toWriter' \in [Nodes -> Seq(Objects)]
    /\ \A i \in DOMAIN toManager' : toManager'[i].phase \in {"FileCreated", "Delete"}
    /\ d.phase \in {"FileCreated", "Delete"} => toManager' = Append(toManager, d)
    /\ d.phase \notin {"FileCreated", "Delete"} => toManager' = toManager
    /\ d.phase = "FileCreated" => toWriter' = toWriter
    /\ d.phase # "FileCreated" => \A n \in Nodes : toWriter'[n] = Append(toWriter[n], d)

\* Store puts the object.
LEMMA StoreStores ==
    ASSUME GatewayTypeOK, NEW d \in Objects, Store(d)
    PROVE  Stores(d)
<1>1. toManager \in Seq(Objects) /\ toWriter \in [Nodes -> Seq(Objects)]
  BY DEF GatewayTypeOK, NodeType, ManagerType
<1>2. Append(toManager, d) \in Seq(Objects) /\ \A n \in Nodes : Append(toWriter[n], d) \in Seq(Objects)
  BY <1>1
<1>3. \A i \in DOMAIN toManager' : toManager'[i].phase \in {"FileCreated", "Delete"}
  <2>1. \A i \in DOMAIN toManager : toManager[i].phase \in {"FileCreated", "Delete"}
    BY DEF GatewayTypeOK, ManagerType
  <2>2. CASE d.phase \in {"FileCreated", "Delete"}
    <3>1. toManager' = Append(toManager, d)
      BY <2>2 DEF Store
    <3> QED BY <1>1, <2>1, <2>2, <3>1
  <2>3. CASE d.phase \notin {"FileCreated", "Delete"}
    BY <2>1, <2>3 DEF Store
  <2> QED BY <2>2, <2>3
<1> QED BY <1>1, <1>2, <1>3 DEF Store, Stores

\* The initial state has the types.
LEMMA TypeInit == GatewayInit => GatewayTypeOK
<1> SUFFICES ASSUME GatewayInit PROVE GatewayTypeOK
  OBVIOUS
<1>1. UserType
  <2>1. asked \in [op : {"none", "apply", "delete", "kubectl"}, ver : Nat]
    BY DEF GatewayInit
  <2>2. lagged \in BOOLEAN /\ dropped \in BOOLEAN
    BY DEF GatewayInit
  <2> QED BY <2>1, <2>2 DEF GatewayInit, UserType
<1>2. NodeType
  <2>1. <<>> \in Seq(Objects)
    OBVIOUS
  <2>2. known \in [Nodes -> BOOLEAN] /\ core \in [Nodes -> BOOLEAN]
    BY DEF GatewayInit
  <2> QED BY <2>1, <2>2 DEF GatewayInit, NodeType
<1>3. ManagerType
  <2>1. toManager \in Seq(Objects) /\ DOMAIN toManager = {}
    BY DEF GatewayInit
  <2>2. gatewayRs \in BOOLEAN /\ serviceUp \in BOOLEAN
    BY DEF GatewayInit
  <2> QED BY <2>1, <2>2 DEF GatewayInit, ManagerType
<1> QED BY <1>1, <1>2, <1>3 DEF GatewayTypeOK

\* The user's requests keep the types.
LEMMA UserTypes ==
    ASSUME GatewayTypeOK, Apply \/ ApplyStores \/ ApplyDelete \/ KubectlDelete
    PROVE  GatewayTypeOK'
<1>0. UserType /\ NodeType /\ ManagerType
  BY DEF GatewayTypeOK
<1>1. CASE Apply
  <2>1. /\ client' = Dns(PhaseTakenOver(dns), asked.ver + 1)
        /\ asked' = [op |-> "apply", ver |-> asked.ver + 1]
        /\ UNCHANGED <<dns, toManager, toWriter, nodeVars, managerVars, gateway, history, removals, refusals>>
    BY <1>1 DEF Apply, NotStored
  <2>2. PhaseTakenOver(dns) \in Phases
    BY UnsetFacts, <1>0, DnsFacts DEF PhaseTakenOver, UserType, Phases
  <2>3. asked.ver \in Nat /\ asked.ver + 1 \in Versions
    BY <1>0 DEF UserType, Versions
  <2>4. asked' \in [op : {"none", "apply", "delete", "kubectl"}, ver : Nat] /\ asked'.op = "apply"
          /\ asked'.ver = asked.ver + 1
    BY <2>1, <2>3
  <2>5. client' \in [phase : Phases, ver : Versions] /\ client'.ver = asked.ver + 1
    BY <2>1, <2>2, <2>3 DEF Dns
  <2>6. UserType'
    BY <1>0, <2>1, <2>4, <2>5 DEF UserType, history
  <2> QED BY <1>0, <2>1, <2>6 DEF GatewayTypeOK, NodeType, ManagerType, nodeVars, managerVars, gateway
<1>2. CASE ApplyStores
  <2>1. client \in Objects
    BY <1>0, <1>2, DnsFacts DEF UserType, ApplyStores
  <2>2. Stores(client)
    BY <1>2, <2>1, StoreStores DEF ApplyStores
  <2>3. client' = None /\ UNCHANGED <<asked, nodeVars, managerVars, gateway, dropped, removals, refusals>>
    BY <1>2 DEF ApplyStores
  <2>4. lagged' \in BOOLEAN
    BY <1>2 DEF ApplyStores
  <2> QED BY <1>0, <2>1, <2>2, <2>3, <2>4 DEF GatewayTypeOK, UserType, NodeType, ManagerType, Stores, nodeVars,
                                              managerVars, gateway
<1>3. CASE ApplyDelete
  <2>1. dns \in Objects
    BY <1>0, <1>3, DnsFacts DEF UserType, ApplyDelete
  <2>2. Dns("Delete", dns.ver) \in Objects
    BY <2>1, DnsFacts
  <2>3. Stores(Dns("Delete", dns.ver))
    BY <1>3, <2>2, StoreStores DEF ApplyDelete
  <2>4. /\ client = None /\ asked' = [asked EXCEPT !.op = "delete"] /\ removals' = removals + 1
        /\ UNCHANGED <<client, nodeVars, managerVars, gateway, dropped, refusals>>
    BY <1>3 DEF ApplyDelete
  <2>5. lagged' \in BOOLEAN
    BY <1>3 DEF ApplyDelete
  <2>6. asked' \in [op : {"none", "apply", "delete", "kubectl"}, ver : Nat] /\ removals' \in Nat
    BY <1>0, <2>4 DEF UserType
  <2>7. UserType'
    BY <1>0, <2>2, <2>3, <2>4, <2>5, <2>6 DEF UserType, Stores
  <2> QED BY <1>0, <2>3, <2>4, <2>7 DEF GatewayTypeOK, NodeType, ManagerType, Stores, nodeVars, managerVars, gateway
<1>4. CASE KubectlDelete
  <2>1. /\ dns' = None /\ client = None /\ asked' = [asked EXCEPT !.op = "kubectl"] /\ removals' = removals + 1
        /\ UNCHANGED <<toManager, toWriter, client, nodeVars, managerVars, gateway, dropped, refusals>>
    BY <1>4 DEF KubectlDelete
  <2>2. lagged' \in BOOLEAN
    BY <1>4 DEF KubectlDelete
  <2>3. asked' \in [op : {"none", "apply", "delete", "kubectl"}, ver : Nat] /\ removals' \in Nat
    BY <1>0, <2>1 DEF UserType
  <2>4. UserType'
    BY <1>0, <2>1, <2>2, <2>3 DEF UserType
  <2> QED BY <1>0, <2>1, <2>4 DEF GatewayTypeOK, NodeType, ManagerType, nodeVars, managerVars, gateway
<1> QED BY <1>1, <1>2, <1>3, <1>4

\* The writers keep the types.
LEMMA WriterTypes ==
    ASSUME GatewayTypeOK, NEW n \in Nodes, Writer(n) \/ WriterPuts(n)
    PROVE  GatewayTypeOK'
<1>0. UserType /\ NodeType /\ ManagerType
  BY DEF GatewayTypeOK
<1>1. CASE Writer(n)
  <2> DEFINE d == Head(toWriter[n])
  <2>1. /\ toWriter[n] # <<>> /\ toWriter' = [toWriter EXCEPT ![n] = Tail(toWriter[n])]
        /\ UNCHANGED <<dns, asked, client, toManager, managerVars, gateway, history, removals, refusals>>
    BY <1>1 DEF Writer
  <2>2. d \in Objects /\ Tail(toWriter[n]) \in Seq(Objects)
    BY <1>0, <2>1, TailFacts DEF NodeType
  <2>3. d.ver \in Nat /\ Dns("FileCreated", d.ver) \in Created /\ d.ver \in Versions
    BY UnsetFacts, <2>2, DnsFacts DEF Versions, Phases
  <2>4. known' \in [Nodes -> BOOLEAN] /\ core' \in [Nodes -> BOOLEAN]
    BY <1>0, <1>1 DEF Writer, NodeType, CoreWritten, nodeVars
  <2>5. dir' \in [Nodes -> Nat] /\ put' \in [Nodes -> Created \cup {None}]
    <3>1. \/ dir' = [dir EXCEPT ![n] = d.ver] /\ put' = [put EXCEPT ![n] = Dns("FileCreated", d.ver)]
          \/ dir' = [dir EXCEPT ![n] = IF dir[n] = 0 THEN 0 ELSE d.ver] /\ put' = put
          \/ dir' = [dir EXCEPT ![n] = 0] /\ put' = put
          \/ dir' = dir /\ put' = put
      BY <1>1 DEF Writer, nodeVars
    <3>2. dir \in [Nodes -> Nat] /\ put \in [Nodes -> Created \cup {None}]
      BY <1>0 DEF NodeType
    <3> DEFINE c == Dns("FileCreated", d.ver)
               v == d.ver
    <3> HIDE DEF c, v
    <3>3. c \in Created /\ v \in Nat /\ 0 \in Nat
      BY <2>3 DEF c, v
    <3>4. put' = [put EXCEPT ![n] = c] \/ put' = put
      BY <3>1 DEF c
    <3>5. dir' = [dir EXCEPT ![n] = v] \/ dir' = [dir EXCEPT ![n] = 0] \/ dir' = dir
      BY <3>1 DEF v
    <3> QED BY <3>2, <3>3, <3>4, <3>5
  <2>6. toWriter' \in [Nodes -> Seq(Objects)]
    BY <1>0, <2>1, <2>2 DEF NodeType
  <2> QED BY <1>0, <2>1, <2>4, <2>5, <2>6 DEF GatewayTypeOK, UserType, NodeType, ManagerType, managerVars, gateway, history
<1>2. CASE WriterPuts(n)
  <2>1. /\ put[n] # None /\ put' = [put EXCEPT ![n] = None]
        /\ UNCHANGED <<asked, client, known, dir, core, managerVars, gateway, lagged, removals>>
    BY <1>2 DEF WriterPuts
  <2>2. put[n] \in Objects
    BY <1>0, <2>1, DnsFacts DEF NodeType
  <2>3. CASE Store(put[n]) /\ UNCHANGED <<dropped, refusals>>
    <3>1. Stores(put[n])
      BY <2>2, <2>3, StoreStores
    <3> QED BY <1>0, <2>1, <2>2, <2>3, <3>1 DEF GatewayTypeOK, UserType, NodeType, ManagerType, Stores, managerVars, gateway
  <2>4. CASE Refused /\ NotStored /\ dropped' = TRUE
    <3>1. dropped' \in BOOLEAN
      BY <2>4
    <3>2. refusals' \in Nat
      BY <1>0, <2>4 DEF UserType, Refused
    <3> QED BY <1>0, <2>1, <2>4, <3>1, <3>2 DEF GatewayTypeOK, UserType, NodeType, ManagerType, NotStored, managerVars, gateway
  <2> QED BY <1>2, <2>3, <2>4 DEF WriterPuts
<1> QED BY <1>1, <1>2

\* The handler takes an event, goes on or gives up.
LEMMA HandlerMoves ==
    ASSUME GatewayTypeOK
    PROVE  /\ \A do \in {"service", "wait"} : handler \in Deploys => [handler EXCEPT !.do = do] \in Deploys
                 /\ [handler EXCEPT !.do = do].do = do /\ [handler EXCEPT !.do = do].d = handler.d
           /\ handler.do \in {"rs", "service", "wait"} => handler \in Deploys
           /\ handler.do = "deleteService" => handler \in Undeploys
<1>1. handler \in {Idle} \cup Deploys \cup Undeploys
  BY DEF GatewayTypeOK, ManagerType
<1>2. ASSUME NEW do \in {"service", "wait"}, handler \in Deploys
      PROVE  /\ [handler EXCEPT !.do = do] \in Deploys
             /\ [handler EXCEPT !.do = do].do = do /\ [handler EXCEPT !.do = do].d = handler.d
  BY <1>2 DEF Deploys
<1>3. handler.do \in {"rs", "service", "wait"} => handler \in Deploys
  BY <1>1, HandlerFacts
<1>4. handler.do = "deleteService" => handler \in Undeploys
  BY <1>1, HandlerFacts
<1> QED BY <1>2, <1>3, <1>4

\* The manager keeps the types.
LEMMA ManagerTypes ==
    ASSUME GatewayTypeOK,
           WatchDnsAndTrans \/ AddConfigRs \/ UpdateService \/ PutName2Dns \/ DeleteGatewayService \/ CheckDnsAndTrans
              \/ ServiceFollows
    PROVE  GatewayTypeOK'
<1>0. UserType /\ NodeType /\ ManagerType
  BY DEF GatewayTypeOK
<1>a. refusals \in Nat /\ (Refused => refusals' \in Nat)
  BY <1>0 DEF UserType, Refused
<1>b. TRUE \in BOOLEAN
  OBVIOUS
<1>1. CASE WatchDnsAndTrans
  <2> DEFINE d == Head(toManager)
  <2>1. /\ toManager # <<>> /\ toManager' = Tail(toManager)
        /\ handler' = [do |-> IF d.phase = "Delete" THEN "deleteService" ELSE "rs", d |-> d]
        /\ UNCHANGED <<dns, asked, client, toWriter, nodeVars, name2Dns, gateway, history, removals, refusals>>
    BY <1>1 DEF WatchDnsAndTrans
  <2>2. d \in Objects /\ d.phase \in {"FileCreated", "Delete"} /\ Tail(toManager) \in Seq(Objects)
    BY <1>0, <2>1, TailFacts DEF ManagerType
  <2>3. \A i \in DOMAIN Tail(toManager) : Tail(toManager)[i].phase \in {"FileCreated", "Delete"}
    BY <1>0, <2>1 DEF ManagerType
  <2>4. handler' \in Deploys \cup Undeploys
    <3> HIDE DEF d
    <3>1. CASE d.phase = "Delete"
      <4>1. d \in [phase : {"Delete"}, ver : Versions]
        BY <2>2, <3>1 DEF Objects
      <4> QED BY <2>1, <3>1, <4>1 DEF Undeploys
    <3>2. CASE d.phase = "FileCreated"
      <4>1. d \in Created
        BY <2>2, <3>2 DEF Objects, Created
      <4> QED BY <2>1, <3>2, <4>1 DEF Deploys
    <3> QED BY <2>2, <3>1, <3>2
  <2> HIDE DEF d
  <2>5. ManagerType'
    BY <1>0, <2>1, <2>2, <2>3, <2>4 DEF ManagerType, gateway
  <2> QED BY <1>0, <2>1, <2>5 DEF GatewayTypeOK, UserType, NodeType, nodeVars, history
<1>2. CASE AddConfigRs \/ UpdateService
  <2>1. UNCHANGED <<dns, toManager, toWriter, asked, client, nodeVars, name2Dns, serviceUp, lagged, removals>>
    BY <1>2 DEF AddConfigRs, UpdateService, NotStored
  <2>2. handler' \in {Idle} \cup Deploys
    BY <1>2, HandlerMoves DEF AddConfigRs, UpdateService, Then, GivesUp
  <2>3. refusals' \in Nat
    BY <1>2, <1>a DEF AddConfigRs, UpdateService, GivesUp
  <2>4. dropped' = dropped \/ dropped' = TRUE
    BY <1>2 DEF AddConfigRs, UpdateService, GivesUp
  <2>5. dropped' \in BOOLEAN
    BY <1>0, <2>4 DEF UserType
  <2>6. gatewayRs' = gatewayRs \/ gatewayRs' = TRUE
    BY <1>2 DEF AddConfigRs, UpdateService
  <2>7. gatewayRs' \in BOOLEAN
    BY <1>0, <2>6 DEF ManagerType
  <2>8. service' \in {"none", "applied", "again", "deleted"}
    BY <1>0, <1>2 DEF AddConfigRs, UpdateService, ManagerType
  <2>9. UserType'
    BY <1>0, <2>1, <2>3, <2>5 DEF UserType
  <2>10. ManagerType'
    BY <1>0, <2>1, <2>2, <2>7, <2>8 DEF ManagerType
  <2> QED BY <1>0, <2>1, <2>9, <2>10 DEF GatewayTypeOK, NodeType, nodeVars
<1>3. CASE PutName2Dns
  <2>1. handler.d \in Created
    BY <1>3, HandlerMoves, HandlerFacts DEF PutName2Dns
  <2>2. name2Dns' = handler.d /\ handler' = Idle
    BY <1>3 DEF PutName2Dns, Waits
  <2>3. UNCHANGED <<dns, toManager, toWriter, asked, client, nodeVars, gateway, history, removals, refusals>>
    BY <1>3 DEF PutName2Dns, NotStored
  <2> QED BY <1>0, <2>1, <2>2, <2>3 DEF GatewayTypeOK, UserType, NodeType, ManagerType, nodeVars, gateway, history
<1>4. CASE DeleteGatewayService
  <2>1. /\ handler' = Idle
        /\ UNCHANGED <<dns, toManager, toWriter, asked, client, nodeVars, name2Dns, gatewayRs, serviceUp, lagged, removals>>
    BY <1>4 DEF DeleteGatewayService, NotStored
  <2>2. refusals' \in Nat
    BY <1>4, <1>a DEF DeleteGatewayService
  <2>3. dropped' = dropped \/ dropped' = TRUE
    BY <1>4 DEF DeleteGatewayService
  <2>4. dropped' \in BOOLEAN
    BY <1>0, <2>3 DEF UserType
  <2>5. service' \in {"none", "applied", "again", "deleted"}
    BY <1>0, <1>4 DEF DeleteGatewayService, ManagerType
  <2>6. UserType'
    BY <1>0, <2>1, <2>2, <2>4 DEF UserType
  <2>7. ManagerType'
    BY <1>0, <2>1, <2>5 DEF ManagerType
  <2> QED BY <1>0, <2>1, <2>6, <2>7 DEF GatewayTypeOK, NodeType, nodeVars
<1>5. CASE CheckDnsAndTrans
  <2>1. name2Dns # None /\ UNCHANGED <<asked, client, nodeVars, handler, gateway, history, removals>>
    BY <1>5 DEF CheckDnsAndTrans
  <2>2. name2Dns' \in Created \cup {None}
    BY <1>0, <1>5 DEF CheckDnsAndTrans, WaitsAfter, ManagerType
  <2>3. CASE Store(Dns("ServiceCreated", name2Dns.ver)) /\ UNCHANGED refusals
    <3>1. Dns("ServiceCreated", name2Dns.ver) \in Objects
      BY UnsetFacts, <1>0, <2>1, DnsFacts DEF ManagerType, Phases
    <3>2. Stores(Dns("ServiceCreated", name2Dns.ver))
      BY <2>3, <3>1, StoreStores
    <3> QED BY <1>0, <2>1, <2>2, <2>3, <3>1, <3>2 DEF GatewayTypeOK, UserType, NodeType, ManagerType, Stores,
                                                      nodeVars, gateway, history
  <2>4. CASE Refused /\ NotStored
    BY <1>0, <1>a, <2>1, <2>2, <2>4 DEF GatewayTypeOK, UserType, NodeType, ManagerType, NotStored, nodeVars, gateway, history
  <2> QED BY <1>5, <2>3, <2>4 DEF CheckDnsAndTrans
<1>6. CASE ServiceFollows
  <2>1. serviceUp' \in BOOLEAN
    BY <1>6 DEF ServiceFollows
  <2> QED BY <1>0, <1>6, <2>1 DEF ServiceFollows, NotStored, GatewayTypeOK, UserType, NodeType, ManagerType, nodeVars,
                                  managerVars, history
<1> QED BY <1>1, <1>2, <1>3, <1>4, <1>5, <1>6

\* The types hold after a step.
LEMMA TypeNext == GatewayTypeOK /\ [GatewayNext]_gatewayVars => GatewayTypeOK'
<1> SUFFICES ASSUME GatewayTypeOK, [GatewayNext]_gatewayVars PROVE GatewayTypeOK'
  OBVIOUS
<1>1. CASE UNCHANGED gatewayVars
  BY <1>1 DEF gatewayVars, nodeVars, managerVars, gateway, history, GatewayTypeOK, UserType, NodeType, ManagerType
<1> QED BY <1>1, NextSteps, UserTypes, WriterTypes, ManagerTypes

\* Every variable has its type: the objects on the way have a phase and a version the user applied.
THEOREM GatewayTypeCorrect == GatewaySpec => []GatewayTypeOK
BY TypeInit, TypeNext, PTL DEF GatewaySpec

-----------------------------------------------------------------------------
(* What the nodes serve they know.                                         *)

\* At first nobody serves anything.
LEMMA KnownInit == GatewayInit => ServedIsKnown
BY DEF GatewayInit, ServedIsKnown

\* The writers keep it.
LEMMA KnownNext == GatewayTypeOK /\ ServedIsKnown /\ [GatewayNext]_gatewayVars => ServedIsKnown'
<1> SUFFICES ASSUME GatewayTypeOK, ServedIsKnown, [GatewayNext]_gatewayVars PROVE ServedIsKnown'
  OBVIOUS
<1>1. CASE UNCHANGED <<known, dir, core>>
  BY <1>1 DEF ServedIsKnown
<1>2. ASSUME NEW n \in Nodes, Writer(n) PROVE ServedIsKnown'
  <2>1. known \in [Nodes -> BOOLEAN] /\ core \in [Nodes -> BOOLEAN] /\ dir \in [Nodes -> Nat]
    BY DEF GatewayTypeOK, NodeType
  <2>2. CASE known' = [known EXCEPT ![n] = TRUE]
    <3>1. \A m \in Nodes : m # n => dir'[m] = dir[m] /\ core'[m] = core[m] /\ known'[m] = known[m]
      BY <1>2, <2>1, <2>2 DEF Writer, nodeVars
    <3>2. known'[n]
      BY <2>1, <2>2
    <3> QED BY <3>1, <3>2 DEF ServedIsKnown
  <2>3. CASE dir' = [dir EXCEPT ![n] = 0] /\ core' = [core EXCEPT ![n] = CoreWritten(n, "none")]
             /\ known' = [known EXCEPT ![n] = FALSE]
    <3>1. \A m \in Nodes : m # n => dir'[m] = dir[m] /\ core'[m] = core[m] /\ known'[m] = known[m]
      BY <2>1, <2>3
    <3>2. dir'[n] = 0 /\ ~core'[n]
      BY <2>1, <2>3 DEF CoreWritten
    <3> QED BY <3>1, <3>2 DEF ServedIsKnown
  <2>4. CASE UNCHANGED nodeVars
    BY <1>1, <2>4 DEF nodeVars
  <2> QED BY <1>2, <2>2, <2>3, <2>4 DEF Writer
<1>3. CASE ~\E n \in Nodes : Writer(n)
  <2>1. UNCHANGED <<known, dir, core>>
    BY <1>3, NextSteps DEF gatewayVars, nodeVars, Apply, ApplyStores, ApplyDelete, KubectlDelete, WriterPuts, WatchDnsAndTrans,
          AddConfigRs, UpdateService, PutName2Dns, DeleteGatewayService, CheckDnsAndTrans, ServiceFollows
  <2> QED BY <1>1, <2>1
<1> QED BY <1>2, <1>3

-----------------------------------------------------------------------------
(* The last request.                                                       *)

\* An apply or a deployment that comes in keeps the directory.
LEMMA ReadyAppend ==
    ASSUME NEW q \in Seq(Objects), NEW d \in Objects, NEW v,
           d.phase = NoPhase \/ (d.phase # "Delete" /\ Ready(q, v))
    PROVE  Ready(Append(q, d), v)
<1> DEFINE a == Append(q, d)
           l == Len(q)
<1>1. l \in Nat /\ DOMAIN a = 1..(l + 1) /\ DOMAIN q = 1..l /\ a[l + 1] = d /\ \A i \in 1..l : a[i] = q[i]
  OBVIOUS
<1>2. \A p : Has(a, p) <=> Has(q, p) \/ d.phase = p
  BY AppendFacts
<1> HIDE DEF a, l
<1>3. CASE d.phase = NoPhase
  <2>1. ASSUME NEW i \in DOMAIN a, a[i].phase = "Delete" PROVE \E j \in DOMAIN a : j > i /\ a[j].phase = NoPhase
    <3>1. i # l + 1
      BY <1>1, <1>3, <2>1, UnsetFacts
    <3>2. l + 1 \in DOMAIN a /\ l + 1 > i /\ a[l + 1].phase = NoPhase
      BY <1>1, <1>3, <3>1
    <3> QED BY <3>2
  <2>2. Has(a, NoPhase)
    BY <1>2, <1>3
  <2> QED BY <2>1, <2>2 DEF Ready, a
<1>4. CASE d.phase # NoPhase /\ d.phase # "Delete" /\ Ready(q, v)
  <2>1. ASSUME NEW i \in DOMAIN a, a[i].phase = "Delete" PROVE \E j \in DOMAIN a : j > i /\ a[j].phase = NoPhase
    <3>1. i \in DOMAIN q /\ q[i].phase = "Delete"
      BY <1>1, <1>4, <2>1
    <3>2. PICK j \in DOMAIN q : j > i /\ q[j].phase = NoPhase
      BY <1>4, <3>1 DEF Ready
    <3>3. j \in DOMAIN a /\ a[j].phase = NoPhase
      BY <1>1, <3>2
    <3> QED BY <3>2, <3>3
  <2>2. ~Has(a, NoPhase) => v # 0
    BY <1>2, <1>4 DEF Ready
  <2> QED BY <2>1, <2>2 DEF Ready, a
<1> QED BY <1>3, <1>4

\* The writer keeps the directory: an apply makes it, a deployment leaves it, and behind a
\* deletion there is an apply.
LEMMA ReadyTail ==
    ASSUME NEW q \in Seq(Objects), q # <<>>, NEW v, NEW w, Ready(q, v),
           Head(q).phase = NoPhase => w # 0, Head(q).phase # "Delete" /\ v # 0 => w # 0
    PROVE  Ready(Tail(q), w)
<1> DEFINE a == Tail(q)
           l == Len(q)
<1>1. l \in Nat /\ l > 0 /\ DOMAIN q = 1..l /\ Head(q) = q[1] /\ DOMAIN a = 1..(l - 1)
  OBVIOUS
<1>2. \A i \in 1..(l - 1) : a[i] = q[i + 1]
  OBVIOUS
<1>3. \A p : Has(q, p) <=> Head(q).phase = p \/ Has(a, p)
  BY TailFacts
<1> HIDE DEF a, l
<1>4. ASSUME NEW i \in DOMAIN a, a[i].phase = "Delete" PROVE \E j \in DOMAIN a : j > i /\ a[j].phase = NoPhase
  <2>1. i + 1 \in DOMAIN q /\ q[i + 1].phase = "Delete"
    BY <1>1, <1>2, <1>4
  <2>2. PICK j \in DOMAIN q : j > i + 1 /\ q[j].phase = NoPhase
    BY <2>1 DEF Ready
  <2>3. j - 1 \in DOMAIN a /\ j - 1 > i /\ (j - 1) + 1 = j
    BY <1>1, <1>4, <2>2
  <2>4. a[j - 1] = q[j]
    BY <1>1, <1>2, <2>3
  <2> QED BY <2>2, <2>3, <2>4
<1>5. ASSUME ~Has(a, NoPhase) PROVE w # 0
  <2>1. CASE Head(q).phase = "Delete"
    <3>1. 1 \in DOMAIN q /\ q[1].phase = "Delete"
      BY <1>1, <2>1
    <3>2. PICK j \in DOMAIN q : j > 1 /\ q[j].phase = NoPhase
      BY <3>1 DEF Ready
    <3>3. j - 1 \in DOMAIN a /\ (j - 1) + 1 = j
      BY <1>1, <3>2
    <3>4. a[j - 1] = q[j]
      BY <1>1, <1>2, <3>3
    <3> QED BY <1>5, <3>2, <3>3, <3>4 DEF Has
  <2>2. CASE Head(q).phase # "Delete" /\ Head(q).phase # NoPhase
    BY <1>3, <1>5, <2>2 DEF Ready
  <2> QED BY <2>1, <2>2
<1> QED BY <1>4, <1>5 DEF Ready, a

\* At first nothing has been asked for.
LEMMA ProgressInit == GatewayInit => Progress
<1> SUFFICES ASSUME GatewayInit PROVE Progress
  OBVIOUS
<1>1. asked.op = "none" /\ dns = None /\ name2Dns = None /\ handler = Idle
  BY DEF GatewayInit
<1>2. ~Has(toManager, "FileCreated") /\ \A n \in Nodes : put[n] = None /\ ~Has(toWriter[n], NoPhase)
  BY DEF GatewayInit, Has
<1> QED BY <1>1, <1>2, HandlerFacts DEF Progress, WritersDone, ManagerDone, Deploying

\* The user's file takes over a phase only from an object whose directory is prepared.
LEMMA ApplyProgress ==
    ASSUME GatewayTypeOK, Progress, Apply
    PROVE  Progress'
<1>1. /\ client = None /\ client' = Dns(PhaseTakenOver(dns), asked.ver + 1)
      /\ asked' = [op |-> "apply", ver |-> asked.ver + 1] /\ UNCHANGED <<toWriter, dir>>
  BY DEF Apply, NotStored, nodeVars
<1>2. asked'.op = "apply"
  BY <1>1
<1>3. PhaseTakenOver(dns) \in Phases /\ asked.ver + 1 \in Versions
  BY UnsetFacts, DnsFacts DEF GatewayTypeOK, UserType, PhaseTakenOver, Phases, Versions
<1>4. client' # None /\ client'.phase = PhaseTakenOver(dns)
  BY <1>1, <1>3, DnsFacts
<1>5. ASSUME client'.phase # NoPhase PROVE Prepared'
  <2>1. dns.phase \notin {"none", "Delete"}
    BY <1>4, <1>5 DEF PhaseTakenOver
  <2>2. asked.op = "apply"
    BY <2>1, DnsFacts DEF Progress, GatewayTypeOK, UserType
  <2>3. Prepared
    BY <1>1, <2>2 DEF Progress
  <2> QED BY <1>1, <2>3 DEF Prepared
<1> QED BY <1>2, <1>4, <1>5 DEF Progress

\* A user's version is put: whoever has work left will put it last.
LEMMA ApplyStoresProgress ==
    ASSUME GatewayTypeOK, Progress, ApplyStores, ~lagged'
    PROVE  Progress'
<1> USE UnsetFacts
<1>1. /\ client # None /\ client' = None /\ ~Behind(client.phase)
      /\ UNCHANGED <<asked, nodeVars, managerVars, gateway>>
  BY DEF ApplyStores
<1>2. client \in [phase : Phases, ver : Versions] /\ asked.op = "apply" /\ client.ver = asked.ver
  BY <1>1 DEF GatewayTypeOK, UserType
<1>3. client \in Objects /\ client.phase \in Phases
  BY <1>2, DnsFacts
<1>4. Stores(client)
  BY <1>3, StoreStores DEF ApplyStores
<1>5. toManager \in Seq(Objects) /\ toWriter \in [Nodes -> Seq(Objects)]
  BY DEF GatewayTypeOK, NodeType, ManagerType
<1>6. CASE client.phase = NoPhase
  <2>1. toManager' = toManager /\ \A n \in Nodes : toWriter'[n] = Append(toWriter[n], client)
    BY <1>4, <1>6 DEF Stores
  <2>2. ASSUME NEW n \in Nodes
        PROVE  LastIs(toWriter'[n], NoPhase, asked.ver) /\ Has(toWriter'[n], NoPhase)
               /\ Ready(toWriter'[n], dir[n])
    <3>1. toWriter[n] \in Seq(Objects) /\ toWriter'[n] = Append(toWriter[n], client)
      BY <1>5, <2>1
    <3>2. LastIs(Append(toWriter[n], client), NoPhase, asked.ver) /\ Has(Append(toWriter[n], client), NoPhase)
      BY <1>2, <1>3, <1>6, <3>1, AppendFacts
    <3>3. Ready(Append(toWriter[n], client), dir[n])
      BY <1>3, <1>6, <3>1, ReadyAppend
    <3> QED BY <3>1, <3>2, <3>3
  <2>3. ~WritersDone'
    BY <2>2, GatewayAssumption DEF WritersDone
  <2>4. WritersPutLast'
    BY <1>1, <2>2 DEF WritersPutLast
  <2>6. Prepared'
    BY <1>1, <2>2 DEF Prepared, nodeVars
  <2> QED BY <1>1, <1>2, <2>3, <2>4, <2>6 DEF Progress, ManagerPutsLast, DeployedLast
<1>7. CASE client.phase # NoPhase
  <2>1. \A n \in Nodes : put[n] = None /\ ~Has(toWriter[n], NoPhase)
    BY <1>1, <1>7 DEF Behind
  <2>2. Prepared
    BY <1>2, <1>7 DEF Progress
  <2>3. CASE client.phase = "FileCreated"
    <3>1. toManager' = Append(toManager, client) /\ toWriter' = toWriter
      BY <1>4, <2>3 DEF Stores
    <3>2. LastIs(toManager', "FileCreated", asked.ver) /\ Has(toManager', "FileCreated")
      BY <1>2, <1>3, <1>5, <2>3, <3>1, AppendFacts
    <3>3. WritersPutLast'
      BY <1>1, <2>1, <3>1, NoLast DEF WritersPutLast, nodeVars
    <3>4. ManagerPutsLast' /\ DeployedLast'
      BY <1>1, <3>2 DEF ManagerPutsLast, DeployedLast, ManagerDone
    <3>5. Prepared'
      BY <1>1, <2>2, <3>1 DEF Prepared, nodeVars
    <3> QED BY <1>1, <1>2, <3>3, <3>4, <3>5 DEF Progress
  <2>4. CASE client.phase = "ServiceCreated"
    <3>1. toManager' = toManager /\ (\A n \in Nodes : toWriter'[n] = Append(toWriter[n], client)) /\ dns' = client
      BY <1>4, <2>4 DEF Stores
    <3>2. handler = Idle /\ name2Dns = None /\ ~Has(toManager, "FileCreated")
      BY <1>1, <2>4 DEF Behind
    <3>3. \A n \in Nodes : toWriter'[n] # <<>> /\ toWriter'[n][Len(toWriter'[n])] = client /\ ~Has(toWriter'[n], NoPhase)
      <4> SUFFICES ASSUME NEW n \in Nodes
                   PROVE  /\ toWriter'[n] # <<>> /\ toWriter'[n][Len(toWriter'[n])] = client
                          /\ ~Has(toWriter'[n], NoPhase)
        OBVIOUS
      <4>1. toWriter[n] \in Seq(Objects) /\ toWriter'[n] = Append(toWriter[n], client)
        BY <1>5, <3>1
      <4> QED BY <1>3, <2>1, <2>4, <4>1, AppendFacts
    <3>4. WritersPutLast'
      BY <1>1, <2>1, <3>3, NoLast DEF WritersPutLast, nodeVars
    <3>5. ManagerPutsLast'
      BY <1>1, <3>1, <3>2, NoLast, HandlerFacts DEF ManagerPutsLast, managerVars, Deploying
    <3>6. client = Dns("ServiceCreated", asked.ver)
      BY <1>2, <1>3, <2>4, DnsFacts
    <3>7. DeployedLast'
      BY <1>1, <3>1, <3>3, <3>6 DEF DeployedLast, Serves
    <3>8. \A n \in Nodes : Ready(toWriter'[n], dir[n])
      BY <1>3, <1>5, <2>2, <2>4, <3>1, ReadyAppend DEF Prepared
    <3>9. Prepared'
      BY <1>1, <3>8 DEF Prepared, nodeVars
    <3> QED BY <1>1, <1>2, <3>4, <3>5, <3>7, <3>9 DEF Progress
  <2> QED BY UnsetFacts, <1>3, <1>7, <2>3, <2>4 DEF Phases
<1> QED BY <1>6, <1>7

\* A deletion is put when nobody has work left: nothing follows it.
LEMMA DeleteProgress ==
    ASSUME GatewayTypeOK, ApplyDelete \/ KubectlDelete, ~lagged'
    PROVE  Progress'
<1> USE UnsetFacts
<1>1. client = None /\ UNCHANGED <<client, nodeVars, managerVars, gateway>>
  BY DEF ApplyDelete, KubectlDelete
<1>2. toManager \in Seq(Objects) /\ toWriter \in [Nodes -> Seq(Objects)]
  BY DEF GatewayTypeOK, NodeType, ManagerType
<1>3. CASE ApplyDelete
  <2> DEFINE d == Dns("Delete", dns.ver)
  <2>1. dns \in Objects
    BY <1>3, DnsFacts DEF GatewayTypeOK, UserType, ApplyDelete
  <2>2. d \in Objects /\ d.phase = "Delete"
    BY <2>1, DnsFacts
  <2>3. Stores(d)
    BY <1>3, <2>2, StoreStores DEF ApplyDelete
  <2>4. asked'.op = "delete" /\ ~Behind("Delete")
    BY <1>3 DEF ApplyDelete, GatewayTypeOK, UserType
  <2> HIDE DEF d
  <2>5. toManager' = Append(toManager, d) /\ (\A n \in Nodes : toWriter'[n] = Append(toWriter[n], d)) /\ dns' = d
    BY <2>2, <2>3 DEF Stores
  <2>6. ~Has(toManager', "FileCreated")
    <3>1. ~Has(toManager, "FileCreated")
      BY <2>4 DEF Behind
    <3> QED BY <1>2, <2>2, <2>5, <3>1, AppendFacts
  <2>7. \A n \in Nodes : /\ toWriter'[n] # <<>> /\ toWriter'[n][Len(toWriter'[n])] = d
                         /\ ~Has(toWriter'[n], NoPhase) /\ put[n] = None
    <3>1. \A n \in Nodes : ~Has(toWriter[n], NoPhase) /\ put[n] = None
      BY <2>4 DEF Behind
    <3> SUFFICES ASSUME NEW n \in Nodes
                 PROVE  /\ toWriter'[n] # <<>> /\ toWriter'[n][Len(toWriter'[n])] = d
                        /\ ~Has(toWriter'[n], NoPhase)
      BY <3>1
    <3>2. toWriter[n] \in Seq(Objects) /\ toWriter'[n] = Append(toWriter[n], d)
      BY <1>2, <2>5
    <3> QED BY <2>2, <3>1, <3>2, AppendFacts
  <2>8. handler = Idle /\ name2Dns = None
    BY <2>4 DEF Behind
  <2>9. WritersDone' /\ ManagerDone'
    BY <1>1, <2>6, <2>7, <2>8, HandlerFacts DEF WritersDone, ManagerDone, Deploying, nodeVars, managerVars
  <2>10. \A n \in Nodes : Removed(n)'
    BY <2>2, <2>7 DEF Removed
  <2> QED BY <2>2, <2>4, <2>5, <2>9, <2>10 DEF Progress
<1>4. CASE KubectlDelete
  <2>1. /\ asked'.op = "kubectl" /\ ~Behind("kubectl") /\ dns' = None /\ UNCHANGED <<toManager, toWriter>>
    BY <1>4 DEF KubectlDelete, GatewayTypeOK, UserType
  <2>2. \A n \in Nodes : ~Has(toWriter[n], NoPhase) /\ put[n] = None
    BY <2>1 DEF Behind
  <2>3. handler = Idle /\ name2Dns = None /\ ~Has(toManager, "FileCreated")
    BY <2>1 DEF Behind
  <2>4. WritersDone' /\ ManagerDone'
    BY <1>1, <2>1, <2>2, <2>3, HandlerFacts DEF WritersDone, ManagerDone, Deploying, nodeVars, managerVars
  <2> QED BY <2>1, <2>4 DEF Progress
<1> QED BY <1>3, <1>4

\* What the writer does with the event it takes.
LEMMA WriterTakes ==
    ASSUME GatewayTypeOK, NEW n \in Nodes, Writer(n)
    PROVE  /\ put[n] = None /\ toWriter[n] # <<>> /\ toWriter'[n] = Tail(toWriter[n])
           /\ \A m \in Nodes \ {n} : /\ toWriter'[m] = toWriter[m] /\ put'[m] = put[m]
                                     /\ dir'[m] = dir[m] /\ core'[m] = core[m]
           /\ UNCHANGED <<dns, asked, client, toManager, handler, name2Dns>>
           /\ Head(toWriter[n]) \in Objects
           /\ Head(toWriter[n]).phase = NoPhase =>
                 /\ put'[n] = Dns("FileCreated", Head(toWriter[n]).ver) /\ put'[n] # None
                 /\ put'[n].ver = Head(toWriter[n]).ver /\ dir'[n] # 0
           /\ Head(toWriter[n]).phase # NoPhase => put'[n] = None
           /\ Head(toWriter[n]).phase = "ServiceCreated" =>
                 core'[n] /\ dir'[n] = IF dir[n] = 0 THEN 0 ELSE Head(toWriter[n]).ver
           /\ Head(toWriter[n]).phase = "Delete" /\ known[n] => ~core'[n] /\ dir'[n] = 0
           /\ Head(toWriter[n]).phase = "Delete" /\ ~known[n] => core'[n] = core[n] /\ dir'[n] = dir[n]
           /\ Head(toWriter[n]).phase \in {NoPhase, "ServiceCreated", "Delete"}
<1> USE UnsetFacts
<1> DEFINE d == Head(toWriter[n])
<1>1. /\ toWriter \in [Nodes -> Seq(Objects)] /\ put \in [Nodes -> Created \cup {None}]
      /\ core \in [Nodes -> BOOLEAN] /\ dir \in [Nodes -> Nat]
  BY DEF GatewayTypeOK, NodeType
<1>2. /\ put[n] = None /\ toWriter[n] # <<>> /\ toWriter' = [toWriter EXCEPT ![n] = Tail(toWriter[n])]
      /\ UNCHANGED <<dns, asked, client, toManager, handler, name2Dns>>
  BY DEF Writer, managerVars
<1>3. d \in Objects
  BY <1>1, <1>2, TailFacts
<1>4. d.ver \in Versions /\ Dns("FileCreated", d.ver) # None /\ Dns("FileCreated", d.ver).ver = d.ver
  BY <1>3, DnsFacts DEF Phases
<1>5. d.ver # 0
  BY <1>4 DEF Versions
<1>6. \/ d.phase = NoPhase /\ dir' = [dir EXCEPT ![n] = d.ver]
           /\ put' = [put EXCEPT ![n] = Dns("FileCreated", d.ver)] /\ core' = core
      \/ d.phase = "ServiceCreated" /\ dir' = [dir EXCEPT ![n] = IF dir[n] = 0 THEN 0 ELSE d.ver]
           /\ core' = [core EXCEPT ![n] = TRUE] /\ put' = put
      \/ d.phase = "Delete" /\ known[n] /\ dir' = [dir EXCEPT ![n] = 0]
           /\ core' = [core EXCEPT ![n] = FALSE] /\ put' = put
      \/ d.phase = "Delete" /\ ~known[n] /\ dir' = dir /\ core' = core /\ put' = put
  BY DEF Writer, CoreWritten, nodeVars
<1>7. toWriter'[n] = Tail(toWriter[n]) /\ \A m \in Nodes \ {n} : toWriter'[m] = toWriter[m]
  BY <1>1, <1>2
<1> HIDE DEF d
<1>8. CASE d.phase = NoPhase
  <2>1. dir' = [dir EXCEPT ![n] = d.ver] /\ put' = [put EXCEPT ![n] = Dns("FileCreated", d.ver)] /\ core' = core
    BY <1>6, <1>8
  <2> QED BY <1>1, <1>2, <1>3, <1>4, <1>5, <1>7, <1>8, <2>1 DEF d
<1>9. CASE d.phase = "ServiceCreated"
  <2>1. dir' = [dir EXCEPT ![n] = IF dir[n] = 0 THEN 0 ELSE d.ver] /\ put' = put /\ core' = [core EXCEPT ![n] = TRUE]
    BY <1>6, <1>9
  <2> QED BY <1>1, <1>2, <1>3, <1>7, <1>9, <2>1 DEF d
<1>10. CASE d.phase = "Delete" /\ known[n]
  <2>1. dir' = [dir EXCEPT ![n] = 0] /\ put' = put /\ core' = [core EXCEPT ![n] = FALSE]
    BY <1>6, <1>10
  <2> QED BY <1>1, <1>2, <1>3, <1>7, <1>10, <2>1 DEF d
<1>11. CASE d.phase = "Delete" /\ ~known[n]
  <2>1. dir' = dir /\ put' = put /\ core' = core
    BY <1>6, <1>11
  <2> QED BY <1>1, <1>2, <1>3, <1>7, <1>11, <2>1 DEF d
<1> QED BY <1>6, <1>8, <1>9, <1>10, <1>11

\* A writer carries out an event: it serves what it was told last.
LEMMA WriterProgress ==
    ASSUME GatewayTypeOK, ServedIsKnown, Progress, NEW n \in Nodes, Writer(n)
    PROVE  Progress'
<1> USE UnsetFacts
<1> DEFINE q == toWriter[n]
           d == Head(q)
<1>1. /\ put[n] = None /\ q # <<>> /\ toWriter'[n] = Tail(q)
      /\ \A m \in Nodes \ {n} : /\ toWriter'[m] = toWriter[m] /\ put'[m] = put[m]
                                /\ dir'[m] = dir[m] /\ core'[m] = core[m]
      /\ UNCHANGED <<dns, asked, client, toManager, handler, name2Dns>>
  BY WriterTakes
<1>2. /\ d.phase = NoPhase => put'[n] # None /\ put'[n].ver = d.ver /\ dir'[n] # 0
      /\ d.phase # NoPhase => put'[n] = None
      /\ d.phase = "ServiceCreated" => core'[n] /\ dir'[n] = IF dir[n] = 0 THEN 0 ELSE d.ver
      /\ d.phase = "Delete" /\ known[n] => ~core'[n] /\ dir'[n] = 0
      /\ d.phase = "Delete" /\ ~known[n] => core'[n] = core[n] /\ dir'[n] = dir[n]
      /\ d.phase \in {NoPhase, "ServiceCreated", "Delete"}
  BY WriterTakes
<1>3. q \in Seq(Objects) /\ d \in Objects
  BY WriterTakes DEF GatewayTypeOK, NodeType
<1>4. /\ Tail(q) \in Seq(Objects)
      /\ Tail(q) = <<>> => q[Len(q)] = d
      /\ Tail(q) # <<>> => Tail(q)[Len(Tail(q))] = q[Len(q)]
      /\ \A p : Has(q, p) <=> d.phase = p \/ Has(Tail(q), p)
      /\ \A p, v : LastIs(q, p, v) => LastIs(Tail(q), p, v)
      /\ \A p, v : LastIs(q, p, v) /\ d.phase = p /\ ~Has(Tail(q), p) => d.ver = v
  BY <1>1, <1>3, TailFacts
<1>5. d.ver # 0
  BY <1>3, DnsFacts DEF Versions
<1>6. Ready(q, dir[n]) => Ready(Tail(q), dir'[n])
  <2>1. d.phase # "Delete" /\ dir[n] # 0 => dir'[n] # 0
    BY <1>2, <1>5
  <2> QED BY <1>1, <1>2, <1>3, <2>1, ReadyTail
<1> HIDE DEF q, d
<1>7. Prepared => Prepared'
  BY <1>1, <1>6 DEF Prepared, q
<1>8. WritersDone' <=> WritersDone /\ d.phase # NoPhase
  <2>1. WritersDone' => WritersDone /\ d.phase # NoPhase
    BY <1>1, <1>2, <1>4 DEF WritersDone, q
  <2>2. WritersDone /\ d.phase # NoPhase => WritersDone'
    BY <1>1, <1>2, <1>4 DEF WritersDone, q
  <2> QED BY <2>1, <2>2
<1>9. WritersDone => d.phase # NoPhase
  BY <1>4 DEF WritersDone, q
<1>10. (ManagerDone' <=> ManagerDone) /\ (Deploying' <=> Deploying)
  BY <1>1 DEF ManagerDone, Deploying
<1>11. ASSUME asked.op = "apply", client = None PROVE WritersPutLast' /\ ManagerPutsLast' /\ DeployedLast'
  <2>1. WritersPutLast /\ ManagerPutsLast /\ DeployedLast /\ Prepared
    BY <1>11 DEF Progress
  <2>2. WritersPutLast'
    <3> SUFFICES ASSUME NEW m \in Nodes
                 PROVE  /\ LastIs(toWriter'[m], NoPhase, asked.ver)
                        /\ ~Has(toWriter'[m], NoPhase) /\ put'[m] # None => put'[m].ver = asked.ver
      BY <1>1 DEF WritersPutLast
    <3>1. CASE m = n
      <4>1. LastIs(q, NoPhase, asked.ver)
        BY <2>1 DEF WritersPutLast, q
      <4>2. LastIs(Tail(q), NoPhase, asked.ver)
        BY <4>1, <1>4
      <4>3. ASSUME ~Has(Tail(q), NoPhase), put'[n] # None PROVE put'[n].ver = asked.ver
        BY <1>2, <1>4, <4>1, <4>3
      <4> QED BY <1>1, <3>1, <4>2, <4>3
    <3>2. CASE m # n
      BY <1>1, <2>1, <3>2 DEF WritersPutLast
    <3> QED BY <3>1, <3>2
  <2>3. ManagerPutsLast'
    BY <1>1, <1>8, <1>10, <2>1 DEF ManagerPutsLast
  <2>4. DeployedLast'
    <3> SUFFICES ASSUME WritersDone', ManagerDone'
                 PROVE  dns = Dns("ServiceCreated", asked.ver) /\ \A m \in Nodes : Serves(m, asked.ver)'
      BY <1>1 DEF DeployedLast
    <3>1. WritersDone /\ ManagerDone
      BY <1>8, <1>10
    <3>2. dns = Dns("ServiceCreated", asked.ver) /\ \A m \in Nodes : Serves(m, asked.ver)
      BY <2>1, <3>1 DEF DeployedLast
    <3>3. \A m \in Nodes \ {n} : Serves(m, asked.ver)'
      BY <1>1, <3>2 DEF Serves
    <3>4. q[Len(q)] = Dns("ServiceCreated", asked.ver)
      BY <1>1, <3>2 DEF Serves, q
    <3>5. CASE Tail(q) # <<>>
      BY <1>1, <1>4, <3>2, <3>3, <3>4, <3>5 DEF Serves
    <3>6. CASE Tail(q) = <<>>
      <4>1. d = Dns("ServiceCreated", asked.ver)
        BY <1>4, <3>4, <3>6
      <4>2. d.phase = "ServiceCreated" /\ d.ver = asked.ver
        BY <4>1 DEF Dns
      <4>3. dir[n] # 0
        BY <2>1, <3>1 DEF Prepared, Ready, WritersDone
      <4>4. core'[n] /\ dir'[n] = asked.ver
        BY <1>2, <4>2, <4>3
      <4> QED BY <1>1, <3>2, <3>3, <3>6, <4>4 DEF Serves
    <3> QED BY <3>5, <3>6
  <2> QED BY <2>2, <2>3, <2>4
<1>12. ASSUME asked.op = "delete" PROVE WritersDone' /\ ManagerDone' /\ dns.phase = "Delete" /\ \A m \in Nodes : Removed(m)'
  <2>1. WritersDone /\ ManagerDone /\ dns.phase = "Delete" /\ \A m \in Nodes : Removed(m)
    BY <1>12 DEF Progress
  <2>2. \A m \in Nodes \ {n} : Removed(m)'
    BY <1>1, <2>1 DEF Removed
  <2>3. q[Len(q)].phase = "Delete"
    BY <1>1, <2>1 DEF Removed, q
  <2>4. CASE Tail(q) # <<>>
    BY <1>1, <1>4, <1>8, <1>9, <1>10, <2>1, <2>2, <2>3, <2>4 DEF Removed
  <2>5. CASE Tail(q) = <<>>
    <3>1. d.phase = "Delete"
      BY <1>4, <2>3, <2>5
    <3>2. ~core'[n] /\ dir'[n] = 0
      <4>1. CASE known[n]
        BY <1>2, <3>1, <4>1
      <4>2. CASE ~known[n]
        <5>1. ~core[n] /\ dir[n] = 0
          BY <4>2 DEF ServedIsKnown
        <5> QED BY <1>2, <3>1, <4>2, <5>1
      <4> QED BY <4>1, <4>2
    <3> QED BY <1>1, <1>8, <1>9, <1>10, <2>1, <2>2, <2>5, <3>2 DEF Removed
  <2> QED BY <2>4, <2>5
<1>13. asked.op \in {"none", "kubectl"} => WritersDone' /\ ManagerDone' /\ dns = None
  BY <1>8, <1>9, <1>10 DEF Progress
<1>14. asked.op = "apply" /\ (client = None \/ client.phase # NoPhase) => Prepared'
  BY <1>7 DEF Progress
<1> QED BY <1>1, <1>11, <1>12, <1>13, <1>14 DEF Progress

\* A writer puts FileCreated: the last of these puts is of the version applied last.
LEMMA WriterPutsProgress ==
    ASSUME GatewayTypeOK, Progress, NEW n \in Nodes, WriterPuts(n), ~dropped'
    PROVE  Progress'
<1> USE UnsetFacts
<1>1. /\ put[n] # None /\ put' = [put EXCEPT ![n] = None] /\ Store(put[n])
      /\ UNCHANGED <<asked, client, dir, core, handler, name2Dns>>
  BY DEF WriterPuts, managerVars
<1>2. /\ put \in [Nodes -> Created \cup {None}] /\ put[n] \in Created /\ toManager \in Seq(Objects)
      /\ asked.op \in {"none", "apply", "delete", "kubectl"}
  BY <1>1 DEF GatewayTypeOK, NodeType, ManagerType, UserType
<1>3. put[n] \in Objects /\ put[n].phase = "FileCreated"
  BY <1>2, DnsFacts
<1>4. Stores(put[n])
  BY <1>1, <1>3, StoreStores
<1>5. toManager' = Append(toManager, put[n]) /\ toWriter' = toWriter
  BY <1>3, <1>4 DEF Stores
<1>6. ~WritersDone
  BY <1>1 DEF WritersDone
<1>7. asked.op = "apply"
  BY <1>2, <1>6 DEF Progress
<1>8. Has(toManager', "FileCreated")
  BY <1>2, <1>3, <1>5, AppendFacts
<1>9. ASSUME client = None PROVE WritersPutLast' /\ ManagerPutsLast' /\ DeployedLast'
  <2>1. WritersPutLast
    BY <1>7, <1>9 DEF Progress
  <2>2. WritersPutLast'
    BY <1>1, <1>2, <1>5, <2>1 DEF WritersPutLast
  <2>3. ManagerPutsLast'
    <3> SUFFICES ASSUME WritersDone' PROVE LastIs(toManager', "FileCreated", asked.ver)
      BY <1>1, <1>8 DEF ManagerPutsLast
    <3>1. put[n].ver = asked.ver
      BY <1>1, <1>5, <2>1 DEF WritersDone, WritersPutLast
    <3> QED BY <1>2, <1>3, <1>5, <3>1, AppendFacts
  <2> QED BY <1>8, <2>2, <2>3 DEF DeployedLast, ManagerDone
<1>10. Prepared => Prepared'
  BY <1>1, <1>5 DEF Prepared
<1> QED BY <1>1, <1>7, <1>9, <1>10 DEF Progress

\* A step of the manager that neither takes the last event of a version away nor puts anything.
LEMMA ManagerFrame ==
    ASSUME Progress, UNCHANGED <<dns, asked, client, toWriter, put, dir, core>>,
           ManagerDone => ManagerDone', ManagerDone' => ManagerDone,
           asked.op = "apply" /\ ManagerPutsLast => ManagerPutsLast'
    PROVE  Progress'
<1>1. (WritersDone' <=> WritersDone) /\ (Prepared' <=> Prepared)
  BY DEF WritersDone, Prepared
<1>2. WritersPutLast => WritersPutLast'
  BY DEF WritersPutLast
<1>3. DeployedLast => DeployedLast'
  BY <1>1 DEF DeployedLast, Serves
<1>4. \A n \in Nodes : Removed(n) => Removed(n)'
  BY DEF Removed
<1> QED BY <1>1, <1>2, <1>3, <1>4 DEF Progress

\* The manager takes an event.
LEMMA ManagerProgress ==
    ASSUME GatewayTypeOK, Progress, WatchDnsAndTrans
    PROVE  Progress'
<1> DEFINE d == Head(toManager)
<1>1. /\ handler = Idle /\ toManager # <<>> /\ toManager' = Tail(toManager)
      /\ handler' = [do |-> IF d.phase = "Delete" THEN "deleteService" ELSE "rs", d |-> d]
      /\ UNCHANGED <<dns, asked, client, toWriter, put, dir, core, name2Dns>>
  BY DEF WatchDnsAndTrans, nodeVars
<1>2. toManager \in Seq(Objects) /\ \A i \in DOMAIN toManager : toManager[i].phase \in {"FileCreated", "Delete"}
  BY DEF GatewayTypeOK, ManagerType
<1>3. d.phase \in {"FileCreated", "Delete"}
  BY <1>1, <1>2
<1>4. /\ \A p : Has(toManager, p) <=> d.phase = p \/ Has(toManager', p)
      /\ \A p, v : LastIs(toManager, p, v) => LastIs(toManager', p, v)
      /\ \A p, v : LastIs(toManager, p, v) /\ d.phase = p /\ ~Has(toManager', p) => d.ver = v
  BY <1>1, <1>2, TailFacts
<1> HIDE DEF d
<1>5. ~Deploying /\ (Deploying' <=> d.phase = "FileCreated") /\ handler'.d = d
  BY <1>1, <1>3, HandlerFacts DEF Deploying
<1>6. (ManagerDone => ManagerDone') /\ (ManagerDone' => ManagerDone)
  BY <1>1, <1>4, <1>5 DEF ManagerDone
<1>7. ASSUME ManagerPutsLast PROVE ManagerPutsLast'
  <2> SUFFICES ASSUME WritersDone'
               PROVE  /\ LastIs(toManager', "FileCreated", asked.ver)
                      /\ ~Has(toManager', "FileCreated") /\ Deploying' => handler'.d.ver = asked.ver
                      /\ ~Has(toManager', "FileCreated") /\ ~Deploying' /\ name2Dns # None => name2Dns.ver = asked.ver
    BY <1>1 DEF ManagerPutsLast
  <2>1. WritersDone
    BY <1>1 DEF WritersDone
  <2>2. /\ LastIs(toManager, "FileCreated", asked.ver)
        /\ ~Has(toManager, "FileCreated") /\ ~Deploying /\ name2Dns # None => name2Dns.ver = asked.ver
    BY <1>7, <2>1 DEF ManagerPutsLast
  <2> QED BY <1>4, <1>5, <2>2
<1> QED BY <1>1, <1>6, <1>7, ManagerFrame

\* The handler deploys the gateway or deletes its Service.
LEMMA HandlerProgress ==
    ASSUME GatewayTypeOK, Progress, AddConfigRs \/ UpdateService \/ PutName2Dns \/ DeleteGatewayService, ~dropped'
    PROVE  Progress'
<1>1. UNCHANGED <<dns, asked, client, toManager, toWriter, put, dir, core>>
  BY DEF AddConfigRs, UpdateService, PutName2Dns, DeleteGatewayService, NotStored, nodeVars
<1>2. WritersDone' <=> WritersDone
  BY <1>1 DEF WritersDone
<1>3. CASE AddConfigRs \/ UpdateService
  <2>1. handler.do \in {"rs", "service"} /\ name2Dns' = name2Dns
    BY <1>3 DEF AddConfigRs, UpdateService
  <2>2. handler \in Deploys
    BY <2>1, HandlerMoves
  <2>3. \E do \in {"service", "wait"} : handler' = [handler EXCEPT !.do = do]
    BY <1>3 DEF AddConfigRs, UpdateService, Then, GivesUp
  <2>4. handler'.do \in {"service", "wait"} /\ handler'.d = handler.d
    BY <2>2, <2>3, HandlerMoves
  <2>5. Deploying /\ Deploying'
    BY <2>1, <2>4 DEF Deploying
  <2> QED BY <1>1, <1>2, <2>1, <2>4, <2>5, ManagerFrame DEF ManagerDone, ManagerPutsLast
<1>4. CASE PutName2Dns
  <2>1. handler.do = "wait" /\ name2Dns' = handler.d /\ handler' = Idle
    BY <1>4 DEF PutName2Dns, Waits
  <2>2. handler.d # None
    BY <2>1, HandlerMoves, HandlerFacts, DnsFacts
  <2>3. Deploying /\ ~Deploying'
    BY <2>1, HandlerFacts DEF Deploying
  <2>4. ~ManagerDone /\ ~ManagerDone'
    BY <2>1, <2>2, <2>3 DEF ManagerDone
  <2>5. ManagerPutsLast => ManagerPutsLast'
    BY <1>1, <1>2, <2>1, <2>3 DEF ManagerPutsLast
  <2> QED BY <1>1, <2>4, <2>5, ManagerFrame
<1>5. CASE DeleteGatewayService
  <2>1. handler.do = "deleteService" /\ handler' = Idle /\ name2Dns' = name2Dns
    BY <1>5 DEF DeleteGatewayService
  <2>2. ~Deploying /\ ~Deploying'
    BY <2>1, HandlerFacts DEF Deploying
  <2> QED BY <1>1, <1>2, <2>1, <2>2, ManagerFrame DEF ManagerDone, ManagerPutsLast
<1> QED BY <1>3, <1>4, <1>5

\* checkDnsAndTrans puts ServiceCreated: the last of these puts is of the version applied last.
LEMMA CheckProgress ==
    ASSUME GatewayTypeOK, Progress, CheckDnsAndTrans
    PROVE  Progress'
<1> USE UnsetFacts
<1> DEFINE d == Dns("ServiceCreated", name2Dns.ver)
<1>1. name2Dns # None /\ UNCHANGED <<asked, client, put, dir, core, handler>>
  BY DEF CheckDnsAndTrans, nodeVars
<1>2. CASE NotStored /\ name2Dns' = name2Dns
  BY <1>1, <1>2, ManagerFrame DEF NotStored, ManagerDone, ManagerPutsLast, Deploying, WritersDone
<1>3. CASE Store(d) /\ name2Dns' = None
  <2>1. name2Dns \in Created /\ toWriter \in [Nodes -> Seq(Objects)] /\ asked.op \in {"none", "apply", "delete", "kubectl"}
    BY <1>1 DEF GatewayTypeOK, ManagerType, NodeType, UserType
  <2>2. d \in Objects /\ d.phase = "ServiceCreated"
    BY <2>1, DnsFacts DEF Phases
  <2>3. Stores(d)
    BY <1>3, <2>2, StoreStores
  <2>4. dns' = d /\ toManager' = toManager /\ \A n \in Nodes : toWriter'[n] = Append(toWriter[n], d)
    BY <2>2, <2>3 DEF Stores
  <2>5. ~ManagerDone
    BY <1>1 DEF ManagerDone
  <2>6. asked.op = "apply"
    BY <2>1, <2>5 DEF Progress
  <2>7. ASSUME NEW n \in Nodes
        PROVE  /\ toWriter'[n] # <<>> /\ toWriter'[n][Len(toWriter'[n])] = d
               /\ Has(toWriter'[n], NoPhase) <=> Has(toWriter[n], NoPhase)
               /\ \A v : LastIs(toWriter[n], NoPhase, v) => LastIs(toWriter'[n], NoPhase, v)
               /\ Ready(toWriter[n], dir[n]) => Ready(toWriter'[n], dir[n])
    <3>1. toWriter[n] \in Seq(Objects) /\ toWriter'[n] = Append(toWriter[n], d)
      BY <2>1, <2>4
    <3> HIDE DEF d
    <3>2. Ready(toWriter[n], dir[n]) => Ready(Append(toWriter[n], d), dir[n])
      BY <2>2, <3>1, ReadyAppend
    <3> QED BY <2>2, <3>1, <3>2, AppendFacts
  <2>8. WritersDone' <=> WritersDone
    BY <1>1, <2>7 DEF WritersDone
  <2>9. Deploying' <=> Deploying
    BY <1>1 DEF Deploying
  <2>10. Prepared => Prepared'
    BY <1>1, <2>7 DEF Prepared
  <2>11. ASSUME client = None PROVE WritersPutLast' /\ ManagerPutsLast' /\ DeployedLast'
    <3>1. WritersPutLast /\ ManagerPutsLast
      BY <2>6, <2>11 DEF Progress
    <3>2. WritersPutLast'
      BY <1>1, <2>7, <3>1 DEF WritersPutLast
    <3>3. ManagerPutsLast'
      BY <1>1, <1>3, <2>4, <2>8, <2>9, <3>1 DEF ManagerPutsLast
    <3>4. DeployedLast'
      <4> SUFFICES ASSUME WritersDone', ManagerDone'
                   PROVE  d = Dns("ServiceCreated", asked.ver) /\ \A n \in Nodes : Serves(n, asked.ver)'
        BY <1>1, <2>4 DEF DeployedLast
      <4>1. name2Dns.ver = asked.ver
        BY <1>1, <2>4, <2>8, <2>9, <3>1 DEF ManagerPutsLast, ManagerDone
      <4> QED BY <1>1, <2>7, <4>1 DEF Serves
    <3> QED BY <3>2, <3>3, <3>4
  <2> QED BY <1>1, <2>6, <2>10, <2>11 DEF Progress
<1> QED BY <1>2, <1>3 DEF CheckDnsAndTrans, WaitsAfter

\* The invariant holds after a step.
LEMMA LastNext == GatewayTypeOK /\ LastInv /\ [GatewayNext]_gatewayVars => LastInv'
<1> SUFFICES ASSUME GatewayTypeOK, LastInv, [GatewayNext]_gatewayVars PROVE LastInv'
  OBVIOUS
<1>1. ServedIsKnown'
  BY KnownNext DEF LastInv
<1>2. ASSUME ~lagged', ~dropped' PROVE Progress'
  <2>1. ~lagged /\ ~dropped
    <3>1. CASE ApplyStores \/ ApplyDelete \/ KubectlDelete
      <4>1. (lagged => lagged') /\ dropped' = dropped
        BY <3>1 DEF ApplyStores, ApplyDelete, KubectlDelete
      <4> QED BY <1>2, <4>1
    <3>2. CASE UNCHANGED gatewayVars \/ Apply \/ (\E n \in Nodes : Writer(n)) \/ WatchDnsAndTrans \/ PutName2Dns
                 \/ CheckDnsAndTrans \/ ServiceFollows
      <4>1. lagged' = lagged /\ dropped' = dropped
        BY <3>2 DEF gatewayVars, history, Apply, Writer, WatchDnsAndTrans, PutName2Dns, CheckDnsAndTrans, ServiceFollows
      <4> QED BY <1>2, <4>1
    <3>3. CASE (\E n \in Nodes : WriterPuts(n)) \/ AddConfigRs \/ UpdateService \/ DeleteGatewayService
      <4>1. lagged' = lagged /\ (dropped' = dropped \/ dropped' = TRUE)
        BY <3>3 DEF WriterPuts, AddConfigRs, UpdateService, DeleteGatewayService, GivesUp
      <4> QED BY <1>2, <4>1
    <3> QED BY <3>1, <3>2, <3>3, NextSteps
  <2>2. Progress /\ ServedIsKnown
    BY <2>1 DEF LastInv
  <2>3. CASE UNCHANGED <<dns, asked, client, toManager, toWriter, put, dir, core, handler, name2Dns>>
    BY <2>2, <2>3, ManagerFrame DEF ManagerDone, ManagerPutsLast, Deploying, WritersDone
  <2>4. CASE UNCHANGED gatewayVars
    BY <2>3, <2>4 DEF gatewayVars, nodeVars, managerVars
  <2>5. CASE ServiceFollows
    BY <2>3, <2>5 DEF ServiceFollows, NotStored, nodeVars, managerVars
  <2> QED BY <1>2, <2>2, <2>4, <2>5, NextSteps, ApplyProgress, ApplyStoresProgress, DeleteProgress, WriterProgress,
             WriterPutsProgress, ManagerProgress, HandlerProgress, CheckProgress
<1> QED BY <1>1, <1>2 DEF LastInv

\* Both invariants always hold.
LEMMA LastInvariant == GatewaySpec => [](GatewayTypeOK /\ LastInv)
<1>1. GatewayInit => GatewayTypeOK /\ LastInv
  BY TypeInit, KnownInit, ProgressInit DEF LastInv
<1>2. GatewayTypeOK /\ LastInv /\ [GatewayNext]_gatewayVars => (GatewayTypeOK /\ LastInv)'
  BY TypeNext, LastNext
<1> QED BY <1>1, <1>2, PTL DEF GatewaySpec

\* The user has the last word, for any nodes, versions, deletions and failures: once all is quiet
\* the store holds the version applied last, or the deletion, unless the request overtook work on
\* an older version or a request failed that nobody repeats.
THEOREM UserHasLastWord == GatewaySpec => []LastWordStands
<1>1. GatewayTypeOK /\ LastInv => LastWordStands
  <2> SUFFICES ASSUME GatewayTypeOK, LastInv, Quiet, ~lagged, ~dropped
               PROVE  CASE asked.op = "apply" -> dns.ver = asked.ver /\ dns.phase # "Delete"
                        [] asked.op = "delete" -> dns.phase = "Delete"
                        [] OTHER -> dns = None
    BY DEF LastWordStands
  <2>1. Progress /\ client = None /\ asked.op \in {"none", "apply", "delete", "kubectl"}
    BY DEF LastInv, Quiet, GatewayTypeOK, UserType
  <2>2. WritersDone /\ ManagerDone
    BY HandlerFacts DEF Quiet, WritersDone, ManagerDone, Deploying, Has
  <2>3. CASE asked.op = "apply"
    <3>1. dns = Dns("ServiceCreated", asked.ver)
      BY <2>1, <2>2, <2>3 DEF Progress, DeployedLast
    <3> QED BY <2>3, <3>1 DEF Dns
  <2>4. CASE asked.op = "delete"
    BY <2>1, <2>4 DEF Progress
  <2>5. CASE asked.op \in {"none", "kubectl"}
    BY <2>1, <2>5 DEF Progress
  <2> QED BY <2>1, <2>3, <2>4, <2>5
<1> QED BY <1>1, LastInvariant, PTL

\* Every node serves what the store says, for any nodes, versions, deletions and failures: the
\* version of a deployed DnsAndTrans and its host, and neither of a deleted one.
THEOREM NodesServeStore == GatewaySpec => []NodesServe
<1>1. GatewayTypeOK /\ LastInv => NodesServe
  <2> SUFFICES ASSUME GatewayTypeOK, LastInv, Quiet, ~lagged, ~dropped
               PROVE  /\ dns.phase = "ServiceCreated" => \A n \in Nodes : core[n] /\ dir[n] = dns.ver
                      /\ dns.phase = "Delete" => \A n \in Nodes : ~core[n] /\ dir[n] = 0
    BY DEF NodesServe
  <2>1. Progress /\ client = None /\ asked.op \in {"none", "apply", "delete", "kubectl"}
    BY DEF LastInv, Quiet, GatewayTypeOK, UserType
  <2>2. WritersDone /\ ManagerDone /\ \A n \in Nodes : toWriter[n] = <<>>
    BY HandlerFacts DEF Quiet, WritersDone, ManagerDone, Deploying, Has
  <2>3. CASE asked.op = "apply"
    <3>1. dns = Dns("ServiceCreated", asked.ver) /\ \A n \in Nodes : Serves(n, asked.ver)
      BY <2>1, <2>2, <2>3 DEF Progress, DeployedLast
    <3>2. dns.phase = "ServiceCreated" /\ dns.ver = asked.ver
      BY <3>1 DEF Dns
    <3> QED BY <2>2, <3>1, <3>2 DEF Serves
  <2>4. CASE asked.op = "delete"
    <3>1. dns.phase = "Delete" /\ \A n \in Nodes : Removed(n)
      BY <2>1, <2>4 DEF Progress
    <3> QED BY <2>2, <3>1 DEF Removed
  <2>5. CASE asked.op \in {"none", "kubectl"}
    BY <2>1, <2>5, DnsFacts DEF Progress
  <2> QED BY <2>1, <2>3, <2>4, <2>5
<1> QED BY <1>1, LastInvariant, PTL

-----------------------------------------------------------------------------
(* Services: the loops of selectPods.                                      *)

\* A set of natural numbers that is not empty has a least element.
LEMMA LeastElement ==
  ASSUME NEW B, B \subseteq Nat, B # {}
  PROVE  \E n \in B : \A k \in B : n <= k
<1> DEFINE R == OpToRel(<, Nat)
<1>1. IsWellFoundedOn(R, Nat)
  BY NatLessThanWellFounded
<1>2. \A x, y \in Nat : y < x => <<y, x>> \in R
  BY DEF OpToRel
<1> HIDE DEF R
<1>3. PICK n \in B : \A k \in B : ~(<<k, n>> \in R)
  BY <1>1, WFMin
<1>4. ASSUME NEW k \in B PROVE n <= k
  <2>1. n \in Nat /\ k \in Nat
    OBVIOUS
  <2>2. ~(<<k, n>> \in R)
    BY <1>3, <1>4
  <2>3. ~(k < n)
    BY <1>2, <2>1, <2>2
  <2> QED BY <2>1, <2>3
<1> QED BY <1>4

\* Induction up to N, with a set in place of a predicate: the least number outside of G would be
\* neither 0 nor a successor.  The loops of selectPods are reasoned about with it.
LEMMA UpTo ==
  ASSUME NEW N \in Nat, NEW G, 0 \in G, \A i \in Nat : i < N /\ i \in G => i + 1 \in G
  PROVE  \A i \in 0..N : i \in G
<1> DEFINE B == (0..N) \ G
<1>1. SUFFICES ASSUME B # {} PROVE FALSE
  OBVIOUS
<1>2. B \subseteq Nat
  OBVIOUS
<1>3. \A n \in B : n \in 0..N /\ n \notin G
  OBVIOUS
<1>4. \A n \in 0..N : n \in G \/ n \in B
  OBVIOUS
<1> HIDE DEF B
<1>5. PICK n \in B : \A k \in B : n <= k
  BY <1>1, <1>2, LeastElement
<1>6. n \in 0..N /\ n \notin G
  BY <1>3
<1>7. n # 0 /\ n - 1 \in 0..N /\ n - 1 \in Nat /\ n - 1 < N
  BY <1>6
<1>8. n - 1 \notin B
  BY <1>5, <1>6, <1>7
<1>9. n - 1 \in G
  BY <1>4, <1>7, <1>8
<1>10. (n - 1) + 1 \in G
  BY <1>7, <1>9
<1> QED BY <1>6, <1>10

Kept(f, s, S, i) ==
    IF i = 0 THEN <<>> ELSE IF s[i] \in S THEN Append(f[i - 1], s[i]) ELSE f[i - 1]

Keeps(f, s, S, n) == f = [i \in 0..n |-> Kept(f, s, S, i)]

\* The recursion of Filter has a solution: one for the first n + 1 elements extends one for n.
LEMMA FilterExists ==
  ASSUME NEW s, NEW S, NEW N \in Nat
  PROVE  \E f : Keeps(f, s, S, N)
<1> DEFINE G == {n \in Nat : \E f : Keeps(f, s, S, n)}
<1>1. 0 \in G
  <2> DEFINE f == [i \in 0..0 |-> <<>>]
  <2>1. Keeps(f, s, S, 0)
    BY DEF Keeps, Kept
  <2> QED BY <2>1
<1>2. ASSUME NEW n \in Nat, n \in G PROVE n + 1 \in G
  <2>1. PICK f : Keeps(f, s, S, n)
    BY <1>2
  <2> DEFINE last == IF s[n + 1] \in S THEN Append(f[n], s[n + 1]) ELSE f[n]
             g == [i \in 0..(n + 1) |-> IF i = n + 1 THEN last ELSE f[i]]
  <2>2. ASSUME NEW i \in 0..(n + 1) PROVE g[i] = Kept(g, s, S, i)
    <3>1. CASE i = n + 1
      <4>1. i # 0 /\ i - 1 = n /\ g[n] = f[n] /\ g[i] = last
        BY <3>1
      <4> QED BY <4>1, <3>1 DEF Kept
    <3>2. CASE i = 0
      <4>1. i \in 0..n /\ i # n + 1 /\ g[i] = f[i]
        BY <3>2
      <4>2. f[i] = Kept(f, s, S, i)
        BY <2>1, <4>1 DEF Keeps
      <4> QED BY <4>1, <4>2, <3>2 DEF Kept
    <3>3. CASE i # n + 1 /\ i # 0
      <4>1. /\ i \in 0..n /\ i - 1 \in 0..(n + 1) /\ i - 1 # n + 1 /\ g[i] = f[i]
            /\ g[i - 1] = f[i - 1]
        BY <3>3
      <4>2. f[i] = Kept(f, s, S, i)
        BY <2>1, <4>1 DEF Keeps
      <4> HIDE DEF g
      <4> QED BY <4>1, <4>2, <3>3 DEF Kept
    <3> QED BY <3>1, <3>2, <3>3
  <2>3. Keeps(g, s, S, n + 1)
    BY <2>2 DEF Keeps
  <2>4. n + 1 \in Nat
    OBVIOUS
  <2> HIDE DEF g
  <2> QED BY <2>3, <2>4
<1> HIDE DEF G
<1>3. \A i \in 0..N : i \in G
  BY <1>1, <1>2, UpTo
<1>4. N \in G
  BY <1>3
<1> QED BY <1>4 DEF G

\* An injection that says where the elements of t come from.
Picks(t, s, S, n, m) ==
    /\ m \in [1..Len(t) -> 1..n]
    /\ \A i, j \in 1..Len(t) : i # j => m[i] # m[j]
    /\ \A i \in 1..Len(t) : t[i] = s[m[i]] /\ s[m[i]] \in S

\* Before the loop nothing is picked.
LEMMA PicksEmpty ==
  ASSUME NEW s, NEW S
  PROVE  \E m : Picks(<<>>, s, S, 0, m)
<1> DEFINE m == [i \in 1..0 |-> 1]
<1>1. Picks(<<>>, s, S, 0, m)
  BY DEF Picks
<1> QED BY <1>1

\* An element that is passed over changes nothing.
LEMMA PicksSkip ==
  ASSUME NEW E, NEW t \in Seq(E), NEW s, NEW S, NEW n \in Nat, NEW m, Picks(t, s, S, n, m)
  PROVE  Picks(t, s, S, n + 1, m)
<1>1. Len(t) \in Nat
  OBVIOUS
<1>2. 1..n \subseteq 1..(n + 1)
  OBVIOUS
<1>3. m \in [1..Len(t) -> 1..(n + 1)]
  BY <1>2 DEF Picks
<1> QED BY <1>3 DEF Picks

\* An element that is kept comes from a place of its own.
LEMMA PicksAppend ==
  ASSUME NEW E, NEW t \in Seq(E), NEW s, NEW S, NEW n \in Nat, NEW m, Picks(t, s, S, n, m),
         s[n + 1] \in S, s[n + 1] \in E
  PROVE  \E k : Picks(Append(t, s[n + 1]), s, S, n + 1, k)
<1> DEFINE L == Len(t)
           u == Append(t, s[n + 1])
           k == [i \in 1..(L + 1) |-> IF i = L + 1 THEN n + 1 ELSE m[i]]
<1>1. L \in Nat /\ Len(u) = L + 1 /\ u[L + 1] = s[n + 1] /\ \A i \in 1..L : u[i] = t[i]
  OBVIOUS
<1>2. \A i \in 1..L : m[i] \in 1..n /\ t[i] = s[m[i]] /\ s[m[i]] \in S
  BY DEF Picks
<1>3. \A i, j \in 1..L : i # j => m[i] # m[j]
  BY DEF Picks
<1> HIDE DEF L, u
<1>4. k \in [1..(L + 1) -> 1..(n + 1)]
  BY <1>1, <1>2
<1>5. k[L + 1] = n + 1 /\ \A i \in 1..L : k[i] = m[i]
  BY <1>1
<1>6. \A i \in 1..(L + 1) : i = L + 1 \/ i \in 1..L
  BY <1>1
<1> HIDE DEF k
<1>7. ASSUME NEW i \in 1..(L + 1), NEW j \in 1..(L + 1), i # j PROVE k[i] # k[j]
  <2>1. CASE i \in 1..L /\ j \in 1..L
    BY <2>1, <1>3, <1>5, <1>7
  <2>2. CASE i = L + 1 /\ j \in 1..L
    BY <2>2, <1>2, <1>5
  <2>3. CASE j = L + 1 /\ i \in 1..L
    BY <2>3, <1>2, <1>5
  <2> QED BY <1>6, <1>7, <2>1, <2>2, <2>3
<1>8. ASSUME NEW i \in 1..(L + 1) PROVE u[i] = s[k[i]] /\ s[k[i]] \in S
  <2>1. CASE i \in 1..L
    BY <2>1, <1>1, <1>2, <1>5
  <2>2. CASE i = L + 1
    BY <2>2, <1>1, <1>5
  <2> QED BY <1>6, <2>1, <2>2
<1>9. Picks(u, s, S, n + 1, k)
  BY <1>1, <1>4, <1>7, <1>8 DEF Picks
<1> QED BY <1>9 DEF u

\* What the loops of selectPods keep: elements of the list that pass the test, each from a place of
\* its own.
LEMMA FilterPicks ==
  ASSUME NEW E, NEW s \in Seq(E), NEW S
  PROVE  Filter(s, S) \in Seq(E) /\ \E m : Picks(Filter(s, S), s, S, Len(s), m)
<1> DEFINE N == Len(s)
           f == CHOOSE g : Keeps(g, s, S, N)
           G == {n \in 0..N : f[n] \in Seq(E) /\ \E m : Picks(f[n], s, S, n, m)}
<1>1. N \in Nat /\ \A i \in 1..N : s[i] \in E
  OBVIOUS
<1> HIDE DEF N
<1>2. f = [i \in 0..N |-> Kept(f, s, S, i)]
  <2>1. \E g : Keeps(g, s, S, N)
    BY <1>1, FilterExists
  <2>2. Keeps(f, s, S, N)
    BY <2>1
  <2> HIDE DEF f
  <2> QED BY <2>2 DEF Keeps
<1>3. Filter(s, S) = f[N]
  BY DEF Filter, Keeps, Kept, N
<1> HIDE DEF f
<1>4. f[0] = <<>>
  BY <1>1, <1>2 DEF Kept
<1>5. 0 \in G
  <2>1. f[0] \in Seq(E)
    BY <1>4
  <2>2. \E m : Picks(f[0], s, S, 0, m)
    BY <1>4, PicksEmpty
  <2>3. 0 \in 0..N
    BY <1>1
  <2> QED BY <2>1, <2>2, <2>3
<1>6. ASSUME NEW n \in Nat, n < N, n \in G PROVE n + 1 \in G
  <2>1. f[n + 1] = IF s[n + 1] \in S THEN Append(f[n], s[n + 1]) ELSE f[n]
    <3>1. n + 1 \in 0..N /\ n + 1 # 0 /\ (n + 1) - 1 = n
      BY <1>1, <1>6
    <3>2. f[n + 1] = Kept(f, s, S, n + 1)
      BY <1>2, <3>1
    <3> QED BY <3>1, <3>2 DEF Kept
  <2>2. n + 1 \in 0..N /\ s[n + 1] \in E
    BY <1>1, <1>6
  <2>3. f[n] \in Seq(E)
    BY <1>6
  <2>4. PICK m : Picks(f[n], s, S, n, m)
    BY <1>6
  <2>5. CASE s[n + 1] \in S
    <3>1. f[n + 1] = Append(f[n], s[n + 1])
      BY <2>1, <2>5
    <3>2. f[n + 1] \in Seq(E)
      BY <2>2, <2>3, <3>1
    <3>3. \E k : Picks(f[n + 1], s, S, n + 1, k)
      BY <2>2, <2>3, <2>4, <2>5, <3>1, PicksAppend
    <3> QED BY <2>2, <3>2, <3>3
  <2>6. CASE s[n + 1] \notin S
    <3>1. f[n + 1] = f[n]
      BY <2>1, <2>6
    <3>2. Picks(f[n + 1], s, S, n + 1, m)
      BY <2>3, <2>4, <3>1, PicksSkip
    <3> QED BY <2>2, <2>3, <3>1, <3>2
  <2> QED BY <2>5, <2>6
<1> HIDE DEF G
<1>7. N \in G
  <2>1. \A i \in 0..N : i \in G
    BY <1>1, <1>5, <1>6, UpTo
  <2> QED BY <1>1, <2>1
<1>8. f[N] \in Seq(E) /\ \E m : Picks(f[N], s, S, N, m)
  BY <1>7 DEF G
<1> QED BY <1>3, <1>8 DEF N

\* No pod twice.
Distinct(s) == \A i, j \in DOMAIN s : i # j => s[i].pod # s[j].pod

\* A list with no pod twice has as many names as elements.
LEMMA NamesCount ==
  ASSUME NEW s \in Seq(Endpoint), Distinct(s)
  PROVE  IsFiniteSet(Names(s)) /\ Cardinality(Names(s)) = Len(s)
<1> DEFINE L == Len(s)
           I == 1..L
           T == Names(s)
           f == [i \in I |-> s[i].pod]
<1>1. L \in Nat /\ DOMAIN s = I
  OBVIOUS
<1>2. IsFiniteSet(I) /\ Cardinality(I) = L
  BY <1>1, FS_Interval
<1>3. T = {s[i].pod : i \in I}
  BY <1>1 DEF Names
<1> HIDE DEF L, I, T
<1>4. f \in [I -> T] /\ DOMAIN f = I
  BY <1>3
<1>5. \A i \in I : f[i] = s[i].pod
  OBVIOUS
<1>6. \A i, j \in I : f[i] = f[j] => i = j
  BY <1>1, <1>5 DEF Distinct
<1> HIDE DEF f
<1>7. \A t \in T : \E i \in I : f[i] = t
  BY <1>3, <1>5
<1>8. f \in Surjection(I, T)
  BY <1>4, <1>7 DEF Surjection
<1>9. f \in Injection(I, T)
  BY <1>4, <1>6 DEF Injection, IsInjective
<1>10. IsFiniteSet(T) /\ Cardinality(T) = Cardinality(I)
  BY <1>2, <1>8, <1>9, FS_Surjection
<1> QED BY <1>2, <1>10 DEF L, T

\* compareOldAndNew looks one way only, from the old pods to the new ones; for lists of the same
\* length with no pod twice that is enough.
LEMMA SameNames ==
  ASSUME NEW s \in Seq(Endpoint), Distinct(s), NEW t \in Seq(Endpoint), Distinct(t),
         ~CompareOldAndNew(s, t)
  PROVE  Len(s) = Len(t) /\ Names(s) = Names(t)
<1>1. Len(s) = Len(t) /\ Names(s) \subseteq Names(t)
  BY DEF CompareOldAndNew
<1>2. Cardinality(Names(s)) = Cardinality(Names(t)) /\ IsFiniteSet(Names(t))
  BY <1>1, NamesCount
<1> QED BY <1>1, <1>2, FS_Subset

\* Appending pods that are not in the list yet keeps every pod once.
LEMMA ConcatDistinct ==
  ASSUME NEW s \in Seq(Endpoint), Distinct(s), NEW t \in Seq(Endpoint), Distinct(t),
         \A i \in DOMAIN t : t[i].pod \notin Names(s)
  PROVE  s \o t \in Seq(Endpoint) /\ Distinct(s \o t)
<1> DEFINE L == Len(s)
           M == Len(t)
           u == s \o t
<1>1. L \in Nat /\ M \in Nat /\ DOMAIN s = 1..L /\ DOMAIN t = 1..M
  OBVIOUS
<1>2. u \in Seq(Endpoint) /\ DOMAIN u = 1..(L + M)
  OBVIOUS
<1>3. \A i \in 1..L : u[i] = s[i]
  OBVIOUS
<1>4. \A i \in (L + 1)..(L + M) : u[i] = t[i - L] /\ i - L \in 1..M
  OBVIOUS
<1> HIDE DEF L, M, u
<1>5. \A i \in 1..(L + M) : i \in 1..L \/ i \in (L + 1)..(L + M)
  BY <1>1
<1>6. \A i, j \in 1..L : i # j => s[i].pod # s[j].pod
  BY <1>1 DEF Distinct
<1>7. \A i, j \in 1..M : i # j => t[i].pod # t[j].pod
  BY <1>1 DEF Distinct
<1>8. \A i \in 1..L, j \in 1..M : s[i].pod # t[j].pod
  BY <1>1 DEF Names
<1>9. ASSUME NEW i \in 1..(L + M), NEW j \in 1..(L + M), i # j PROVE u[i].pod # u[j].pod
  <2>1. CASE i \in 1..L /\ j \in 1..L
    BY <2>1, <1>3, <1>6, <1>9
  <2>2. CASE i \in 1..L /\ j \in (L + 1)..(L + M)
    BY <2>2, <1>3, <1>4, <1>8
  <2>3. CASE i \in (L + 1)..(L + M) /\ j \in 1..L
    BY <2>3, <1>3, <1>4, <1>8
  <2>4. CASE i \in (L + 1)..(L + M) /\ j \in (L + 1)..(L + M)
    <3>1. i - L # j - L
      BY <1>1, <1>9
    <3> QED BY <2>4, <3>1, <1>4, <1>7
  <2> QED BY <1>5, <2>1, <2>2, <2>3, <2>4
<1>10. Distinct(u)
  BY <1>2, <1>9 DEF Distinct
<1> QED BY <1>2, <1>10 DEF u

\* A pod that is Running has an IP.
PodInv ==
    /\ starts \in [Pods -> 0..MaxStarts] /\ running \subseteq Pods
    /\ \A p \in running : starts[p] \in Ips

\* The pods selectPods adds are running pods it does not have, each once.
LEMMA FreshPods ==
  ASSUME NEW S, S \subseteq Pods
  PROVE  /\ Filter(KeyOrder, S) \in Seq(Pods)
         /\ \A i \in DOMAIN Filter(KeyOrder, S) : Filter(KeyOrder, S)[i] \in S
         /\ \A i, j \in DOMAIN Filter(KeyOrder, S) :
               i # j => Filter(KeyOrder, S)[i] # Filter(KeyOrder, S)[j]
<1> DEFINE t == Filter(KeyOrder, S)
<1>1. NumPods \in Nat
  BY ServiceAssumption DEF ServiceAssumption
<1>2. /\ KeyOrder \in Seq(Pods) /\ Len(KeyOrder) = NumPods
      /\ \A i \in 1..NumPods : KeyOrder[i] = i
  BY <1>1 DEF KeyOrder, Pods
<1>3. t \in Seq(Pods) /\ \E m : Picks(t, KeyOrder, S, NumPods, m)
  BY <1>2, FilterPicks
<1> HIDE DEF t
<1>4. PICK m : Picks(t, KeyOrder, S, NumPods, m)
  BY <1>3
<1>5. DOMAIN t = 1..Len(t)
  BY <1>3
<1>6. \A i \in DOMAIN t : m[i] \in 1..NumPods /\ t[i] = m[i] /\ t[i] \in S
  BY <1>2, <1>4, <1>5 DEF Picks
<1>7. \A i, j \in DOMAIN t : i # j => t[i] # t[j]
  BY <1>4, <1>5, <1>6 DEF Picks
<1> QED BY <1>3, <1>6, <1>7 DEF t

\* The pods selectPods keeps are some of those it had, each once.
LEMMA OkPods ==
  ASSUME NEW s \in Seq(Endpoint), Distinct(s), NEW S
  PROVE  Filter(s, S) \in Seq(Endpoint) /\ Distinct(Filter(s, S))
<1> DEFINE t == Filter(s, S)
<1>1. t \in Seq(Endpoint) /\ \E m : Picks(t, s, S, Len(s), m)
  BY FilterPicks
<1> HIDE DEF t
<1>2. PICK m : Picks(t, s, S, Len(s), m)
  BY <1>1
<1>3. DOMAIN t = 1..Len(t) /\ DOMAIN s = 1..Len(s)
  BY <1>1
<1>4. \A i \in DOMAIN t : m[i] \in DOMAIN s /\ t[i] = s[m[i]]
  BY <1>2, <1>3 DEF Picks
<1>5. \A i, j \in DOMAIN t : i # j => m[i] # m[j]
  BY <1>2, <1>3 DEF Picks
<1>6. Distinct(t)
  BY <1>4, <1>5 DEF Distinct
<1> QED BY <1>1, <1>6 DEF t

\* A selection is a list of endpoints with no pod twice.
LEMMA SelectedIsDistinct ==
  ASSUME PodInv, NEW g \in Gens, chosen[g] \in Seq(Endpoint),
         Distinct(chosen[g])
  PROVE  Selected(g) \in Seq(Endpoint) /\ Distinct(Selected(g))
<1> DEFINE ok == Filter(chosen[g], {e \in Endpoint : e.pod \notin bad[g]})
           S == running \ Names(ok)
           fresh == Filter(KeyOrder, S)
           room == IF Len(ok) < MaxEndpoints THEN MaxEndpoints - Len(ok) ELSE 0
           k == IF Len(fresh) < room THEN Len(fresh) ELSE room
           added == SubSeq(fresh, 1, k)
           new == [i \in DOMAIN added |-> [pod |-> added[i], ip |-> starts[added[i]]]]
<1>1. Selected(g) = ok \o new
  BY DEF Selected
<1>2. ok \in Seq(Endpoint) /\ Distinct(ok)
  BY OkPods
<1> HIDE DEF ok
<1>3. S \subseteq Pods /\ \A p \in S : p \in running /\ p \notin Names(ok)
  BY DEF PodInv
<1> HIDE DEF S
<1>4. fresh \in Seq(Pods) /\ \A i \in DOMAIN fresh : fresh[i] \in S
  BY <1>3, FreshPods
<1>5. \A i, j \in DOMAIN fresh : i # j => fresh[i] # fresh[j]
  BY <1>3, FreshPods
<1> HIDE DEF fresh
<1>6. room \in Nat
  BY <1>2, ServiceAssumption DEF ServiceAssumption
<1> HIDE DEF room
<1>7. k \in Nat /\ k <= Len(fresh)
  BY <1>4, <1>6
<1> HIDE DEF k
<1>8. /\ added \in Seq(Pods) /\ Len(added) = k /\ DOMAIN added = 1..k
      /\ \A i \in 1..k : added[i] = fresh[i]
  BY <1>4, <1>7
<1>9. \A i \in 1..k : i \in DOMAIN fresh
  BY <1>4, <1>7
<1> HIDE DEF added
<1>10. \A i \in 1..k : added[i] \in running /\ added[i] \in Pods /\ added[i] \notin Names(ok)
  BY <1>3, <1>4, <1>8, <1>9 DEF PodInv
<1>11. \A i \in 1..k : [pod |-> added[i], ip |-> starts[added[i]]] \in Endpoint
  BY <1>10 DEF PodInv, Endpoint
<1>12. new \in Seq(Endpoint) /\ DOMAIN new = 1..k /\ \A i \in 1..k : new[i].pod = added[i]
  BY <1>7, <1>8, <1>11
<1> HIDE DEF new
<1>13. Distinct(new)
  BY <1>5, <1>8, <1>9, <1>12 DEF Distinct
<1>14. \A i \in DOMAIN new : new[i].pod \notin Names(ok)
  BY <1>10, <1>12
<1> QED BY <1>1, <1>2, <1>12, <1>13, <1>14, ConcatDistinct

-----------------------------------------------------------------------------
(* Services: the invariant.                                                *)

\* At most one of the permission to send a poll, a poll in the channel and a poll being handled.
OnePoll ==
    \A g \in Gens :
       /\ canPollSend[g] => polls[g] = 0 /\ syncLoop[g] # "select"
       /\ syncLoop[g] = "select" => polls[g] = 0

\* The generations the manager has not made yet: each is announced once ...
Queue ==
    /\ manager.create \in 0..applies
    /\ \A i \in DOMAIN svcEvents :
          /\ svcEvents[i] \in 0..applies
          /\ svcEvents[i] # NoGen => svcEvents[i] # manager.create
          /\ \A j \in DOMAIN svcEvents :
                i # j /\ svcEvents[i] # NoGen => svcEvents[i] # svcEvents[j]

\* ... and has left nothing anywhere.
ToCome(g) == g > applies \/ g = manager.create \/ \E i \in DOMAIN svcEvents : svcEvents[i] = g
Blank(g) ==
    /\ syncLoop[g] = "off" /\ polls[g] = 0 /\ ~canPollSend[g] /\ ~closed[g]
    /\ chosen[g] = <<>> /\ entry.gen # g
NoTrace == \A g \in Gens : ToCome(g) => Blank(g)

\* The manager works on the generation in serviceMap, and makes one only when there is none.
ManagerInv ==
    /\ manager.at = "idle" => manager.create = NoGen
    /\ manager.at \in {"lock", "stopping"} => manager.gen = serviceMap /\ serviceMap # NoGen
    /\ manager.at = "new" => serviceMap = NoGen /\ manager.create # NoGen

\* The generation that runs and is not deleted is the one in serviceMap; one that is deleted
\* stores something only if it is in late.
Owned ==
    \A g \in Gens :
       /\ syncLoop[g] # "off" /\ ~closed[g] <=> serviceMap = g
       /\ Stopping(g) => syncLoop[g] # "select"
       /\ closed[g] /\ (polls[g] > 0 \/ syncLoop[g] = "select") => g \in late
       /\ timer[g] = "idle" => ~closed[g]

\* What a generation keeps is one selection: the stored names are those of its pods.
PhaseOf(s) == IF s = <<>> THEN "Failed" ELSE "Running"
IsSelection(pods, endpoints, status) ==
    /\ Distinct(pods) /\ Distinct(endpoints) /\ Names(endpoints) = Names(pods)
    /\ status # Unset => status = PhaseOf(pods)
Selections == \A g \in Gens : IsSelection(chosen[g], spec[g], phase[g])

\* The entry of the current Service is what its generation holds.
EntryStored ==
    serviceMap \notin missed \cup {NoGen} /\ entry.gen = serviceMap =>
       /\ entry.endpoints = spec[serviceMap] /\ entry.phase = phase[serviceMap]
       /\ phase[serviceMap] # Unset

ServiceInv ==
    /\ TypeOK /\ PodInv /\ OnePoll /\ Queue /\ NoTrace /\ ManagerInv /\ Owned /\ EntryHasOwner
    /\ Selections /\ EntryStored

-----------------------------------------------------------------------------
(* Services: what a selection does.                                        *)

\* The phase the user writes is neither of those the controller stores.
LEMMA UnsetDiffers == Unset # "Running" /\ Unset # "Failed"
  BY Zenon DEF Unset

\* NoGen is none of the generations.
LEMMA GensAreNumbers ==
  NoGen \notin Gens /\ NoGen = 0 /\ Gens \subseteq Nat /\ Gens = 1..MaxApplies
  BY ServiceAssumption DEF ServiceAssumption, NoGen, Gens

EntryType == [gen : Gens \cup {NoGen}, endpoints : Seq(Endpoint), phase : ServicePhases]

\* The entry stays, with or without its change being missed, or becomes what g holds.
SelectEffect(g) ==
    /\ chosen' \in [Gens -> Seq(Endpoint)] /\ \A h \in Gens \ {g} : chosen'[h] = chosen[h]
    /\ bad' \in [Gens -> SUBSET Pods]
    /\ spec' \in [Gens -> Seq(Endpoint)] /\ \A h \in Gens \ {g} : spec'[h] = spec[h]
    /\ phase' \in [Gens -> ServicePhases]
    /\ \A h \in Gens \ {g} : phase'[h] = phase[h]
    /\ IsSelection(chosen'[g], spec'[g], phase'[g])
    /\ entry' \in EntryType /\ missed' \subseteq Gens /\ fails' \in 0..MaxFails
    /\ \/ entry' = entry /\ missed' = missed /\ spec'[g] = spec[g] /\ phase'[g] = phase[g]
       \/ entry' = entry /\ missed' = missed \cup {g}
       \/ /\ entry'.gen = g /\ entry'.endpoints = spec'[g] /\ entry'.phase = phase'[g]
          /\ phase'[g] # Unset /\ missed' = missed \ {g}

\* Whichever branch selectPods takes, what the generation would store describes the pods it has
\* selected, and every branch that puts has set the phase.
LEMMA SelectKeeps ==
  ASSUME NEW old \in Seq(Endpoint), NEW new \in Seq(Endpoint),
         NEW endpoints \in Seq(Endpoint),
         NEW status, IsSelection(old, endpoints, status), Distinct(new), NEW isInit \in BOOLEAN,
         isInit => old = <<>>
  PROVE  LET lost == new = <<>> /\ (endpoints # <<>> \/ isInit)
             found == new # <<>> /\ CompareOldAndNew(old, new)
             newSpec == IF found THEN new ELSE IF lost THEN <<>> ELSE endpoints
             newPhase == IF found THEN "Running" ELSE IF lost THEN "Failed" ELSE status
         IN  /\ newSpec \in Seq(Endpoint) /\ IsSelection(new, newSpec, newPhase)
             /\ lost \/ found \/ isInit => newPhase \in {"Running", "Failed"}
             /\ ~(lost \/ found \/ isInit) => newSpec = endpoints /\ newPhase = status
             /\ newPhase \in {"Running", "Failed", status}
<1> DEFINE lost == new = <<>> /\ (endpoints # <<>> \/ isInit)
           found == new # <<>> /\ CompareOldAndNew(old, new)
           newSpec == IF found THEN new ELSE IF lost THEN <<>> ELSE endpoints
           newPhase == IF found THEN "Running" ELSE IF lost THEN "Failed" ELSE status
<1> SUFFICES /\ newSpec \in Seq(Endpoint) /\ IsSelection(new, newSpec, newPhase)
             /\ lost \/ found \/ isInit => newPhase \in {"Running", "Failed"}
             /\ ~(lost \/ found \/ isInit) => newSpec = endpoints /\ newPhase = status
             /\ newPhase \in {"Running", "Failed", status}
  OBVIOUS
<1>1. Distinct(<<>>) /\ <<>> \in Seq(Endpoint)
  BY DEF Distinct
<1>2. CASE found
  <2>1. newSpec = new /\ newPhase = "Running" /\ new # <<>>
    BY <1>2
  <2>2. IsSelection(new, newSpec, newPhase)
    BY <2>1 DEF IsSelection, PhaseOf
  <2> QED BY <1>2, <2>1, <2>2
<1>3. CASE lost
  <2>1. newSpec = new /\ newPhase = "Failed" /\ new = <<>> /\ ~found
    BY <1>3
  <2>2. IsSelection(new, newSpec, newPhase)
    BY <2>1 DEF IsSelection, PhaseOf
  <2> QED BY <1>1, <1>3, <2>1, <2>2
<1>4. CASE ~lost /\ ~found
  <2>1. newSpec = endpoints /\ newPhase = status
    BY <1>4
  <2>2. CASE new = <<>>
    <3>1. endpoints = <<>> /\ ~isInit
      BY <1>4, <2>2
    <3>2. old = <<>>
      <4>1. Names(old) = {}
        <5>1. Names(<<>>) = {}
          BY DEF Names
        <5> QED BY <3>1, <5>1 DEF IsSelection
      <4>2. DOMAIN old = {}
        BY <4>1 DEF Names
      <4> QED BY <4>2
    <3> QED BY <1>4, <2>1, <2>2, <3>1, <3>2
  <2>3. CASE new # <<>>
    <3>1. ~CompareOldAndNew(old, new)
      BY <1>4, <2>3
    <3>2. Len(old) = Len(new) /\ Names(old) = Names(new)
      BY <3>1, SameNames DEF IsSelection
    <3>3. old # <<>>
      BY <2>3, <3>2
    <3>4. IsSelection(new, endpoints, status)
      BY <2>3, <3>2, <3>3 DEF IsSelection, PhaseOf
    <3> QED BY <1>4, <2>1, <3>3, <3>4
  <2> QED BY <2>2, <2>3
<1> QED BY <1>2, <1>3, <1>4

\* selectPods, also when it fails to list or to put, keeps a generation to one selection.
LEMMA SelectPodsEffect ==
  ASSUME TypeOK, PodInv, Selections, NEW g \in Gens,
         NEW isInit \in BOOLEAN,
         isInit => chosen[g] = <<>>, SelectPods(g, isInit)
  PROVE  SelectEffect(g)
<1>1. /\ chosen \in [Gens -> Seq(Endpoint)] /\ bad \in [Gens -> SUBSET Pods]
      /\ spec \in [Gens -> Seq(Endpoint)] /\ phase \in [Gens -> ServicePhases]
      /\ entry \in EntryType /\ missed \subseteq Gens /\ fails \in 0..MaxFails
  BY DEF TypeOK, EntryType
<1>2. MaxFails \in Nat
  BY ServiceAssumption DEF ServiceAssumption
<1>3. IsSelection(chosen[g], spec[g], phase[g])
  BY DEF Selections
<1>4. CASE ListFails
  <2>1. fails' \in 0..MaxFails
    BY <1>1, <1>2, <1>4 DEF ListFails
  <2> QED BY <1>1, <1>3, <1>4, <2>1 DEF ListFails, SelectEffect
<1>5. CASE \E new \in {Selected(g)} : Select(g, new, isInit)
  <2>1. PICK new : new = Selected(g) /\ Select(g, new, isInit)
    BY <1>5
  <2>2. new \in Seq(Endpoint) /\ Distinct(new)
    BY <1>1, <1>3, <2>1, SelectedIsDistinct DEF IsSelection
  <2> DEFINE lost == new = <<>> /\ (spec[g] # <<>> \/ isInit)
             found == new # <<>> /\ CompareOldAndNew(chosen[g], new)
             newSpec == IF found THEN new ELSE IF lost THEN <<>> ELSE spec[g]
             newPhase == IF found THEN "Running" ELSE IF lost THEN "Failed" ELSE phase[g]
  <2>3. /\ newSpec \in Seq(Endpoint) /\ IsSelection(new, newSpec, newPhase)
        /\ lost \/ found \/ isInit => newPhase \in {"Running", "Failed"}
        /\ ~(lost \/ found \/ isInit) => newSpec = spec[g] /\ newPhase = phase[g]
        /\ newPhase \in {"Running", "Failed", phase[g]}
    BY <1>1, <1>3, <2>2, SelectKeeps
  <2>4. /\ chosen' = [chosen EXCEPT ![g] = new] /\ bad' = [bad EXCEPT ![g] = {}]
        /\ spec' = [spec EXCEPT ![g] = newSpec] /\ phase' = [phase EXCEPT ![g] = newPhase]
        /\ IF lost \/ found \/ isInit
              THEN UpdateRuntimeService([gen |-> g, endpoints |-> newSpec, phase |-> newPhase])
              ELSE UNCHANGED putVars
    BY <2>1 DEF Select
  <2> HIDE DEF lost, found, newSpec, newPhase
  <2>5. newPhase \in ServicePhases
    BY <1>1, <2>3 DEF ServicePhases
  <2>6. /\ chosen' \in [Gens -> Seq(Endpoint)]
        /\ \A h \in Gens \ {g} : chosen'[h] = chosen[h]
        /\ chosen'[g] = new
    BY <1>1, <2>2, <2>4
  <2>7. bad' \in [Gens -> SUBSET Pods]
    BY <1>1, <2>4
  <2>8. /\ spec' \in [Gens -> Seq(Endpoint)] /\ \A h \in Gens \ {g} : spec'[h] = spec[h]
        /\ spec'[g] = newSpec
    BY <1>1, <2>3, <2>4
  <2>9. /\ phase' \in [Gens -> ServicePhases]
        /\ \A h \in Gens \ {g} : phase'[h] = phase[h]
        /\ phase'[g] = newPhase
    BY <1>1, <2>5, <2>4
  <2>10. IsSelection(chosen'[g], spec'[g], phase'[g])
    BY <2>3, <2>6, <2>8, <2>9
  <2>11. CASE lost \/ found \/ isInit
    <3> DEFINE e == [gen |-> g, endpoints |-> newSpec, phase |-> newPhase]
    <3>1. UpdateRuntimeService(e)
      BY <2>4, <2>11
    <3>2. e \in EntryType /\ e.gen = g /\ e.endpoints = newSpec /\ e.phase = newPhase
      BY <2>3, <2>5 DEF EntryType
    <3> HIDE DEF e
    <3>3. newPhase # Unset
      BY <2>3, <2>11, UnsetDiffers
    <3>4. CASE entry' = e /\ missed' = missed \ {e.gen} /\ UNCHANGED fails
      <4>1. entry' \in EntryType /\ missed' \subseteq Gens /\ fails' \in 0..MaxFails
        BY <1>1, <3>2, <3>4
      <4>2. /\ entry'.gen = g /\ entry'.endpoints = spec'[g] /\ entry'.phase = phase'[g]
            /\ phase'[g] # Unset /\ missed' = missed \ {g}
        BY <2>8, <2>9, <3>2, <3>3, <3>4
      <4> QED BY <2>6, <2>7, <2>8, <2>9, <2>10, <4>1, <4>2 DEF SelectEffect
    <3>5. CASE /\ fails < MaxFails /\ fails' = fails + 1
               /\ missed' = missed \cup {e.gen} /\ UNCHANGED entry
      <4>1. entry' = entry /\ missed' = missed \cup {g}
        BY <3>2, <3>5
      <4>2. entry' \in EntryType /\ missed' \subseteq Gens
        BY <1>1, <4>1
      <4>3. fails' \in 0..MaxFails
        BY <1>1, <1>2, <3>5
      <4> QED BY <2>6, <2>7, <2>8, <2>9, <2>10, <4>1, <4>2, <4>3 DEF SelectEffect
    <3> QED BY <3>1, <3>4, <3>5 DEF UpdateRuntimeService
  <2>12. CASE ~(lost \/ found \/ isInit)
    <3>1. entry' = entry /\ missed' = missed /\ fails' = fails
      BY <2>4, <2>12 DEF putVars
    <3>2. spec'[g] = spec[g] /\ phase'[g] = phase[g]
      BY <2>3, <2>8, <2>9, <2>12
    <3> QED BY <1>1, <2>6, <2>7, <2>8, <2>9, <2>10, <3>1, <3>2 DEF SelectEffect
  <2> QED BY <2>11, <2>12
<1> QED BY <1>4, <1>5 DEF SelectPods

-----------------------------------------------------------------------------
(* Services: the invariant is inductive.                                   *)

\* The invariant holds when the controller starts.
LEMMA ServiceInit ==
  ASSUME Init
  PROVE  ServiceInv
<1>1. TypeOK
  <2>1. NoEntry \in [gen : Gens \cup {NoGen}, endpoints : Seq(Endpoint),
                        phase : ServicePhases]
    BY DEF NoEntry, ServicePhases
  <2>2. /\ Unset \in ServicePhases /\ <<>> \in Seq(Endpoint)
        /\ <<>> \in Seq(Gens \cup {NoGen})
    BY DEF ServicePhases
  <2>3. ManagerIdle \in [at : {"idle", "lock", "stopping", "new"}, gen : Gens \cup {NoGen},
                         create : Gens \cup {NoGen}]
    BY DEF ManagerIdle
  <2> QED BY <2>1, <2>2, <2>3, ServiceAssumption DEF Init, TypeOK, ServiceAssumption
<1>2. PodInv /\ OnePoll
  BY ServiceAssumption DEF Init, PodInv, OnePoll, ServiceAssumption
<1>3. manager.at = "idle" /\ manager.create = 0 /\ manager.gen = 0 /\ entry.gen = 0 /\ NoGen = 0
  BY DEF Init, ManagerIdle, NoEntry, NoGen
<1>4. Queue
  BY <1>3 DEF Init, Queue
<1>5. NoTrace
  <2>1. \A g \in Gens : g # 0
    BY GensAreNumbers
  <2> QED BY <1>3, <2>1 DEF Init, NoTrace, Blank
<1>6. ManagerInv /\ EntryHasOwner
  BY <1>3 DEF Init, ManagerInv, EntryHasOwner, NoGen
<1>7. Owned
  <2>1. \A g \in Gens : g # NoGen
    BY GensAreNumbers
  <2> QED BY <1>3, <2>1 DEF Init, Owned, Stopping
<1>8. Selections
  <2>1. IsSelection(<<>>, <<>>, Unset)
    BY DEF IsSelection, Distinct
  <2> QED BY <2>1 DEF Init, Selections
<1>9. EntryStored
  BY DEF Init, EntryStored
<1> QED BY <1>1, <1>2, <1>4, <1>5, <1>6, <1>7, <1>8, <1>9 DEF ServiceInv

\* The start of a pod preserves the invariant.
LEMMA PodStartsStep ==
  ASSUME ServiceInv, NEW p \in Pods, PodStarts(p)
  PROVE  ServiceInv'
<1> USE DEF ServiceInv
<1>1. UNCHANGED <<svcEvents, manager, serviceMap, genVars, putVars, late, boundVars>>
  BY DEF PodStarts
<1>2. starts \in [Pods -> 0..MaxStarts] /\ running \subseteq Pods /\ MaxStarts \in Nat
  BY ServiceAssumption DEF TypeOK, ServiceAssumption
<1>3. starts' \in [Pods -> 0..MaxStarts] /\ running' \subseteq Pods
  BY <1>2 DEF PodStarts
<1>4. TypeOK'
  BY <1>1, <1>3 DEF TypeOK, genVars, putVars, boundVars
<1>5. PodInv'
  BY <1>2, <1>3 DEF PodInv, PodStarts, Ips
<1>6. OnePoll' /\ Queue' /\ ManagerInv' /\ EntryHasOwner'
  BY <1>1 DEF OnePoll, Queue, ManagerInv, EntryHasOwner, genVars, putVars, boundVars
<1>7. NoTrace'
  BY <1>1 DEF NoTrace, ToCome, Blank, genVars, putVars, boundVars
<1>8. Owned'
  BY <1>1 DEF Owned, Stopping, genVars
<1>9. Selections' /\ EntryStored'
  BY <1>1 DEF Selections, EntryStored, genVars, putVars
<1> QED BY <1>4, <1>5, <1>6, <1>7, <1>8, <1>9

\* The end of a pod preserves the invariant.
LEMMA PodStopsStep ==
  ASSUME ServiceInv, NEW p \in Pods, PodStops(p)
  PROVE  ServiceInv'
<1> USE DEF ServiceInv
<1>1. UNCHANGED <<starts, svcEvents, manager, serviceMap, genVars, putVars, late,
                  boundVars>>
  BY DEF PodStops
<1>2. running' \subseteq running
  BY DEF PodStops
<1>3. TypeOK'
  BY <1>1, <1>2 DEF TypeOK, genVars, putVars, boundVars
<1>4. PodInv'
  BY <1>1, <1>2 DEF PodInv
<1>5. OnePoll' /\ Queue' /\ ManagerInv' /\ EntryHasOwner'
  BY <1>1 DEF OnePoll, Queue, ManagerInv, EntryHasOwner, genVars, putVars, boundVars
<1>6. NoTrace'
  BY <1>1 DEF NoTrace, ToCome, Blank, genVars, putVars, boundVars
<1>7. Owned'
  BY <1>1 DEF Owned, Stopping, genVars
<1>8. Selections' /\ EntryStored'
  BY <1>1 DEF Selections, EntryStored, genVars, putVars
<1> QED BY <1>3, <1>4, <1>5, <1>6, <1>7, <1>8

\* A step that changes nothing preserves the invariant.
LEMMA ServiceStutters ==
  ASSUME ServiceInv, UNCHANGED vars
  PROVE  ServiceInv'
<1> USE DEF ServiceInv, vars
<1>1. TypeOK' /\ PodInv'
  BY DEF TypeOK, PodInv, podVars, genVars, putVars, boundVars
<1>2. OnePoll' /\ Queue' /\ ManagerInv' /\ EntryHasOwner'
  BY DEF OnePoll, Queue, ManagerInv, EntryHasOwner, genVars, putVars, boundVars
<1>3. NoTrace'
  BY DEF NoTrace, ToCome, Blank, genVars, putVars, boundVars
<1>4. Owned'
  BY DEF Owned, Stopping, genVars
<1>5. Selections' /\ EntryStored'
  BY DEF Selections, EntryStored, genVars, putVars
<1> QED BY <1>1, <1>2, <1>3, <1>4, <1>5

\* An apply announces a generation that has left no trace.
LEMMA ApplyStep ==
  ASSUME ServiceInv, ApplyService
  PROVE  ServiceInv'
<1> USE DEF ServiceInv
<1>1. UNCHANGED <<podVars, manager, serviceMap, genVars, putVars, late, deletes>>
  BY DEF ApplyService
<1>2. /\ svcEvents \in Seq(Gens \cup {NoGen}) /\ applies \in 0..MaxApplies
      /\ MaxApplies \in Nat
      /\ applies' = applies + 1 /\ applies' \in 0..MaxApplies /\ applies' \in Gens
      /\ svcEvents' = Append(svcEvents, applies')
  BY GensAreNumbers, ServiceAssumption DEF TypeOK, ServiceAssumption, ApplyService
<1>3. svcEvents' \in Seq(Gens \cup {NoGen})
  BY <1>2
<1>4. TypeOK'
  BY <1>1, <1>2, <1>3 DEF TypeOK, podVars, genVars, putVars, boundVars
<1>5. PodInv' /\ OnePoll' /\ ManagerInv' /\ EntryHasOwner'
  BY <1>1 DEF PodInv, OnePoll, ManagerInv, EntryHasOwner, podVars, genVars, putVars
<1>6. Owned'
  BY <1>1 DEF Owned, Stopping, genVars
<1>7. Selections' /\ EntryStored'
  BY <1>1 DEF Selections, EntryStored, genVars, putVars
<1>8. DOMAIN svcEvents' = 1..(Len(svcEvents) + 1) /\ DOMAIN svcEvents = 1..Len(svcEvents)
  BY <1>2
<1>9. \A i \in DOMAIN svcEvents' : (i \in DOMAIN svcEvents /\ svcEvents'[i] = svcEvents[i])
                                  \/ (i \notin DOMAIN svcEvents /\ svcEvents'[i] = applies')
  BY <1>2
<1>10. \A i, j \in DOMAIN svcEvents' : i # j => i \in DOMAIN svcEvents \/ j \in DOMAIN svcEvents
  BY <1>2, <1>8
<1>11. manager' = manager /\ manager.create \in 0..applies
  BY <1>1 DEF Queue
<1>12. \A i \in DOMAIN svcEvents : svcEvents[i] \in 0..applies
  BY DEF Queue
<1>13. Queue'
  <2>1. manager'.create \in 0..applies'
    BY <1>2, <1>11
  <2>2. ASSUME NEW i \in DOMAIN svcEvents' PROVE svcEvents'[i] \in 0..applies'
    BY <1>2, <1>9, <1>12
  <2>3. ASSUME NEW i \in DOMAIN svcEvents', svcEvents'[i] # NoGen
        PROVE  svcEvents'[i] # manager'.create
    BY <1>2, <1>9, <1>11, <2>3 DEF Queue
  <2>4. ASSUME NEW i \in DOMAIN svcEvents', NEW j \in DOMAIN svcEvents', i # j,
               svcEvents'[i] # NoGen
        PROVE  svcEvents'[i] # svcEvents'[j]
    <3>1. CASE i \in DOMAIN svcEvents /\ j \in DOMAIN svcEvents
      BY <1>9, <2>4, <3>1 DEF Queue
    <3>2. CASE i \in DOMAIN svcEvents /\ j \notin DOMAIN svcEvents
      BY <1>2, <1>9, <1>12, <3>2
    <3>3. CASE i \notin DOMAIN svcEvents /\ j \in DOMAIN svcEvents
      BY <1>2, <1>9, <1>12, <3>3
    <3> QED BY <1>10, <2>4, <3>1, <3>2, <3>3
  <2> QED BY <2>1, <2>2, <2>3, <2>4 DEF Queue
<1>14. ASSUME NEW g \in Gens, ToCome(g)' PROVE ToCome(g)
  <2>1. g \in Nat
    BY GensAreNumbers
  <2>2. CASE g > applies'
    BY <1>2, <2>1, <2>2 DEF ToCome
  <2>3. CASE g = manager'.create
    BY <1>1, <2>3 DEF ToCome
  <2>4. CASE \E i \in DOMAIN svcEvents' : svcEvents'[i] = g
    BY <1>2, <1>9, <2>1, <2>4 DEF ToCome
  <2> QED BY <1>14, <2>2, <2>3, <2>4 DEF ToCome
<1>15. NoTrace'
  <2>1. \A g \in Gens : Blank(g) => Blank(g)'
    BY <1>1 DEF Blank, genVars, putVars
  <2> QED BY <1>14, <2>1 DEF NoTrace
<1> QED BY <1>4, <1>5, <1>6, <1>7, <1>13, <1>15

\* A deletion announces no generation.
LEMMA DeleteStep ==
  ASSUME ServiceInv, DeleteService
  PROVE  ServiceInv'
<1> USE DEF ServiceInv
<1>1. UNCHANGED <<podVars, manager, serviceMap, genVars, putVars, late, applies>>
  BY DEF DeleteService
<1>2. /\ svcEvents \in Seq(Gens \cup {NoGen}) /\ svcEvents' = Append(svcEvents, NoGen)
      /\ deletes' \in 0..MaxDeletes /\ applies \in Nat
  BY ServiceAssumption DEF TypeOK, ServiceAssumption, DeleteService
<1>3. svcEvents' \in Seq(Gens \cup {NoGen})
  BY <1>2
<1>4. TypeOK'
  BY <1>1, <1>2, <1>3 DEF TypeOK, podVars, genVars, putVars, boundVars
<1>5. PodInv' /\ OnePoll' /\ ManagerInv' /\ EntryHasOwner'
  BY <1>1 DEF PodInv, OnePoll, ManagerInv, EntryHasOwner, podVars, genVars, putVars
<1>6. Owned'
  BY <1>1 DEF Owned, Stopping, genVars
<1>7. Selections' /\ EntryStored'
  BY <1>1 DEF Selections, EntryStored, genVars, putVars
<1>8. \A i \in DOMAIN svcEvents' : (i \in DOMAIN svcEvents /\ svcEvents'[i] = svcEvents[i])
                                  \/ svcEvents'[i] = NoGen
  BY <1>2
<1>9. NoGen \in 0..applies
  BY <1>2 DEF NoGen
<1>10. Queue'
  BY <1>1, <1>8, <1>9 DEF Queue
<1>11. NoTrace'
  <2>1. \A g \in Gens : g # NoGen
    BY GensAreNumbers
  <2>2. \A g \in Gens : ToCome(g)' => ToCome(g)
    BY <1>1, <1>8, <2>1 DEF ToCome
  <2>3. \A g \in Gens : Blank(g) => Blank(g)'
    BY <1>1 DEF Blank, genVars, putVars
  <2> QED BY <2>2, <2>3 DEF NoTrace
<1> QED BY <1>4, <1>5, <1>6, <1>7, <1>10, <1>11

\* watchServiceConfig takes a generation from the queue to make it, after the current one is gone.
LEMMA WatchStep ==
  ASSUME ServiceInv, WatchServiceConfig
  PROVE  ServiceInv'
<1> USE DEF ServiceInv
<1> DEFINE create == Head(svcEvents)
<1>1. UNCHANGED <<podVars, serviceMap, genVars, putVars, late, boundVars>>
  BY DEF WatchServiceConfig
<1>2. /\ svcEvents \in Seq(Gens \cup {NoGen}) /\ svcEvents # <<>>
      /\ svcEvents' = Tail(svcEvents)
      /\ manager.at = "idle" /\ serviceMap \in Gens \cup {NoGen}
  BY DEF TypeOK, WatchServiceConfig
<1>3. /\ svcEvents' \in Seq(Gens \cup {NoGen}) /\ create \in Gens \cup {NoGen}
      /\ 1 \in DOMAIN svcEvents /\ create = svcEvents[1]
  BY <1>2
<1>4. \A i \in DOMAIN svcEvents' : /\ i + 1 \in DOMAIN svcEvents /\ svcEvents'[i] = svcEvents[i + 1]
                                   /\ i \in Nat \ {0}
  BY <1>2
<1>5. \/ manager' = [at |-> "lock", gen |-> serviceMap, create |-> create] /\ serviceMap # NoGen
      \/ /\ manager' = [at |-> "new", gen |-> NoGen, create |-> create]
         /\ serviceMap = NoGen /\ create # NoGen
      \/ manager' = [at |-> "idle", gen |-> NoGen, create |-> NoGen]
  BY DEF WatchServiceConfig, ManagerIdle
<1>6. applies \in Nat /\ NoGen = 0 /\ create \in 0..applies
  BY <1>3, GensAreNumbers DEF TypeOK, Queue
<1> HIDE DEF create
<1>7. /\ manager' \in [at : {"idle", "lock", "stopping", "new"}, gen : Gens \cup {NoGen},
                      create : Gens \cup {NoGen}]
      /\ manager'.create \in {create, NoGen}
  BY <1>2, <1>3, <1>5
<1>8. TypeOK'
  BY <1>1, <1>3, <1>7 DEF TypeOK, podVars, genVars, putVars, boundVars
<1>9. PodInv' /\ OnePoll' /\ EntryHasOwner'
  BY <1>1 DEF PodInv, OnePoll, EntryHasOwner, podVars, genVars, putVars
<1>10. ManagerInv'
  BY <1>1, <1>5 DEF ManagerInv
<1>11. Owned'
  <2>1. manager'.at # "stopping"
    BY <1>5
  <2> QED BY <1>1, <2>1 DEF Owned, Stopping, genVars
<1>12. Selections' /\ EntryStored'
  BY <1>1 DEF Selections, EntryStored, genVars, putVars
<1>13. Queue'
  <2>1. manager'.create \in 0..applies'
    BY <1>1, <1>6, <1>7 DEF boundVars
  <2>2. ASSUME NEW i \in DOMAIN svcEvents' PROVE svcEvents'[i] \in 0..applies'
    BY <1>1, <1>4 DEF Queue, boundVars
  <2>3. ASSUME NEW i \in DOMAIN svcEvents', svcEvents'[i] # NoGen
        PROVE  svcEvents'[i] # manager'.create
    <3>1. i + 1 # 1
      BY <1>4
    <3>2. svcEvents[i + 1] # svcEvents[1]
      BY <1>3, <1>4, <2>3, <3>1 DEF Queue
    <3> QED BY <1>3, <1>4, <1>7, <2>3, <3>2
  <2>4. ASSUME NEW i \in DOMAIN svcEvents', NEW j \in DOMAIN svcEvents', i # j,
               svcEvents'[i] # NoGen
        PROVE  svcEvents'[i] # svcEvents'[j]
    <3>1. i + 1 # j + 1
      BY <1>4, <2>4
    <3> QED BY <1>4, <2>4, <3>1 DEF Queue
  <2> QED BY <2>1, <2>2, <2>3, <2>4 DEF Queue
<1>14. NoTrace'
  <2>1. \A g \in Gens : g # NoGen
    BY GensAreNumbers
  <2>2. ASSUME NEW g \in Gens, ToCome(g)' PROVE ToCome(g)
    <3>1. CASE g > applies'
      BY <1>1, <3>1 DEF ToCome, boundVars
    <3>2. CASE g = manager'.create
      BY <1>3, <1>7, <2>1, <3>2 DEF ToCome
    <3>3. CASE \E i \in DOMAIN svcEvents' : svcEvents'[i] = g
      BY <1>4, <3>3 DEF ToCome
    <3> QED BY <2>2, <3>1, <3>2, <3>3 DEF ToCome
  <2>3. \A g \in Gens : Blank(g) => Blank(g)'
    BY <1>1 DEF Blank, genVars, putVars
  <2> QED BY <2>2, <2>3 DEF NoTrace
<1> QED BY <1>8, <1>9, <1>10, <1>11, <1>12, <1>13, <1>14

\* DeleteService has rwLock only while the syncLoop is not between its poll and selectPods.
LEMMA LockStep ==
  ASSUME ServiceInv, LockService
  PROVE  ServiceInv'
<1> USE DEF ServiceInv
<1>1. UNCHANGED <<podVars, svcEvents, serviceMap, genVars, putVars, late, boundVars>>
  BY DEF LockService
<1>2. manager \in [at : {"idle", "lock", "stopping", "new"}, gen : Gens \cup {NoGen},
                   create : Gens \cup {NoGen}]
  BY DEF TypeOK
<1>3. /\ manager' \in [at : {"idle", "lock", "stopping", "new"}, gen : Gens \cup {NoGen},
                      create : Gens \cup {NoGen}]
      /\ manager'.at = "stopping" /\ manager'.gen = manager.gen /\ manager'.create = manager.create
      /\ manager.at = "lock" /\ syncLoop[manager.gen] # "select"
  BY <1>2 DEF LockService, LockFree
<1>4. TypeOK'
  BY <1>1, <1>3 DEF TypeOK, podVars, genVars, putVars, boundVars
<1>5. PodInv' /\ OnePoll' /\ EntryHasOwner'
  BY <1>1 DEF PodInv, OnePoll, EntryHasOwner, podVars, genVars, putVars
<1>6. ManagerInv' /\ Queue'
  BY <1>1, <1>3 DEF ManagerInv, Queue, boundVars
<1>7. Owned'
  BY <1>1, <1>3 DEF Owned, Stopping, genVars
<1>8. Selections' /\ EntryStored'
  BY <1>1 DEF Selections, EntryStored, genVars, putVars
<1>9. NoTrace'
  BY <1>1, <1>3 DEF NoTrace, ToCome, Blank, genVars, putVars, boundVars
<1> QED BY <1>4, <1>5, <1>6, <1>7, <1>8, <1>9

LEMMA RunningIsNotToCome ==
  ASSUME NoTrace, NEW g \in Gens, syncLoop[g] # "off"
  PROVE  ~ToCome(g)
  BY DEF NoTrace, Blank

LEMMA NoTraceKept ==
  ASSUME NoTrace, NEW g \in Gens, syncLoop[g] # "off",
         \A h \in Gens : ToCome(h)' => ToCome(h),
         \A h \in Gens \ {g} : Blank(h) => Blank(h)'
  PROVE  NoTrace'
<1>1. SUFFICES ASSUME NEW h \in Gens, ToCome(h)' PROVE Blank(h)'
  BY DEF NoTrace
<1>2. ToCome(h) /\ Blank(h)
  BY <1>1 DEF NoTrace
<1>3. h # g
  BY <1>2 DEF Blank
<1> QED BY <1>2, <1>3

\* A generation that is deleted with a poll in its channel, or whose entry stays, is in late.
LEMMA StopStep ==
  ASSUME ServiceInv, StopService
  PROVE  ServiceInv'
<1> USE DEF ServiceInv
<1> DEFINE g == manager.gen
<1>1. /\ UNCHANGED <<podVars, svcEvents, chosen, bad, spec, phase, canPollSend, polls,
                     syncLoop,
                     missed, boundVars>>
      /\ manager.at = "stopping" /\ serviceMap' = NoGen
      /\ timer' = [timer EXCEPT ![g] = "exited"] /\ closed' = [closed EXCEPT ![g] = TRUE]
  BY DEF StopService
<1>2. g \in Gens /\ g = serviceMap
  BY <1>1 DEF ManagerInv, TypeOK
<1>3. /\ manager \in [at : {"idle", "lock", "stopping", "new"}, gen : Gens \cup {NoGen},
                     create : Gens \cup {NoGen}]
      /\ timer \in [Gens -> {"off", "idle", "wantLock", "exited"}]
      /\ closed \in [Gens -> BOOLEAN] /\ polls \in [Gens -> 0..1] /\ late \subseteq Gens
      /\ fails \in 0..MaxFails /\ MaxFails \in Nat
  BY ServiceAssumption DEF TypeOK, ServiceAssumption
<1>4. /\ manager' \in [at : {"idle", "lock", "stopping", "new"}, gen : Gens \cup {NoGen},
                      create : Gens \cup {NoGen}]
      /\ manager'.create = manager.create
      /\ \/ manager'.at = "idle" /\ manager.create = NoGen
         \/ manager'.at = "new" /\ manager.create # NoGen
  BY <1>3 DEF StopService, ManagerIdle
<1>5. /\ closed' \in [Gens -> BOOLEAN] /\ closed'[g]
      /\ \A h \in Gens \ {g} : closed'[h] = closed[h]
      /\ timer' \in [Gens -> {"off", "idle", "wantLock", "exited"}]
      /\ timer'[g] = "exited" /\ \A h \in Gens \ {g} : timer'[h] = timer[h]
  BY <1>1, <1>2, <1>3
<1>6. /\ entry' \in {entry, NoEntry} /\ late' \in {late, late \cup {g}}
      /\ fails' \in 0..MaxFails
      /\ entry' = NoEntry \/ g \in late'
      /\ polls[g] > 0 => g \in late'
  BY <1>3 DEF StopService
<1> HIDE DEF g
<1>7. NoEntry \in [gen : Gens \cup {NoGen}, endpoints : Seq(Endpoint),
                      phase : ServicePhases]
      /\ NoEntry.gen = NoGen
  BY DEF NoEntry, ServicePhases
<1>8. TypeOK'
  <2>1. entry' \in [gen : Gens \cup {NoGen}, endpoints : Seq(Endpoint),
                    phase : ServicePhases]
    BY <1>6, <1>7 DEF TypeOK
  <2>2. late' \subseteq Gens
    BY <1>2, <1>3, <1>6
  <2> QED BY <1>1, <1>4, <1>5, <1>6, <2>1, <2>2 DEF TypeOK, podVars, boundVars
<1>9. PodInv' /\ OnePoll'
  BY <1>1 DEF PodInv, OnePoll, podVars
<1>10. Queue' /\ ManagerInv'
  BY <1>1, <1>4 DEF Queue, ManagerInv, boundVars
<1>11. NoTrace'
  <2>1. syncLoop[g] # "off"
    BY <1>2 DEF Owned
  <2>2. \A h \in Gens : ToCome(h)' => ToCome(h)
    BY <1>1, <1>4 DEF ToCome, boundVars
  <2>3. \A h \in Gens : h # NoGen
    BY GensAreNumbers
  <2>4. \A h \in Gens \ {g} : Blank(h) => Blank(h)'
    BY <1>1, <1>5, <1>6, <1>7, <2>3 DEF Blank
  <2> QED BY <1>2, <2>1, <2>2, <2>4, NoTraceKept
<1>12. Owned'
  <2>1. \A h \in Gens : h # NoGen
    BY GensAreNumbers
  <2>2. SUFFICES ASSUME NEW h \in Gens
                 PROVE  /\ syncLoop'[h] # "off" /\ ~closed'[h] <=> serviceMap' = h
                        /\ Stopping(h)' => syncLoop'[h] # "select"
                        /\ closed'[h] /\ (polls'[h] > 0 \/ syncLoop'[h] = "select") => h \in late'
                        /\ timer'[h] = "idle" => ~closed'[h]
    BY DEF Owned
  <2>3. manager'.at # "stopping"
    BY <1>4
  <2>4. CASE h = g
    <3>1. syncLoop[g] # "select"
      BY <1>1, <1>2 DEF Owned, Stopping, g
    <3> QED BY <1>1, <1>5, <1>6, <2>1, <2>3, <2>4, <3>1 DEF Stopping
  <2>5. CASE h # g
    <3>1. closed'[h] = closed[h] /\ timer'[h] = timer[h] /\ polls' = polls /\ syncLoop' = syncLoop
      BY <1>1, <1>5, <2>5
    <3>2. ~(syncLoop[h] # "off" /\ ~closed[h])
      BY <1>2, <2>5 DEF Owned
    <3> QED BY <1>1, <1>6, <2>1, <2>3, <3>1, <3>2 DEF Owned, Stopping
  <2> QED BY <2>4, <2>5
<1>13. EntryHasOwner'
  BY <1>2, <1>6, <1>7 DEF EntryHasOwner
<1>14. Selections' /\ EntryStored'
  BY <1>1 DEF Selections, EntryStored
<1> QED BY <1>8, <1>9, <1>10, <1>11, <1>12, <1>13, <1>14

\* A new RuntimeService owns serviceMap, and the entry if it could store it.
LEMMA NewStep ==
  ASSUME ServiceInv, NewRuntimeService
  PROVE  ServiceInv'
<1> USE DEF ServiceInv
<1> DEFINE g == manager.create
<1>1. /\ UNCHANGED <<podVars, svcEvents, polls, closed, late, boundVars>>
      /\ manager.at = "new" /\ manager' = ManagerIdle /\ serviceMap' = g
      /\ SelectPods(g, TRUE)
      /\ syncLoop' = [syncLoop EXCEPT ![g] = "idle"] /\ timer' = [timer EXCEPT ![g] = "idle"]
      /\ canPollSend' = [canPollSend EXCEPT ![g] = TRUE]
  BY DEF NewRuntimeService
<1>2. g \in Gens /\ serviceMap = NoGen /\ ToCome(g)
  BY <1>1 DEF ManagerInv, TypeOK, ToCome
<1> HIDE DEF g
<1>3. Blank(g)
  BY <1>2 DEF NoTrace
<1>4. SelectEffect(g)
  BY <1>1, <1>2, <1>3, SelectPodsEffect DEF Blank
<1>5. /\ canPollSend \in [Gens -> BOOLEAN]
      /\ syncLoop \in [Gens -> {"off", "idle", "select", "exited"}]
      /\ timer \in [Gens -> {"off", "idle", "wantLock", "exited"}]
  BY DEF TypeOK
<1>6. /\ canPollSend' \in [Gens -> BOOLEAN]
      /\ \A h \in Gens \ {g} : canPollSend'[h] = canPollSend[h]
      /\ syncLoop' \in [Gens -> {"off", "idle", "select", "exited"}] /\ syncLoop'[g] = "idle"
      /\ \A h \in Gens \ {g} : syncLoop'[h] = syncLoop[h]
      /\ timer' \in [Gens -> {"off", "idle", "wantLock", "exited"}]
      /\ \A h \in Gens \ {g} : timer'[h] = timer[h]
  BY <1>1, <1>2, <1>5
<1>7. manager'.at = "idle" /\ manager'.gen = NoGen /\ manager'.create = NoGen /\ NoGen = 0
      /\ manager' \in [at : {"idle", "lock", "stopping", "new"}, gen : Gens \cup {NoGen},
                      create : Gens \cup {NoGen}]
  BY <1>1 DEF ManagerIdle, NoGen
<1>8. TypeOK'
  BY <1>1, <1>2, <1>4, <1>6, <1>7 DEF TypeOK, SelectEffect, EntryType, podVars, boundVars
<1>9. PodInv'
  BY <1>1 DEF PodInv, podVars
<1>10. OnePoll'
  <2>1. SUFFICES ASSUME NEW h \in Gens
                 PROVE  /\ canPollSend'[h] => polls'[h] = 0 /\ syncLoop'[h] # "select"
                        /\ syncLoop'[h] = "select" => polls'[h] = 0
    BY DEF OnePoll
  <2>2. CASE h = g
    BY <1>1, <1>3, <1>6, <2>2 DEF Blank
  <2>3. CASE h # g
    BY <1>1, <1>6, <2>3 DEF OnePoll
  <2> QED BY <2>2, <2>3
<1>11. applies \in Nat /\ g \in 0..applies
  BY DEF TypeOK, Queue, g
<1>12. Queue' /\ ManagerInv'
  BY <1>1, <1>7, <1>11 DEF Queue, ManagerInv, boundVars
<1>13. NoTrace'
  <2>1. SUFFICES ASSUME NEW h \in Gens, ToCome(h)' PROVE Blank(h)'
    BY DEF NoTrace
  <2>2. h # NoGen /\ h \in Nat
    BY GensAreNumbers
  <2>3. h > applies \/ \E i \in DOMAIN svcEvents : svcEvents[i] = h
    BY <1>1, <1>7, <2>1, <2>2 DEF ToCome, boundVars
  <2>4. h # g
    BY <1>11, <2>2, <2>3 DEF Queue, g
  <2>5. Blank(h)
    BY <2>3 DEF NoTrace, ToCome
  <2>6. entry'.gen # h
    BY <2>4, <2>5, <1>4 DEF Blank, SelectEffect
  <2>7. chosen'[h] = <<>>
    BY <2>4, <2>5, <1>4 DEF Blank, SelectEffect
  <2> QED BY <1>1, <1>6, <2>4, <2>5, <2>6, <2>7 DEF Blank
<1>14. Owned'
  <2>1. SUFFICES ASSUME NEW h \in Gens
                 PROVE  /\ syncLoop'[h] # "off" /\ ~closed'[h] <=> serviceMap' = h
                        /\ Stopping(h)' => syncLoop'[h] # "select"
                        /\ closed'[h] /\ (polls'[h] > 0 \/ syncLoop'[h] = "select") => h \in late'
                        /\ timer'[h] = "idle" => ~closed'[h]
    BY DEF Owned
  <2>2. manager'.at # "stopping" /\ h # NoGen
    BY <1>7, GensAreNumbers
  <2>3. CASE h = g
    BY <1>1, <1>3, <1>6, <2>2, <2>3 DEF Blank, Stopping
  <2>4. CASE h # g
    <3>1. syncLoop'[h] = syncLoop[h] /\ timer'[h] = timer[h] /\ serviceMap # h /\ serviceMap' # h
      BY <1>1, <1>2, <1>6, <2>2, <2>4
    <3> QED BY <1>1, <2>2, <3>1 DEF Owned, Stopping
  <2> QED BY <2>3, <2>4
<1>15. EntryHasOwner'
  <2>1. entry'.gen \in {entry.gen, g}
    BY <1>4 DEF SelectEffect
  <2> QED BY <1>1, <1>2, <2>1 DEF EntryHasOwner
<1>16. Selections'
  BY <1>4 DEF Selections, SelectEffect
<1>17. EntryStored'
  <2>1. CASE entry' = entry
    BY <1>1, <1>3, <2>1 DEF EntryStored, Blank
  <2>2. CASE entry' # entry
    BY <1>1, <1>4, <2>2 DEF EntryStored, SelectEffect
  <2> QED BY <2>1, <2>2
<1> QED BY <1>8, <1>9, <1>10, <1>12, <1>13, <1>14, <1>15, <1>16, <1>17

\* A tick sends a poll only when there is none in the channel and none being handled.
LEMMA TickStep ==
  ASSUME ServiceInv, NEW g \in Gens, Tick(g)
  PROVE  ServiceInv'
<1> USE DEF ServiceInv
<1>1. /\ UNCHANGED <<podVars, svcEvents, manager, serviceMap, chosen, bad, spec, phase, closed,
                     syncLoop, timer, putVars, late, boundVars>>
      /\ timer[g] = "idle" /\ canPollSend[g] /\ syncLoop[g] # "select"
      /\ polls' = [polls EXCEPT ![g] = @ + 1] /\ canPollSend' = [canPollSend EXCEPT ![g] = FALSE]
  BY DEF Tick, LockFree
<1>2. polls \in [Gens -> 0..1] /\ canPollSend \in [Gens -> BOOLEAN] /\ polls[g] = 0
  BY <1>1 DEF TypeOK, OnePoll
<1>3. /\ polls' \in [Gens -> 0..1] /\ \A h \in Gens \ {g} : polls'[h] = polls[h]
      /\ canPollSend' \in [Gens -> BOOLEAN] /\ ~canPollSend'[g]
      /\ \A h \in Gens \ {g} : canPollSend'[h] = canPollSend[h]
  BY <1>1, <1>2
<1>4. TypeOK'
  BY <1>1, <1>3 DEF TypeOK, podVars, putVars, boundVars
<1>5. PodInv' /\ Queue' /\ ManagerInv' /\ EntryHasOwner' /\ Selections' /\ EntryStored'
  BY <1>1 DEF PodInv, Queue, ManagerInv, EntryHasOwner, Selections, EntryStored, podVars,
              putVars,
              boundVars
<1>6. OnePoll'
  BY <1>1, <1>3 DEF OnePoll
<1>7. NoTrace'
  <2>1. SUFFICES ASSUME NEW h \in Gens, ToCome(h)' PROVE Blank(h)'
    BY DEF NoTrace
  <2>2. Blank(h)
    BY <1>1, <2>1 DEF NoTrace, ToCome, boundVars
  <2>3. h # g
    BY <1>1, <2>2 DEF Blank
  <2> QED BY <1>1, <1>3, <2>2, <2>3 DEF Blank, putVars
<1>8. Owned'
  <2>1. SUFFICES ASSUME NEW h \in Gens
                 PROVE  closed[h] /\ (polls'[h] > 0 \/ syncLoop[h] = "select") => h \in late
    BY <1>1 DEF Owned, Stopping
  <2>2. CASE h = g
    BY <1>1, <2>2 DEF Owned
  <2>3. CASE h # g
    BY <1>3, <2>3 DEF Owned
  <2> QED BY <2>2, <2>3
<1> QED BY <1>4, <1>5, <1>6, <1>7, <1>8

\* A tick that waits for rwLock preserves the invariant.
LEMMA TickBlocksStep ==
  ASSUME ServiceInv, NEW g \in Gens, TickBlocks(g)
  PROVE  ServiceInv'
<1> USE DEF ServiceInv
<1>1. /\ UNCHANGED <<podVars, svcEvents, manager, serviceMap, chosen, bad, spec, phase,
                     canPollSend,
                     polls, closed, syncLoop, putVars, late, boundVars>>
      /\ timer' = [timer EXCEPT ![g] = "wantLock"]
  BY DEF TickBlocks
<1>2. timer \in [Gens -> {"off", "idle", "wantLock", "exited"}]
  BY DEF TypeOK
<1>3. /\ timer' \in [Gens -> {"off", "idle", "wantLock", "exited"}]
      /\ \A h \in Gens : timer'[h] = "idle" => timer[h] = "idle"
  BY <1>1, <1>2
<1>4. TypeOK'
  BY <1>1, <1>3 DEF TypeOK, podVars, putVars, boundVars
<1>5. PodInv' /\ Queue' /\ ManagerInv' /\ EntryHasOwner' /\ Selections' /\ EntryStored'
  BY <1>1 DEF PodInv, Queue, ManagerInv, EntryHasOwner, Selections, EntryStored, podVars,
              putVars,
              boundVars
<1>6. OnePoll' /\ NoTrace'
  BY <1>1 DEF OnePoll, NoTrace, ToCome, Blank, putVars, boundVars
<1>7. Owned'
  BY <1>1, <1>3 DEF Owned, Stopping
<1> QED BY <1>4, <1>5, <1>6, <1>7

\* A poll is taken from the channel and handled under rwLock.
LEMMA PollStep ==
  ASSUME ServiceInv, NEW g \in Gens, Poll(g)
  PROVE  ServiceInv'
<1> USE DEF ServiceInv
<1>1. /\ UNCHANGED <<podVars, svcEvents, manager, serviceMap, chosen, spec, phase, closed,
                     timer,
                     entry, missed, late, boundVars>>
      /\ syncLoop[g] = "idle" /\ polls[g] > 0 /\ ~Stopping(g)
      /\ polls' = [polls EXCEPT ![g] = @ - 1]
  BY DEF Poll, LockFree
<1>2. PICK unread \in SUBSET Names(chosen[g]) :
         LET down == Names(chosen[g]) \ (running \cup unread) IN
         /\ unread # {} => fails < MaxFails
         /\ fails' = IF unread = {} THEN fails ELSE fails + 1
         /\ bad' = [bad EXCEPT ![g] = @ \cup down]
         /\ IF CallSelect(g, down)
               THEN syncLoop' = [syncLoop EXCEPT ![g] = "select"] /\ UNCHANGED canPollSend
               ELSE canPollSend' = [canPollSend EXCEPT ![g] = TRUE] /\ UNCHANGED syncLoop
  BY DEF Poll
<1>3. /\ polls \in [Gens -> 0..1] /\ canPollSend \in [Gens -> BOOLEAN]
      /\ chosen[g] \in Seq(Endpoint)
      /\ syncLoop \in [Gens -> {"off", "idle", "select", "exited"}]
      /\ bad \in [Gens -> SUBSET Pods]
      /\ fails \in 0..MaxFails /\ MaxFails \in Nat
  BY ServiceAssumption DEF TypeOK, ServiceAssumption
<1>4. polls[g] = 1 /\ ~canPollSend[g]
  BY <1>1, <1>3 DEF OnePoll
<1>5. polls' \in [Gens -> 0..1] /\ polls'[g] = 0 /\ \A h \in Gens \ {g} : polls'[h] = polls[h]
  BY <1>1, <1>3, <1>4
<1>6. ASSUME NEW i \in DOMAIN chosen[g] PROVE chosen[g][i].pod \in Pods
  <2>1. chosen[g][i] \in Endpoint
    BY <1>3
  <2> QED BY <2>1 DEF Endpoint
<1>7. Names(chosen[g]) \subseteq Pods
  BY <1>6 DEF Names
<1>8. bad' \in [Gens -> SUBSET Pods] /\ fails' \in 0..MaxFails
  BY <1>2, <1>3, <1>7
<1>9. \/ syncLoop' = [syncLoop EXCEPT ![g] = "select"] /\ canPollSend' = canPollSend
      \/ canPollSend' = [canPollSend EXCEPT ![g] = TRUE] /\ syncLoop' = syncLoop
  BY <1>2
<1>10. /\ canPollSend' \in [Gens -> BOOLEAN]
       /\ syncLoop' \in [Gens -> {"off", "idle", "select", "exited"}]
       /\ \A h \in Gens \ {g} : canPollSend'[h] = canPollSend[h] /\ syncLoop'[h] = syncLoop[h]
       /\ syncLoop'[g] # "off" /\ (canPollSend'[g] => syncLoop'[g] # "select")
  BY <1>1, <1>3, <1>4, <1>9
<1>11. TypeOK'
  BY <1>1, <1>5, <1>8, <1>10 DEF TypeOK, podVars, boundVars
<1>12. PodInv' /\ Queue' /\ ManagerInv' /\ EntryHasOwner' /\ Selections' /\ EntryStored'
  BY <1>1 DEF PodInv, Queue, ManagerInv, EntryHasOwner, Selections, EntryStored, podVars,
              boundVars
<1>13. OnePoll'
  BY <1>5, <1>10 DEF OnePoll
<1>14. NoTrace'
  <2>1. \A h \in Gens : ToCome(h)' => ToCome(h)
    BY <1>1 DEF ToCome, boundVars
  <2>2. \A h \in Gens \ {g} : Blank(h) => Blank(h)'
    BY <1>1, <1>5, <1>10 DEF Blank
  <2> QED BY <1>1, <2>1, <2>2, NoTraceKept
<1>15. Owned'
  <2>1. SUFFICES ASSUME NEW h \in Gens
                 PROVE  /\ syncLoop'[h] # "off" /\ ~closed[h] <=> serviceMap = h
                        /\ Stopping(h) => syncLoop'[h] # "select"
                        /\ closed[h] /\ (polls'[h] > 0 \/ syncLoop'[h] = "select") => h \in late
                        /\ timer[h] = "idle" => ~closed[h]
    BY <1>1 DEF Owned, Stopping
  <2>2. CASE h = g
    BY <1>1, <1>10, <2>2 DEF Owned
  <2>3. CASE h # g
    BY <1>5, <1>10, <2>3 DEF Owned
  <2> QED BY <2>2, <2>3
<1> QED BY <1>11, <1>12, <1>13, <1>14, <1>15

\* What a poll stores belongs to the current generation, or to one in late.
LEMMA PollSelectStep ==
  ASSUME ServiceInv, NEW g \in Gens, PollSelect(g)
  PROVE  ServiceInv'
<1> USE DEF ServiceInv
<1>1. /\ UNCHANGED <<podVars, svcEvents, manager, serviceMap, polls, closed, timer, late,
                     boundVars>>
      /\ syncLoop[g] = "select" /\ SelectPods(g, FALSE)
      /\ canPollSend' = [canPollSend EXCEPT ![g] = TRUE]
      /\ syncLoop' = [syncLoop EXCEPT ![g] = "idle"]
  BY DEF PollSelect
<1>2. SelectEffect(g)
  BY <1>1, SelectPodsEffect
<1>3. /\ canPollSend \in [Gens -> BOOLEAN]
      /\ syncLoop \in [Gens -> {"off", "idle", "select", "exited"}]
      /\ polls[g] = 0
  BY <1>1 DEF TypeOK, OnePoll
<1>4. /\ canPollSend' \in [Gens -> BOOLEAN]
      /\ \A h \in Gens \ {g} : canPollSend'[h] = canPollSend[h]
      /\ syncLoop' \in [Gens -> {"off", "idle", "select", "exited"}] /\ syncLoop'[g] = "idle"
      /\ \A h \in Gens \ {g} : syncLoop'[h] = syncLoop[h]
  BY <1>1, <1>3
<1>5. TypeOK'
  BY <1>1, <1>2, <1>4 DEF TypeOK, SelectEffect, EntryType, podVars, boundVars
<1>6. PodInv' /\ Queue' /\ ManagerInv'
  BY <1>1 DEF PodInv, Queue, ManagerInv, podVars, boundVars
<1>7. OnePoll'
  BY <1>1, <1>3, <1>4 DEF OnePoll
<1>8. entry'.gen \in {entry.gen, g}
  BY <1>2 DEF SelectEffect
<1>9. NoTrace'
  <2>1. \A h \in Gens : ToCome(h)' => ToCome(h)
    BY <1>1 DEF ToCome, boundVars
  <2>2. \A h \in Gens \ {g} : chosen'[h] = chosen[h]
    BY <1>2 DEF SelectEffect
  <2>3. \A h \in Gens \ {g} : Blank(h) => Blank(h)'
    BY <1>1, <1>4, <1>8, <2>2 DEF Blank
  <2> QED BY <1>1, <2>1, <2>3, NoTraceKept
<1>10. Owned'
  <2>1. SUFFICES ASSUME NEW h \in Gens
                 PROVE  /\ syncLoop'[h] # "off" /\ ~closed[h] <=> serviceMap = h
                        /\ Stopping(h) => syncLoop'[h] # "select"
                        /\ closed[h] /\ (polls[h] > 0 \/ syncLoop'[h] = "select") => h \in late
                        /\ timer[h] = "idle" => ~closed[h]
    BY <1>1 DEF Owned, Stopping
  <2>2. CASE h = g
    BY <1>1, <1>3, <1>4, <2>2 DEF Owned
  <2>3. CASE h # g
    BY <1>4, <2>3 DEF Owned
  <2> QED BY <2>2, <2>3
<1>11. EntryHasOwner'
  <2>1. g = serviceMap \/ g \in late
    BY <1>1 DEF Owned
  <2> QED BY <1>1, <1>8, <2>1 DEF EntryHasOwner
<1>12. Selections'
  BY <1>2 DEF Selections, SelectEffect
<1>13. EntryStored'
  <2>1. CASE serviceMap = g
    <3>1. CASE entry' = entry /\ missed' = missed /\ spec'[g] = spec[g] /\ phase'[g] = phase[g]
      BY <1>1, <2>1, <3>1 DEF EntryStored
    <3>2. CASE missed' = missed \cup {g}
      BY <1>1, <2>1, <3>2 DEF EntryStored
    <3>3. CASE /\ entry'.endpoints = spec'[g] /\ entry'.phase = phase'[g]
               /\ phase'[g] # Unset
      BY <1>1, <2>1, <3>3 DEF EntryStored
    <3> QED BY <1>2, <3>1, <3>2, <3>3 DEF SelectEffect
  <2>2. CASE serviceMap # g
    <3>1. SUFFICES ASSUME serviceMap \notin missed' \cup {NoGen}, entry'.gen = serviceMap
                   PROVE  /\ entry'.endpoints = spec'[serviceMap]
                          /\ entry'.phase = phase'[serviceMap]
                          /\ phase'[serviceMap] # Unset
      BY <1>1 DEF EntryStored
    <3>2. entry' = entry /\ serviceMap \notin missed
      BY <1>2, <2>2, <3>1 DEF SelectEffect
    <3>3. serviceMap \in Gens \ {g}
      BY <2>2, <3>1 DEF TypeOK
    <3>4. spec'[serviceMap] = spec[serviceMap] /\ phase'[serviceMap] = phase[serviceMap]
      BY <1>2, <3>3 DEF SelectEffect
    <3> QED BY <3>1, <3>2, <3>4 DEF EntryStored
  <2> QED BY <2>1, <2>2
<1> QED BY <1>5, <1>6, <1>7, <1>9, <1>10, <1>11, <1>12, <1>13

\* The end of a syncLoop preserves the invariant.
LEMMA ExitStep ==
  ASSUME ServiceInv, NEW g \in Gens, SyncLoopExit(g)
  PROVE  ServiceInv'
<1> USE DEF ServiceInv
<1>1. /\ UNCHANGED <<podVars, svcEvents, manager, serviceMap, polls, closed, timer, entry, late,
                     fails,
                     boundVars>>
      /\ syncLoop[g] = "idle" /\ polls[g] = 0 /\ closed[g] /\ missed' = missed \ {g}
      /\ syncLoop' = [syncLoop EXCEPT ![g] = "exited"]
      /\ chosen' = [chosen EXCEPT ![g] = <<>>] /\ bad' = [bad EXCEPT ![g] = {}]
      /\ spec' = [spec EXCEPT ![g] = <<>>] /\ phase' = [phase EXCEPT ![g] = Unset]
      /\ canPollSend' = [canPollSend EXCEPT ![g] = FALSE]
  BY DEF SyncLoopExit
<1>2. /\ syncLoop \in [Gens -> {"off", "idle", "select", "exited"}]
      /\ canPollSend \in [Gens -> BOOLEAN]
      /\ chosen \in [Gens -> Seq(Endpoint)] /\ bad \in [Gens -> SUBSET Pods]
      /\ spec \in [Gens -> Seq(Endpoint)] /\ phase \in [Gens -> ServicePhases]
      /\ missed \subseteq Gens
  BY DEF TypeOK
<1>3. Unset \in ServicePhases
  BY DEF ServicePhases
<1>4. /\ syncLoop' \in [Gens -> {"off", "idle", "select", "exited"}] /\ syncLoop'[g] = "exited"
      /\ \A h \in Gens \ {g} : syncLoop'[h] = syncLoop[h]
      /\ canPollSend' \in [Gens -> BOOLEAN] /\ ~canPollSend'[g]
      /\ \A h \in Gens \ {g} : canPollSend'[h] = canPollSend[h]
  BY <1>1, <1>2
<1>5. /\ chosen' \in [Gens -> Seq(Endpoint)] /\ chosen'[g] = <<>>
      /\ \A h \in Gens \ {g} : chosen'[h] = chosen[h]
      /\ bad' \in [Gens -> SUBSET Pods]
  BY <1>1, <1>2
<1>6. /\ spec' \in [Gens -> Seq(Endpoint)] /\ spec'[g] = <<>>
      /\ \A h \in Gens \ {g} : spec'[h] = spec[h]
  BY <1>1, <1>2
<1>7. /\ phase' \in [Gens -> ServicePhases] /\ phase'[g] = Unset
      /\ \A h \in Gens \ {g} : phase'[h] = phase[h]
  BY <1>1, <1>2, <1>3
<1>8. TypeOK'
  BY <1>1, <1>2, <1>4, <1>5, <1>6, <1>7 DEF TypeOK, podVars, boundVars
<1>9. PodInv' /\ Queue' /\ ManagerInv' /\ EntryHasOwner'
  BY <1>1 DEF PodInv, Queue, ManagerInv, EntryHasOwner, podVars, boundVars
<1>10. OnePoll'
  BY <1>1, <1>4 DEF OnePoll
<1>11. NoTrace'
  <2>1. \A h \in Gens : ToCome(h)' => ToCome(h)
    BY <1>1 DEF ToCome, boundVars
  <2>2. \A h \in Gens \ {g} : Blank(h) => Blank(h)'
    BY <1>1, <1>4, <1>5 DEF Blank
  <2> QED BY <1>1, <2>1, <2>2, NoTraceKept
<1>12. Owned'
  <2>1. SUFFICES ASSUME NEW h \in Gens
                 PROVE  /\ syncLoop'[h] # "off" /\ ~closed[h] <=> serviceMap = h
                        /\ Stopping(h) => syncLoop'[h] # "select"
                        /\ closed[h] /\ (polls[h] > 0 \/ syncLoop'[h] = "select") => h \in late
                        /\ timer[h] = "idle" => ~closed[h]
    BY <1>1 DEF Owned, Stopping
  <2>2. CASE h = g
    BY <1>1, <1>4, <2>2 DEF Owned
  <2>3. CASE h # g
    BY <1>4, <2>3 DEF Owned
  <2> QED BY <2>2, <2>3
<1>13. Selections'
  <2>1. IsSelection(<<>>, <<>>, Unset)
    BY DEF IsSelection, Distinct
  <2>2. SUFFICES ASSUME NEW h \in Gens PROVE IsSelection(chosen'[h], spec'[h], phase'[h])
    BY DEF Selections
  <2>3. CASE h = g
    BY <1>5, <1>6, <1>7, <2>1, <2>3
  <2>4. CASE h # g
    BY <1>5, <1>6, <1>7, <2>4 DEF Selections
  <2> QED BY <2>3, <2>4
<1>14. EntryStored'
  <2>1. serviceMap # g
    BY <1>1 DEF Owned
  <2>2. serviceMap \in (Gens \ {g}) \cup {NoGen}
    BY <2>1 DEF TypeOK
  <2> QED BY <1>1, <1>6, <1>7, <2>1, <2>2 DEF EntryStored
<1> QED BY <1>8, <1>9, <1>10, <1>11, <1>12, <1>13, <1>14

\* Every step of the Service controller preserves the invariant.
LEMMA ServiceInductive ==
  ASSUME ServiceInv, [Next]_vars
  PROVE  ServiceInv'
<1>1. ASSUME NEW p \in Pods, PodStarts(p) \/ PodStops(p) PROVE ServiceInv'
  BY <1>1, PodStartsStep, PodStopsStep
<1>2. CASE ApplyService \/ DeleteService
  BY <1>2, ApplyStep, DeleteStep
<1>3. CASE Manager
  BY <1>3, WatchStep, LockStep, StopStep, NewStep DEF Manager
<1>4. ASSUME NEW g \in Gens, Tick(g) \/ TickBlocks(g) \/ SyncLoop(g) PROVE ServiceInv'
  BY <1>4, TickStep, TickBlocksStep, PollStep, PollSelectStep, ExitStep DEF SyncLoop
<1>5. CASE UNCHANGED vars
  BY <1>5, ServiceStutters
<1> QED BY <1>1, <1>2, <1>3, <1>4, <1>5 DEF Next

\* The invariant implies that the entry is the selection.
LEMMA SelectionFollows ==
  ASSUME ServiceInv
  PROVE  EntryIsSelection
<1> SUFFICES ASSUME serviceMap \notin missed \cup {NoGen}, entry.gen = serviceMap
             PROVE  /\ Names(entry.endpoints) = Names(chosen[serviceMap])
                    /\ Distinct(entry.endpoints) /\ entry.phase = PhaseOf(chosen[serviceMap])
  BY DEF EntryIsSelection, Distinct, PhaseOf
<1>1. /\ entry.endpoints = spec[serviceMap] /\ entry.phase = phase[serviceMap]
      /\ phase[serviceMap] # Unset
  BY DEF ServiceInv, EntryStored
<1>2. serviceMap \in Gens
  BY DEF ServiceInv, TypeOK
<1>3. IsSelection(chosen[serviceMap], spec[serviceMap], phase[serviceMap])
  BY <1>2 DEF ServiceInv, Selections
<1> QED BY <1>1, <1>3 DEF IsSelection

\* The invariant holds in every reachable state.
LEMMA InvariantHolds == Spec => []ServiceInv
<1>1. Init => ServiceInv
  BY ServiceInit
<1>2. ServiceInv /\ [Next]_vars => ServiceInv'
  BY ServiceInductive
<1> QED BY <1>1, <1>2, PTL DEF Spec

\* Every variable of the Service controller keeps its type, and a generation has at most one Poll in
\* its channel, however many pods, applies, deletions and failures there are: the timer goroutine,
\* which sends it holding rwLock, never finds the channel full.
THEOREM ServiceTypeCorrect == Spec => []TypeOK
<1>1. ServiceInv => TypeOK
  BY DEF ServiceInv
<1> QED BY <1>1, InvariantHolds, PTL

\* The runtime entry of a Service belongs to the RuntimeService in serviceMap, to nobody, or to one
\* that DeleteService left with a poll in its channel or with an entry it could not delete.
THEOREM EntryOwned == Spec => []EntryHasOwner
<1>1. ServiceInv => EntryHasOwner
  BY DEF ServiceInv
<1> QED BY <1>1, InvariantHolds, PTL

\* The entry of the current Service names the pods selectPods has selected, none twice, and is
\* Failed exactly when there are none, unless the put of the last change failed.
THEOREM EndpointsAreTheSelection == Spec => []EntryIsSelection
<1>1. ServiceInv => EntryIsSelection
  BY SelectionFollows
<1> QED BY <1>1, InvariantHolds, PTL

=============================================================================
