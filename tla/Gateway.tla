------------------------------- MODULE Gateway -------------------------------
(***************************************************************************)
(* DNS and forwarding for one DnsAndTrans: the user who applies and        *)
(* deletes it, AddDnsAndTrans in the API server, the DnsConfigWriter of    *)
(* every node, and the Service manager that deploys the gateway.           *)
(*                                                                         *)
(* The object goes through the phases "" (applied), FileCreated (put by    *)
(* every node's writer), ServiceCreated (put by checkDnsAndTrans).  Writer *)
(* and manager put back the object they were told of, so that a put may    *)
(* carry an older version than the one it overwrites.                      *)
(***************************************************************************)
EXTENDS Naturals, Sequences

CONSTANTS
    Nodes,
    MaxVersions, \* bound: versions the user applies
    MaxRemovals, \* bound: deletions by the user
    MaxRefusals  \* bound: requests that fail

ASSUME GatewayAssumption ==
    Nodes # {} /\ MaxVersions \in Nat /\ MaxRemovals \in Nat /\ MaxRefusals \in Nat

\* The phase of an object as the user writes it: the empty string.
NoPhase == ""

None == [phase |-> "none", ver |-> 0]
Dns(phase, ver) == [phase |-> phase, ver |-> ver]

VARIABLES
    dns,       \* etcd: the DnsAndTrans
    asked,     \* what the user asked for last: [op, ver]
    client,    \* an apply whose handler has read the old phase
    toManager, \* watch events on the way to the manager
    toWriter,  \* [Nodes -> watch events on the way to the writer]
    known,     \* [Nodes -> key2DnsAnsTrans has it]
    put,       \* [Nodes -> the FileCreated the writer is about to put, or None]
    dir,       \* [Nodes -> version in the nginx directory, 0 if there is none]
    core,      \* [Nodes -> the CoreDNS file has the host]
    handler,   \* the manager's handler: what is left to do and the object
    name2Dns,  \* name2DnsMap
    gatewayRs, \* etcd: the gateway's ReplicaSet
    service,   \* etcd: the gateway's Service: "none", "applied", "again" (applied once more), "deleted"
    serviceUp, \* its runtime Service is there and Running
    lagged,    \* history: the user's request overtook work on an earlier one
    dropped,   \* history: a request failed that nobody repeats
    removals, refusals

nodeVars == <<known, put, dir, core>>
managerVars == <<handler, name2Dns>>
gateway == <<gatewayRs, service, serviceUp>>
history == <<lagged, dropped>>
gatewayVars == <<dns, asked, client, toManager, toWriter, nodeVars, managerVars, gateway, history,
                removals, refusals>>

Idle == [do |-> "none", d |-> None]

GatewayInit ==
    /\ dns = None /\ asked = [op |-> "none", ver |-> 0] /\ client = None
    /\ toManager = <<>> /\ toWriter = [n \in Nodes |-> <<>>]
    /\ known = [n \in Nodes |-> FALSE] /\ put = [n \in Nodes |-> None]
    /\ dir = [n \in Nodes |-> 0] /\ core = [n \in Nodes |-> FALSE]
    /\ handler = Idle /\ name2Dns = None
    /\ gatewayRs = FALSE /\ service = "none" /\ serviceUp = FALSE
    /\ lagged = FALSE /\ dropped = FALSE /\ removals = 0 /\ refusals = 0

\* The put of AddDnsAndTrans, and its events: the manager returns at once from those of the
\* phases "" and ServiceCreated, a writer from those of FileCreated, and these are not queued.
Store(d) ==
    /\ dns' = d
    /\ toManager' = IF d.phase \in {"FileCreated", "Delete"} THEN Append(toManager, d) ELSE toManager
    /\ toWriter' = IF d.phase = "FileCreated" THEN toWriter
                   ELSE [n \in Nodes |-> Append(toWriter[n], d)]

NotStored == UNCHANGED <<dns, toManager, toWriter>>

\* A request is refused: no connection, or a Service of the paths does not exist (any more).
Refused == refusals < MaxRefusals /\ refusals' = refusals + 1

-----------------------------------------------------------------------------
(* The user.                                                               *)

Has(events, phase) == \E i \in DOMAIN events : events[i].phase = phase

\* History: somebody still works on an object older than the one that is put now.
Behind(phase) ==
    \/ \E n \in Nodes : put[n] # None \/ (phase # NoPhase /\ Has(toWriter[n], NoPhase))
    \/ phase # "FileCreated" /\ phase # NoPhase /\ (handler # Idle \/ name2Dns # None \/ Has(toManager, "FileCreated"))

\* AddDnsAndTrans of the user's file, which has no phase: it takes that of the old object.
PhaseTakenOver(old) == IF old.phase \in {"none", "Delete"} THEN NoPhase ELSE old.phase

Apply ==
    /\ client = None /\ asked.ver < MaxVersions
    /\ asked' = [op |-> "apply", ver |-> asked.ver + 1]
    /\ client' = Dns(PhaseTakenOver(dns), asked.ver + 1)
    /\ NotStored
    /\ UNCHANGED <<nodeVars, managerVars, gateway, history, removals, refusals>>

ApplyStores ==
    /\ client # None
    /\ Store(client) /\ client' = None
    /\ lagged' = (lagged \/ Behind(client.phase))
    /\ UNCHANGED <<asked, nodeVars, managerVars, gateway, dropped, removals, refusals>>

\* A put with the phase Delete: what writer and manager expect of a deletion.
ApplyDelete ==
    /\ client = None /\ removals < MaxRemovals /\ dns.phase \notin {"none", "Delete"}
    /\ Store(Dns("Delete", dns.ver))
    /\ asked' = [asked EXCEPT !.op = "delete"] /\ removals' = removals + 1
    /\ lagged' = (lagged \/ Behind("Delete"))
    /\ UNCHANGED <<client, nodeVars, managerVars, gateway, dropped, refusals>>

\* kubectl delete: the generic del handler; everyone ignores the event.
KubectlDelete ==
    /\ client = None /\ removals < MaxRemovals /\ dns # None
    /\ dns' = None /\ UNCHANGED <<toManager, toWriter>>
    /\ asked' = [asked EXCEPT !.op = "kubectl"] /\ removals' = removals + 1
    /\ lagged' = (lagged \/ Behind("kubectl") \/ \E n \in Nodes : Has(toWriter[n], NoPhase))
    /\ UNCHANGED <<client, nodeVars, managerVars, gateway, dropped, refusals>>

-----------------------------------------------------------------------------
(* DnsConfigWriter.watchDnsAndTrans on the node n.                         *)

\* Mutant: the CoreDNS file is not written.
CoreUnwritten(n, phase) == core[n]

\* writeCoreDnsConfig: the hosts whose gateway is deployed.
CoreWritten(n, phase) == phase = "ServiceCreated"

Writer(n) ==
    /\ put[n] = None /\ toWriter[n] # <<>>
    /\ LET d == Head(toWriter[n])
       IN  \/ /\ d.phase = NoPhase
              /\ known' = [known EXCEPT ![n] = TRUE]
              /\ dir' = [dir EXCEPT ![n] = d.ver]
              /\ put' = [put EXCEPT ![n] = Dns("FileCreated", d.ver)]
              /\ UNCHANGED core
           \/ /\ d.phase = "ServiceCreated"
              /\ known' = [known EXCEPT ![n] = TRUE]
              /\ dir' = [dir EXCEPT ![n] = IF @ = 0 THEN 0 ELSE d.ver]
              /\ core' = [core EXCEPT ![n] = CoreWritten(n, d.phase)]
              /\ UNCHANGED put
           \/ /\ d.phase = "Delete" /\ known[n]
              /\ known' = [known EXCEPT ![n] = FALSE]
              /\ dir' = [dir EXCEPT ![n] = 0] /\ core' = [core EXCEPT ![n] = CoreWritten(n, "none")]
              /\ UNCHANGED put
           \/ d.phase = "Delete" /\ ~known[n] /\ UNCHANGED nodeVars
    /\ toWriter' = [toWriter EXCEPT ![n] = Tail(@)]
    /\ UNCHANGED <<dns, asked, client, toManager, managerVars, gateway, history, removals, refusals>>

\* UpdateDnsAndTrans; the writer does not look at the error.
WriterPuts(n) ==
    /\ put[n] # None
    /\ put' = [put EXCEPT ![n] = None]
    /\ \/ Store(put[n]) /\ UNCHANGED <<dropped, refusals>>
       \/ Refused /\ NotStored /\ dropped' = TRUE
    /\ UNCHANGED <<asked, client, known, dir, core, managerVars, gateway, lagged, removals>>

-----------------------------------------------------------------------------
(* The Service manager.                                                    *)

WatchDnsAndTrans ==
    /\ handler = Idle /\ toManager # <<>>
    /\ LET d == Head(toManager)
       IN  handler' = [do |-> IF d.phase = "Delete" THEN "deleteService" ELSE "rs", d |-> d]
    /\ toManager' = Tail(toManager)
    /\ UNCHANGED <<dns, asked, client, toWriter, nodeVars, name2Dns, gateway, history, removals, refusals>>

Then(step) == handler' = [handler EXCEPT !.do = step]

\* AddConfigRs or UpdateService failed: the handler returns.
GivesUp == Refused /\ handler' = Idle /\ dropped' = TRUE

AddConfigRs ==
    /\ handler.do = "rs"
    /\ \/ Then("service") /\ gatewayRs' = TRUE /\ UNCHANGED <<dropped, refusals>>
       \/ GivesUp /\ UNCHANGED gatewayRs
    /\ NotStored
    /\ UNCHANGED <<asked, client, nodeVars, name2Dns, service, serviceUp, lagged, removals>>

UpdateService ==
    /\ handler.do = "service"
    /\ \/ /\ Then("wait") /\ UNCHANGED <<dropped, refusals>>
          /\ service' = IF service = "none" THEN "applied" ELSE "again"
       \/ GivesUp /\ UNCHANGED service
    /\ NotStored
    /\ UNCHANGED <<asked, client, nodeVars, name2Dns, gatewayRs, serviceUp, lagged, removals>>

\* Mutant: the object that waits already stays.
WaitsFirst == IF name2Dns = None THEN handler.d ELSE name2Dns

Waits == handler.d

PutName2Dns ==
    /\ handler.do = "wait"
    /\ name2Dns' = Waits /\ handler' = Idle
    /\ NotStored
    /\ UNCHANGED <<asked, client, nodeVars, gateway, history, removals, refusals>>

\* DeleteService, which fails if there is none; DeleteConfigRs asks for the Service's name, which
\* no ReplicaSet has, and fails.
DeleteGatewayService ==
    /\ handler.do = "deleteService"
    /\ \/ service # "none" /\ service' = "deleted" /\ UNCHANGED <<dropped, refusals>>
       \/ service = "none" /\ UNCHANGED <<service, dropped, refusals>>
       \/ Refused /\ dropped' = TRUE /\ UNCHANGED service
    /\ handler' = Idle /\ NotStored
    /\ UNCHANGED <<asked, client, nodeVars, name2Dns, gatewayRs, serviceUp, lagged, removals>>

\* Mutant: the entry is removed whether or not the put succeeded.
RemovedAnyway(ok) == None

\* A failed request is repeated in the next round.
WaitsAfter(ok) == IF ok THEN None ELSE name2Dns

CheckDnsAndTrans ==
    /\ name2Dns # None /\ serviceUp
    /\ \/ /\ Store(Dns("ServiceCreated", name2Dns.ver))
          /\ name2Dns' = WaitsAfter(TRUE) /\ UNCHANGED refusals
       \/ Refused /\ NotStored /\ name2Dns' = WaitsAfter(FALSE)
    /\ UNCHANGED <<asked, client, nodeVars, handler, gateway, history, removals>>

\* The Service controller and the kubelets.  A Service applied again is deleted and made anew.
ServiceFollows ==
    /\ \/ service = "again" /\ service' = "applied" /\ serviceUp' = FALSE
       \/ service # "again" /\ UNCHANGED service
          /\ serviceUp' = (service = "applied") /\ serviceUp' # serviceUp
    /\ NotStored
    /\ UNCHANGED <<asked, client, nodeVars, managerVars, gatewayRs, history, removals, refusals>>

-----------------------------------------------------------------------------
ManagerStep == WatchDnsAndTrans \/ AddConfigRs \/ UpdateService \/ PutName2Dns \/ DeleteGatewayService

GatewayNext ==
    \/ Apply \/ ApplyStores \/ ApplyDelete \/ KubectlDelete
    \/ \E n \in Nodes : Writer(n) \/ WriterPuts(n)
    \/ ManagerStep \/ CheckDnsAndTrans \/ ServiceFollows

\* Goroutines run, and requests are answered; what the user does next is open.
GatewayFairness ==
    /\ WF_gatewayVars(ApplyStores)
    /\ \A n \in Nodes : WF_gatewayVars(Writer(n) \/ WriterPuts(n))
    /\ WF_gatewayVars(ManagerStep) /\ WF_gatewayVars(CheckDnsAndTrans) /\ WF_gatewayVars(ServiceFollows)

GatewaySpec == GatewayInit /\ [][GatewayNext]_gatewayVars
FairGatewaySpec == GatewaySpec /\ GatewayFairness

-----------------------------------------------------------------------------
Quiet ==
    /\ client = None /\ toManager = <<>> /\ handler = Idle /\ name2Dns = None
    /\ \A n \in Nodes : toWriter[n] = <<>> /\ put[n] = None

\* The user has the last word: once all is quiet the store holds the version applied last, or
\* the deletion, unless the request overtook work on an older version, whose put then wins, or
\* a request failed that nobody repeats.
LastWordStands ==
    Quiet /\ ~lagged /\ ~dropped =>
       CASE asked.op = "apply" -> dns.ver = asked.ver /\ dns.phase # "Delete"
         [] asked.op = "delete" -> dns.phase = "Delete"
         [] OTHER -> dns = None

\* Every node serves what the store says: the version of a deployed DnsAndTrans and its host, and
\* neither of a deleted one.
NodesServe ==
    Quiet /\ ~lagged /\ ~dropped =>
       /\ dns.phase = "ServiceCreated" => \A n \in Nodes : core[n] /\ dir[n] = dns.ver
       /\ dns.phase = "Delete" => \A n \in Nodes : ~core[n] /\ dir[n] = 0

\* What is applied gets deployed: the gateway's Service runs and every node knows the host; a
\* failed put of checkDnsAndTrans is made up for.
GetsDeployed ==
    (<>[](asked.op = "apply" /\ ~dropped /\ ~lagged))
       => <>[](dns.phase = "ServiceCreated" /\ serviceUp /\ \A n \in Nodes : core[n])

\* The deletion of a DnsAndTrans (kubectl del dns) removes its host from the nodes.
DeletedHostGoes ==
    (<>[](asked.op = "kubectl" /\ Quiet)) => <>[](\A n \in Nodes : ~core[n])

=============================================================================
