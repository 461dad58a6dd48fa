------------------------------ MODULE KubeProxy ------------------------------
(***************************************************************************)
(* The kube-proxy of one node: the runtime Services in the store, the      *)
(* watch that brings their changes, the chains kube-proxy remembers and    *)
(* the nat table it edits with iptables.                                   *)
(*                                                                         *)
(* A Service has one SVC chain per port, entered from SERVICE; it holds    *)
(* one rule per endpoint that takes every n-th packet to the endpoint's    *)
(* SEP chain, which holds the DNAT rule.  A SEP chain is named by pod and  *)
(* target port only, so two Services, or two ports of one, may share it.   *)
(*                                                                         *)
(* The nat table outlives kube-proxy; what kube-proxy remembers does not.  *)
(* An event is handled by a plan of iptables commands, one step each: the  *)
(* kernel uses the tables in between, and kube-proxy may die in between.   *)
(***************************************************************************)
EXTENDS Naturals, FiniteSets, SequencesExt

CONSTANTS
    Services,    \* Service names; each has its ClusterIp
    Pods,
    Ports,       \* port names of the Services
    TargetPort,  \* [Ports -> the pods' port it forwards to]
    Specs,       \* what a runtime Service may hold: [ports, units], units being its PodNameAndIps
    MaxChanges,  \* bound: puts and deletions of runtime Services
    MaxQueue,    \* bound: watch events in flight
    MaxCrashes   \* bound: restarts of the kubelet, which runs kube-proxy

ASSUME KubeProxyAssumption ==
    \A spec \in Specs :
       /\ DOMAIN spec = {"ports", "units"}
       /\ \A i \in DOMAIN spec.ports : spec.ports[i] \in Ports
       /\ \A i \in DOMAIN spec.units : spec.units[i].pod \in Pods

VARIABLES
    store,      \* etcd: the runtime Services
    events,     \* watch events on the way to kube-proxy
    registered, \* etcd: this node is there
    proxy,      \* "down", "boot", "preset" (PreSetService), "watching"
    listed,     \* PreSetService: the Services still to be handled
    plan,       \* the iptables commands still to be run
    handled,    \* the Service they are for: none or one
    svcChains,  \* ServiceName2SvcChain: [Services -> NoSvc or [Ports -> [Pods -> SepChain]]]
    nat,        \* the kernel's table: [chain -> sequence of rules]
    void,       \* history: Services that met another's SEP chain, or share one between two ports,
                \* or were known before a crash; all, if it left SERVICE without its jumps
    outdated,   \* history: Services whose chains an update could not bring up to date
    missed,     \* history: Services changed while nobody watched, and not since
    changes, crashes

storeVars == <<store, changes>>
vars == <<store, events, registered, proxy, listed, plan, handled, svcChains, nat, void, outdated,
          missed, changes, crashes>>

NoService == [ports |-> <<>>, units |-> <<>>]
NoSvc == <<>>

\* The names and rules of chain.go.
BuiltIn == {<<"OUTPUT">>, <<"PREROUTING">>}
ServiceChain == <<"SERVICE">>
SvcName(s, port) == <<"SVC", s, port>>
SepName(pod, target) == <<"SEP", pod, target>>
Always(chain) == [match |-> <<>>, target |-> chain]
SvcRule(s, port) == [match |-> <<s, port>>, target |-> SvcName(s, port)]
SepRule(sep) == [match |-> <<sep.rr>>, target |-> sep.name]
DnatRule(sep) == Always(<<"DNAT", sep.ip, sep.port>>)

Init ==
    /\ store = [s \in Services |-> NoService] /\ events = <<>>
    /\ registered = FALSE /\ proxy = "down" /\ listed = <<>> /\ plan = <<>> /\ handled = {}
    /\ svcChains = [s \in Services |-> NoSvc] /\ nat = [c \in BuiltIn |-> <<>>]
    /\ void = {} /\ outdated = {} /\ missed = {}
    /\ changes = 0 /\ crashes = 0

-----------------------------------------------------------------------------
(* iptables.  A command that fails ends the commands of its scope, which   *)
(* are those of one DeleteRule; the others' errors are only printed.       *)

Alone == <<>>
Cmd(op, chain, rule, scope) == [op |-> op, chain |-> chain, rule |-> rule, scope |-> scope]
NewChain(chain) == Cmd("new", chain, Always(chain), Alone)
AppendRule(chain, rule) == Cmd("append", chain, rule, Alone)
Insert(chain, rule) == Cmd("insert", chain, rule, Alone)
DeleteRule(chain, rule, scope) == Cmd("delete", chain, rule, scope)
DeleteChain(chain, scope) == Cmd("drop", chain, Always(chain), scope)

Rules(chain) == ToSet(nat[chain])
Referenced(chain) == \E c \in DOMAIN nat : \E r \in Rules(c) : r.target = chain

Possible(cmd) ==
    CASE cmd.op = "new" -> cmd.chain \notin DOMAIN nat
      [] cmd.op \in {"append", "insert"} ->
            cmd.chain \in DOMAIN nat /\ (cmd.rule.target \in DOMAIN nat \/ cmd.rule.target[1] = "DNAT")
      [] cmd.op = "delete" -> cmd.chain \in DOMAIN nat /\ cmd.rule \in Rules(cmd.chain)
      [] cmd.op = "drop" ->
            cmd.chain \in DOMAIN nat /\ nat[cmd.chain] = <<>> /\ ~Referenced(cmd.chain)

Done(cmd) ==
    CASE cmd.op = "new" ->
            [c \in DOMAIN nat \cup {cmd.chain} |-> IF c = cmd.chain THEN <<>> ELSE nat[c]]
      [] cmd.op = "append" -> [nat EXCEPT ![cmd.chain] = Append(@, cmd.rule)]
      [] cmd.op = "insert" -> [nat EXCEPT ![cmd.chain] = <<cmd.rule>> \o @]
      [] cmd.op = "delete" -> [nat EXCEPT ![cmd.chain] = RemoveFirst(@, cmd.rule)]
      [] cmd.op = "drop" -> [c \in DOMAIN nat \ {cmd.chain} |-> nat[c]]

OutOfScope(cmds, scope) == SelectSeq(cmds, LAMBDA c : c.scope # scope)

Execute ==
    /\ plan # <<>>
    /\ LET cmd == Head(plan)
       IN  \/ Possible(cmd) /\ nat' = Done(cmd) /\ plan' = Tail(plan)
           \/ /\ ~Possible(cmd) /\ UNCHANGED nat
              /\ plan' = IF cmd.scope = Alone THEN Tail(plan) ELSE OutOfScope(Tail(plan), cmd.scope)
    /\ handled' = IF plan' = <<>> THEN {} ELSE handled
    /\ UNCHANGED <<storeVars, events, registered, proxy, listed, svcChains, void, outdated, missed,
                   crashes>>

-----------------------------------------------------------------------------
(* chain.go: the commands of its functions.                                *)

\* The commands F gives for each member of a sequence, one after the other.
ForEach(seq, F(_)) == FlattenSeq([i \in DOMAIN seq |-> F(seq[i])])

\* Mutant: the endpoint is entered before it has its DNAT rule.
SepJumpFirst(svc, sep) ==
    <<NewChain(sep.name), AppendRule(svc, SepRule(sep)), AppendRule(sep.name, DnatRule(sep))>>

\* NewSepChain and the ApplyRule that follows it.
NewSepChain(svc, sep) ==
    <<NewChain(sep.name), AppendRule(sep.name, DnatRule(sep)), AppendRule(svc, SepRule(sep))>>

Sep(unit, port, rr) ==
    [name |-> SepName(unit.pod, TargetPort[port]), ip |-> unit.ip, port |-> TargetPort[port],
     rr |-> rr]

\* Mutant: the DNAT rule is left in the chain.
SepDeleteKeepsDnat(svc, sep, scope) ==
    <<DeleteRule(svc, SepRule(sep), scope), DeleteChain(sep.name, scope)>>

\* SepChain.DeleteRule: the jump, the DNAT rule, the chain; the first error ends it.
SepDelete(svc, sep, scope) ==
    <<DeleteRule(svc, SepRule(sep), scope), DeleteRule(sep.name, DnatRule(sep), scope),
      DeleteChain(sep.name, scope)>>

\* total counts down from the number of endpoints to 1.
RrNum(units, i) == Len(units) + 1 - i

SepsOf(units, port) ==
    [pod \in {units[i].pod : i \in DOMAIN units} |->
        LET i == CHOOSE n \in DOMAIN units : units[n].pod = pod
        IN  Sep(units[i], port, RrNum(units, i))]

\* NewSvcChain and the ApplyRule that follows it.
NewSvcChain(s, port, units) ==
    LET Add(unit) == NewSepChain(SvcName(s, port), SepsOf(units, port)[unit.pod])
    IN  <<NewChain(SvcName(s, port))>> \o ForEach(units, Add)
           \o <<AppendRule(ServiceChain, SvcRule(s, port))>>

\* SvcChain.DeleteRule over the SEP chains in the order `pods`.
SvcDelete(s, port, seps, pods) ==
    LET scope == <<port>>
        Del(pod) == SepDelete(SvcName(s, port), seps[pod], scope)
    IN  <<DeleteRule(ServiceChain, SvcRule(s, port), scope)>>
           \o ForEach(SelectSeq(pods, LAMBDA p : p \in DOMAIN seps), Del)
           \o <<DeleteChain(SvcName(s, port), scope)>>

\* Mutant: the endpoints that remain keep their rules and numbers.
UpdateSepsOnlyNew(seps, units, port) ==
    [pod \in {units[i].pod : i \in DOMAIN units} |->
        IF pod \in DOMAIN seps THEN seps[pod] ELSE SepsOf(units, port)[pod]]

\* UpdateRule's new PodName2SepChain: one that remains only changes its number.
UpdateSeps(seps, units, port) ==
    LET new == SepsOf(units, port)
    IN  [pod \in DOMAIN new |->
            IF pod \in DOMAIN seps THEN [seps[pod] EXCEPT !.rr = new[pod].rr] ELSE new[pod]]

\* UpdateRule: the endpoints that left go, the rules of the others are taken out, in the order
\* `pods`, and put back in the new order.
UpdateRule(s, port, seps, units, pods) ==
    LET svc == SvcName(s, port)
        new == UpdateSeps(seps, units, port)
        Leave(p) == SepDelete(svc, seps[p], <<port, p>>)
        Take(p) == <<DeleteRule(svc, SepRule(seps[p]), Alone)>>
        Put(unit) == IF unit.pod \in DOMAIN seps
                        THEN <<AppendRule(svc, SepRule(new[unit.pod]))>>
                        ELSE NewSepChain(svc, new[unit.pod])
    IN  ForEach(SelectSeq(pods, LAMBDA p : p \in DOMAIN seps \ DOMAIN new), Leave)
           \o ForEach(SelectSeq(pods, LAMBDA p : p \in DOMAIN seps \cap DOMAIN new), Take)
           \o ForEach(units, Put)

-----------------------------------------------------------------------------
(* watchRuntimeService.  The maps are written at once: only the handler    *)
(* reads them, and it is done with its plan before the next event.         *)

Planned(s, cmds, chains) ==
    /\ plan' = cmds /\ handled' = IF cmds = <<>> THEN {} ELSE {s}
    /\ svcChains' = [svcChains EXCEPT ![s] = chains]

\* An unknown Service without pods (Phase Failed) is left alone, one with pods gets its chains.
PutUnknown(s, spec) ==
    IF spec.units = <<>>
       THEN Planned(s, <<>>, NoSvc)
       ELSE LET Add(port) == NewSvcChain(s, port, spec.units)
            IN  Planned(s, ForEach(spec.ports, Add),
                        [port \in ToSet(spec.ports) |-> SepsOf(spec.units, port)])

\* A known one is updated port by port, up to the first port it does not know.
PutKnown(s, spec, pods) ==
    LET known == DOMAIN svcChains[s]
        alien == {i \in DOMAIN spec.ports : spec.ports[i] \notin known}
        ports == IF alien = {} THEN spec.ports ELSE SubSeq(spec.ports, 1, Min(alien) - 1)
        Upd(port) == UpdateRule(s, port, svcChains[s][port], spec.units, pods[port])
    IN  Planned(s, ForEach(ports, Upd),
                [port \in known |-> IF port \in ToSet(ports)
                                       THEN UpdateSeps(svcChains[s][port], spec.units, port)
                                       ELSE svcChains[s][port]])

\* The chains of a known Service are deleted in any order; errors are dropped.
Deletion(s, pods) ==
    \E ports \in SetToSeqs(DOMAIN svcChains[s]) :
       LET Del(port) == SvcDelete(s, port, svcChains[s][port], pods[port])
       IN  Planned(s, ForEach(ports, Del), NoSvc)

SepNames(chains, s) ==
    UNION {{chains[s][port][pod].name : pod \in DOMAIN chains[s][port]} : port \in DOMAIN chains[s]}

\* History: a put changed the IP of a pod that remains, or the ports; UpdateRule looks at
\* neither.
Outdated(s, spec) ==
    /\ svcChains'[s] # NoSvc /\ spec # NoService
    /\ \/ DOMAIN svcChains'[s] # ToSet(spec.ports)
       \/ \E port \in DOMAIN svcChains'[s] : \E i \in DOMAIN spec.units :
             svcChains'[s][port][spec.units[i].pod].ip # spec.units[i].ip

\* History: the SEP chains two of the Service's ports make, having the same target port.
Twice(s) ==
    {SepName(pod, TargetPort[port]) : pod \in Pods,
        port \in {q \in DOMAIN svcChains'[s] : \E r \in DOMAIN svcChains'[s] :
                    r # q /\ TargetPort[r] = TargetPort[q]}}

\* History: SEP chains that were there already when the Service, or one of its ports, made them.
Found(s) ==
    (SepNames(svcChains', s) \ SepNames(svcChains, s)) \cap (DOMAIN nat \cup Twice(s))

\* Go's maps are walked in any order: `pods` has one for each port.
WatchRuntimeService(s, spec) ==
    /\ plan = <<>>
    /\ \E pods \in [DOMAIN svcChains[s] -> SetToSeqs(Pods)] :
          IF spec = NoService
             THEN Deletion(s, pods)
             ELSE IF svcChains[s] = NoSvc THEN PutUnknown(s, spec) ELSE PutKnown(s, spec, pods)
    /\ outdated' = IF Outdated(s, spec) THEN outdated \cup {s} ELSE outdated \ {s}
    /\ void' = void \cup {t \in Services : SepNames(svcChains', t) \cap Found(s) # {}}
    /\ UNCHANGED nat

Handle ==
    /\ proxy = "watching" /\ events # <<>>
    /\ WatchRuntimeService(Head(events).service, Head(events).spec)
    /\ events' = Tail(events)
    /\ missed' = missed \ {Head(events).service}
    /\ UNCHANGED <<storeVars, registered, proxy, listed, crashes>>

-----------------------------------------------------------------------------
(* The Service controller and the kubelet that runs kube-proxy.            *)

\* UpdateRuntimeService or DeleteRuntimeService; the change is published if kube-proxy watches.
\* A put may carry other ports only when a deleted RuntimeService stores its entry late.
Change(s) ==
    /\ changes < MaxChanges /\ Len(events) < MaxQueue
    /\ \E spec \in Specs \cup {NoService} :
          /\ spec # NoService \/ store[s] # NoService
          /\ store' = [store EXCEPT ![s] = spec]
          /\ events' = IF proxy = "watching"
                          THEN Append(events, [service |-> s, spec |-> spec]) ELSE events
          /\ missed' = IF proxy = "watching" THEN missed ELSE missed \cup {s}
    /\ changes' = changes + 1
    /\ UNCHANGED <<registered, proxy, listed, plan, handled, svcChains, nat, void, outdated, crashes>>

\* Boot: SERVICE is made and entered from OUTPUT and PREROUTING, unless it exists.
Boot ==
    IF ServiceChain \in DOMAIN nat
       THEN <<>>
       ELSE <<NewChain(ServiceChain), Insert(<<"OUTPUT">>, Always(ServiceChain)),
              Insert(<<"PREROUTING">>, Always(ServiceChain))>>

\* Kubelet.Run: the node is registered (the put may fail), then Boot.
Start ==
    /\ proxy = "down"
    /\ registered' \in {TRUE, registered}
    /\ plan' = Boot /\ proxy' = "boot"
    /\ UNCHANGED <<storeVars, events, listed, handled, svcChains, nat, void, outdated, missed, crashes>>

\* PreSetService lists the Services only if GetNode does not find the node (or fails).
ListServices ==
    /\ proxy = "boot" /\ plan = <<>>
    /\ \E found \in {registered, FALSE}, order \in SetToSeqs({s \in Services : store[s] # NoService}) :
          listed' = IF found THEN <<>>
                    ELSE [i \in DOMAIN order |-> [service |-> order[i], spec |-> store[order[i]]]]
    /\ proxy' = "preset"
    /\ UNCHANGED <<storeVars, events, registered, plan, handled, svcChains, nat, void, outdated, missed,
                   crashes>>

PreSetService ==
    /\ proxy = "preset" /\ listed # <<>>
    /\ WatchRuntimeService(Head(listed).service, Head(listed).spec)
    /\ listed' = Tail(listed)
    /\ missed' = IF Head(listed).spec = store[Head(listed).service]
                    THEN missed \ {Head(listed).service} ELSE missed
    /\ UNCHANGED <<storeVars, events, registered, proxy, crashes>>

\* The goroutine of registry has its watch.
Registry ==
    /\ proxy = "preset" /\ listed = <<>> /\ plan = <<>>
    /\ proxy' = "watching"
    /\ UNCHANGED <<storeVars, events, registered, listed, plan, handled, svcChains, nat, void, outdated,
                   missed, crashes>>

\* The kernel enters SERVICE.
Entered == \A c \in BuiltIn : Always(ServiceChain) \in Rules(c)

Crash ==
    /\ proxy # "down" /\ crashes < MaxCrashes
    /\ proxy' = "down" /\ events' = <<>> /\ listed' = <<>> /\ plan' = <<>> /\ handled' = {}
    /\ svcChains' = [s \in Services |-> NoSvc]
    /\ void' = IF ServiceChain \in DOMAIN nat /\ ~Entered
                  THEN Services
                  ELSE void \cup handled \cup {s \in Services : svcChains[s] # NoSvc}
    /\ missed' = missed \cup {events[i].service : i \in DOMAIN events}
    /\ crashes' = crashes + 1
    /\ outdated' = {}
    /\ UNCHANGED <<storeVars, registered, nat>>

-----------------------------------------------------------------------------
Next ==
    \/ \E s \in Services : Change(s)
    \/ Start \/ ListServices \/ PreSetService \/ Registry \/ Handle \/ Execute
    \/ Crash

Spec == Init /\ [][Next]_vars

-----------------------------------------------------------------------------
Event == [service : Services, spec : Specs \cup {NoService}]

\* Every variable has its type; a chain kube-proxy remembers is one of a Service's ports, and no
\* rule takes every 0-th packet (iptables refuses that).
TypeOK ==
    /\ store \in [Services -> Specs \cup {NoService}]
    /\ events \in Seq(Event) /\ listed \in Seq(Event)
    /\ registered \in BOOLEAN /\ proxy \in {"down", "boot", "preset", "watching"}
    /\ handled \subseteq Services /\ Cardinality(handled) <= 1
    /\ \A s \in Services : /\ DOMAIN svcChains[s] \subseteq Ports
                           /\ \A port \in DOMAIN svcChains[s] : \A pod \in DOMAIN svcChains[s][port] :
                                 svcChains[s][port][pod].rr \in 1..Cardinality(Pods)
    /\ void \subseteq Services /\ outdated \subseteq Services /\ missed \subseteq Services
    /\ changes \in 0..MaxChanges /\ crashes \in 0..MaxCrashes

\* Where the kernel sends the packets of a port: in the order of the rules, the address that takes
\* every n-th packet that comes so far.  A packet that enters an empty SEP chain falls through.
Nowhere == <<"nowhere">>
RouteOf(s, port) ==
    LET rules == nat[SvcName(s, port)]
    IN  [i \in DOMAIN rules |->
            [every |-> rules[i].match[1],
             address |-> IF nat[rules[i].target] = <<>> THEN Nowhere ELSE nat[rules[i].target][1].target]]

Routed(s) ==
    IF Entered THEN {port \in Ports : SvcRule(s, port) \in Rules(ServiceChain)} ELSE {}
Routes(s) == [port \in Routed(s) |-> RouteOf(s, port)]

\* What kube-proxy remembers of a Service, as a table.
Remembered(s) ==
    [port \in DOMAIN svcChains[s] |->
        LET seps == svcChains[s][port]
            order == SetToSortSeq(DOMAIN seps, LAMBDA p, q : seps[p].rr > seps[q].rr)
        IN  [i \in DOMAIN order |->
                [every |-> seps[order[i]].rr, address |-> DnatRule(seps[order[i]]).target]]]

UnitIps == UNION {{spec.units[i].ip : i \in DOMAIN spec.units} : spec \in Specs}

\* Every single iptables command keeps the promise of ServiceRouting: it touches the Service whose
\* event is handled and no other; a port is published when its chain is complete and withdrawn as
\* a whole; an update sends traffic to old and new endpoints only, never into an endpoint's chain
\* that is not complete; and the last command leaves the even spread kube-proxy remembers.
\* Except for Services that have shared a SEP chain or were known to a kube-proxy that died, and
\* for all once kube-proxy died in Boot before SERVICE was entered.
Routing == INSTANCE ServiceRouting WITH
    routes <- [s \in Services |-> IF s \in void THEN <<>> ELSE Routes(s)],
    changing <- [s \in handled \ void |-> Remembered(s)],
    Addresses <- {<<"DNAT", ip, TargetPort[port]>> : ip \in UnitIps, port \in Ports}
ImplementsRouting == Routing!Spec

Quiet == proxy = "watching" /\ events = <<>> /\ plan = <<>>

Wanted(spec) ==
    [port \in ToSet(spec.ports) |->
        [i \in DOMAIN spec.units |->
            [every |-> Len(spec.units) + 1 - i,
             address |-> <<"DNAT", spec.units[i].ip, TargetPort[port]>>]]]

\* Once every event is handled the kernel forwards each Service to the endpoints the store
\* names, in their order, and a deleted one nowhere; this survives missed changes of other
\* Services, and the Service's own next change makes good for one that was missed.
RoutesMatchStore ==
    Quiet => \A s \in Services \ (void \cup outdated \cup missed) :
       \/ Routes(s) = Wanted(store[s])
       \/ store[s].units = <<>> /\ Routed(s) = {}

\* Deletion is complete: while no SEP chain was shared and no kube-proxy died, the table holds
\* the chains kube-proxy remembers and no other once the commands of an event have run.
NoLeftovers ==
    void = {} /\ proxy \in {"preset", "watching"} /\ plan = <<>> =>
       DOMAIN nat = BuiltIn \cup {ServiceChain}
          \cup UNION {{SvcName(s, port) : port \in DOMAIN svcChains[s]} : s \in Services}
          \cup UNION {SepNames(svcChains, s) : s \in Services}

\* PreSetService says it pulls the Services that exist already: once kube-proxy has started for
\* the first time and is quiet, a Service with endpoints is routed.
ExistingServicesPulled ==
    Quiet /\ crashes = 0 =>
       \A s \in Services \ void : store[s].units # <<>> => Routed(s) # {}

=============================================================================
