---------------------------- MODULE WatchRegistry ----------------------------
(***************************************************************************)
(* Watching one key: the API server's watch handler, its daemon and the    *)
(* set of tickets, the etcd watch and the goroutine that publishes what it *)
(* yields, the fanout exchange, and the clients' Watch / WatchNonBlocking. *)
(*                                                                         *)
(* Event n is the n-th change of the key.  A watcher is one etcd watch and *)
(* its publishing goroutine; cancelling it stops the watch but not the     *)
(* events already on their way, so that two may publish at once.           *)
(***************************************************************************)
EXTENDS Naturals, FiniteSets, Sequences

CONSTANTS
    Clients,
    MaxEvents,    \* bound: changes of the key
    MaxTickets,   \* bound: watches asked for
    MaxFaults     \* bound: restarts of the API server and drops of its, or a client's, connection to
                  \* the broker

ASSUME WatchRegistryAssumption ==
    MaxEvents \in Nat /\ MaxTickets \in Nat /\ MaxFaults \in Nat

Watchers == 1..MaxTickets
NoWatcher == 0
NoTicket == [no |-> 0, life |-> 0]
Tickets == [no : 1..MaxTickets, life : 0..MaxFaults]

VARIABLES
    rev,        \* how often the key has changed
    life,       \* which run of the API server this is
    sold,       \* ticketSeller
    daemon,     \* the watchOpt the daemon has received and not yet installed, or NoTicket
    watcher,    \* watcherMap[key]
    set,        \* its tickets: numbers only
    etcdWatch,  \* [Watchers -> "off", "starting", "on"]
    next,       \* the event each etcd watch yields next
    pipe,       \* the events it has yielded and nobody has published
    publisher,  \* the publisher's connection is up
    client,     \* Watch: "idle", "ticketed", "subscribed", "unsubscribed", "withdrawn"
    ticket,     \* the ticket each client has to give back, with the run that sold it
    queue,      \* the events in the queue of each client's subscription
    last,       \* the last event its handler has seen, 0 before the first
    leaked,     \* history: tickets given back before the daemon added them, or never
    robbed,     \* history: clients whose ticket was removed under the same number by another
    troubled,   \* history: clients whose events another watcher's or a lost one got between, since
                \* they subscribed
    asked, faults

serverVars == <<life, sold, daemon, watcher, set>>
etcdVars == <<etcdWatch, next, pipe>>
clientVars == <<client, ticket, queue, last>>
history == <<leaked, robbed, troubled>>
bounds == <<asked, faults>>
vars == <<rev, serverVars, etcdVars, publisher, clientVars, history, bounds>>

Init ==
    /\ rev = 0 /\ life = 0 /\ sold = 0 /\ daemon = NoTicket
    /\ watcher = NoWatcher /\ set = {}
    /\ etcdWatch = [w \in Watchers |-> "off"] /\ next = [w \in Watchers |-> 0]
    /\ pipe = [w \in Watchers |-> <<>>] /\ publisher = TRUE
    /\ client = [c \in Clients |-> "idle"] /\ ticket = [c \in Clients |-> NoTicket]
    /\ queue = [c \in Clients |-> <<>>] /\ last = [c \in Clients |-> 0]
    /\ leaked = {} /\ robbed = {} /\ troubled = {}
    /\ asked = 0 /\ faults = 0

\* Clients that have a queue on the exchange.
Bound == {c \in Clients : client[c] \in {"subscribed", "withdrawn"}}
\* Clients that have a ticket to give back.
Holders == {c \in Clients : client[c] \in {"ticketed", "subscribed", "unsubscribed"}}

\* Its ticket is in the set, as far as this run of the server can know.
Installed(c) == /\ c \in Holders \ robbed
                /\ ticket[c].life = life /\ ticket[c] # daemon

-----------------------------------------------------------------------------
(* The store, the etcd watches and the publisher.                          *)

\* Put or Del of the key.
ChangeKey ==
    /\ rev < MaxEvents
    /\ rev' = rev + 1
    /\ UNCHANGED <<serverVars, etcdVars, publisher, clientVars, history, bounds>>

\* The goroutine of PrefixWatch gets to client.Watch.
EtcdWatchStarts(w) ==
    /\ etcdWatch[w] = "starting"
    /\ etcdWatch' = [etcdWatch EXCEPT ![w] = "on"]
    /\ next' = [next EXCEPT ![w] = rev + 1]
    /\ UNCHANGED <<rev, serverVars, pipe, publisher, clientVars, history, bounds>>

\* An event leaves etcd for the goroutine that publishes.  An etcd watch does not end by itself.
EtcdYields(w) ==
    /\ etcdWatch[w] = "on" /\ next[w] <= rev
    /\ pipe' = [pipe EXCEPT ![w] = Append(@, next[w])]
    /\ next' = [next EXCEPT ![w] = @ + 1]
    /\ UNCHANGED <<rev, serverVars, etcdWatch, publisher, clientVars, history, bounds>>

\* Publisher.Publish: to every queue bound to the exchange; an error is only printed.
Publish(w) ==
    /\ pipe[w] # <<>>
    /\ pipe' = [pipe EXCEPT ![w] = Tail(@)]
    /\ IF publisher
          THEN /\ queue' = [c \in Clients |->
                     IF c \in Bound THEN Append(queue[c], Head(pipe[w])) ELSE queue[c]]
               /\ troubled' = IF w = watcher THEN troubled ELSE troubled \cup Bound
          ELSE queue' = queue /\ troubled' = troubled \cup Bound
    /\ UNCHANGED <<rev, serverVars, etcdWatch, next, publisher, client, ticket, last,
                   leaked, robbed, bounds>>

CutPublisher ==
    /\ publisher /\ faults < MaxFaults
    /\ publisher' = FALSE /\ faults' = faults + 1
    /\ UNCHANGED <<rev, serverVars, etcdVars, clientVars, history, asked>>

\* rerun: one of maxRetry dials succeeds.  Between a failed one and the next the connection is
\* nil and Publish panics: the API server's death, which RestartServer is.
ReconnectPublisher ==
    /\ ~publisher
    /\ publisher' = TRUE
    /\ UNCHANGED <<rev, serverVars, etcdVars, clientVars, history, bounds>>

-----------------------------------------------------------------------------
(* The daemon and the watch handler.                                       *)

\* The client posts a watch; the handler sells a ticket, hands it to the daemon once that is
\* idle, and answers.
PostWatch(c) ==
    /\ client[c] = "idle" /\ daemon = NoTicket /\ asked < MaxTickets
    /\ asked' = asked + 1 /\ sold' = sold + 1
    /\ daemon' = [no |-> sold + 1, life |-> life]
    /\ ticket' = [ticket EXCEPT ![c] = [no |-> sold + 1, life |-> life]]
    /\ client' = [client EXCEPT ![c] = "ticketed"]
    /\ UNCHANGED <<rev, life, watcher, set, etcdVars, publisher, queue, last, history, faults>>

\* A watcher that is neither running nor draining: the next one takes its place.
Free == CHOOSE w \in Watchers : etcdWatch[w] = "off" /\ pipe[w] = <<>>

\* In the critical section the ticket joins the set, whose first ticket starts a watch.
DaemonInstalls ==
    /\ daemon # NoTicket
    /\ IF watcher = NoWatcher
          THEN /\ watcher' = Free /\ set' = {daemon.no}
               /\ etcdWatch' = [etcdWatch EXCEPT ![Free] = "starting"]
          ELSE set' = set \cup {daemon.no} /\ UNCHANGED <<watcher, etcdWatch>>
    /\ daemon' = NoTicket
    /\ UNCHANGED <<rev, life, sold, next, pipe, publisher, clientVars, history, bounds>>

\* Mutant: the watch is cancelled by whoever gives a ticket back first.
RemainingCancelled(no) == {}

\* Mutant: the ticket stays in the set.
RemainingAll(no) == set

Remaining(no) == set \ {no}

\* The POST with the ticket: removed from the set; the last one cancels the watch.
WithdrawTicket(c) ==
    /\ IF watcher = NoWatcher
          THEN UNCHANGED <<watcher, set, etcdWatch, next, troubled>>
          ELSE /\ set' = Remaining(ticket[c].no)
               /\ IF set' = {}
                     THEN /\ watcher' = NoWatcher
                          /\ etcdWatch' = [etcdWatch EXCEPT ![watcher] = "off"]
                          /\ next' = [next EXCEPT ![watcher] = 0]
                          /\ troubled' = troubled \cup {d \in Bound : ~Installed(d)}
                     ELSE UNCHANGED <<watcher, etcdWatch, next, troubled>>
    /\ leaked' = IF daemon = ticket[c] THEN leaked \cup {ticket[c]} ELSE leaked
    /\ robbed' = (robbed \cup {d \in Holders : ticket[d].no = ticket[c].no}) \ {c}

\* The API server dies: its watchers, the set and the counter of tickets are gone; its clients
\* notice nothing.
RestartServer ==
    /\ faults < MaxFaults
    /\ faults' = faults + 1 /\ life' = life + 1
    /\ sold' = 0 /\ daemon' = NoTicket /\ watcher' = NoWatcher /\ set' = {} /\ leaked' = {}
    /\ etcdWatch' = [w \in Watchers |-> "off"] /\ next' = [w \in Watchers |-> 0]
    /\ pipe' = [w \in Watchers |-> <<>>] /\ publisher' = TRUE
    /\ troubled' = troubled \cup Bound
    /\ UNCHANGED <<rev, clientVars, robbed, asked>>

-----------------------------------------------------------------------------
(* The clients: Watch, and WatchNonBlocking with its cancel function.      *)

Subscribe(c) ==
    /\ client[c] = "ticketed"
    /\ client' = [client EXCEPT ![c] = "subscribed"]
    /\ UNCHANGED <<rev, serverVars, etcdVars, publisher, ticket, queue, last, history, bounds>>

\* Subscribe returns an error, and the ticket has to be given back.
SubscribeFails(c) ==
    /\ client[c] = "ticketed"
    /\ client' = [client EXCEPT ![c] = "unsubscribed"]
    /\ UNCHANGED <<rev, serverVars, etcdVars, publisher, ticket, queue, last, history, bounds>>

\* The handler gets the next event of the subscription's queue.
Receive(c) ==
    /\ c \in Bound /\ queue[c] # <<>>
    /\ last' = [last EXCEPT ![c] = Head(queue[c])]
    /\ queue' = [queue EXCEPT ![c] = Tail(@)]
    /\ UNCHANGED <<rev, serverVars, etcdVars, publisher, client, ticket, history, bounds>>

\* The client's connection to the broker drops, and its queue, which is auto-delete, goes with it;
\* here recover has bound a new one.  What was in the old queue, or published since, is lost.
Rebind(c) ==
    /\ c \in Bound /\ faults < MaxFaults
    /\ queue' = [queue EXCEPT ![c] = <<>>]
    /\ troubled' = troubled \cup {c} /\ faults' = faults + 1
    /\ UNCHANGED <<rev, serverVars, etcdVars, publisher, client, ticket, last, leaked, robbed, asked>>

\* First in Watch, last in WatchNonBlocking's cancel function.
Unsubscribe(c) ==
    /\ c \in Bound
    /\ client' = [client EXCEPT ![c] = IF @ = "subscribed" THEN "unsubscribed" ELSE "idle"]
    /\ queue' = [queue EXCEPT ![c] = <<>>] /\ last' = [last EXCEPT ![c] = 0]
    /\ troubled' = troubled \ {c}
    /\ UNCHANGED <<rev, serverVars, etcdVars, publisher, ticket, leaked, robbed, bounds>>

GivenBack(c) ==
    /\ client[c] \in {"subscribed", "unsubscribed"}
    /\ client' = [client EXCEPT ![c] = IF @ = "subscribed" THEN "withdrawn" ELSE "idle"]
    /\ ticket' = [ticket EXCEPT ![c] = NoTicket]

Withdraw(c) ==
    /\ GivenBack(c)
    /\ WithdrawTicket(c)
    /\ UNCHANGED <<rev, life, sold, daemon, pipe, publisher, queue, last, bounds>>

\* The request fails; the error is only printed.
WithdrawFails(c) ==
    /\ GivenBack(c)
    /\ leaked' = leaked \cup {t \in {ticket[c]} : t.life = life}
    /\ robbed' = robbed \ {c}
    /\ UNCHANGED <<rev, serverVars, etcdVars, publisher, queue, last, troubled, bounds>>

-----------------------------------------------------------------------------
Pipeline(w) == EtcdWatchStarts(w) \/ EtcdYields(w) \/ Publish(w)

Next ==
    \/ ChangeKey
    \/ \E w \in Watchers : Pipeline(w)
    \/ CutPublisher \/ ReconnectPublisher
    \/ DaemonInstalls \/ RestartServer
    \/ \E c \in Clients :
          \/ PostWatch(c) \/ Subscribe(c) \/ SubscribeFails(c)
          \/ Receive(c) \/ Rebind(c) \/ Unsubscribe(c) \/ Withdraw(c) \/ WithdrawFails(c)

\* Goroutines run and the broker delivers.
Fairness ==
    /\ \A w \in Watchers : WF_vars(Pipeline(w))
    /\ \A c \in Clients : WF_vars(Receive(c))

Spec == Init /\ [][Next]_vars
FairSpec == Spec /\ Fairness

-----------------------------------------------------------------------------
\* Every variable has its type.
TypeOK ==
    /\ rev \in 0..MaxEvents /\ life \in 0..MaxFaults /\ sold \in 0..MaxTickets
    /\ daemon \in Tickets \cup {NoTicket}
    /\ watcher \in Watchers \cup {NoWatcher} /\ set \subseteq 1..MaxTickets
    /\ etcdWatch \in [Watchers -> {"off", "starting", "on"}]
    /\ next \in [Watchers -> 0..MaxEvents + 1]
    /\ \A w \in Watchers : \A i \in DOMAIN pipe[w] : pipe[w][i] \in 1..rev
    /\ publisher \in BOOLEAN
    /\ client \in [Clients -> {"idle", "ticketed", "subscribed", "unsubscribed", "withdrawn"}]
    /\ ticket \in [Clients -> Tickets \cup {NoTicket}]
    /\ last \in [Clients -> 0..MaxEvents]
    /\ \A c \in Clients : \A i \in DOMAIN queue[c] : queue[c][i] \in 1..rev
    /\ leaked \subseteq Tickets /\ robbed \subseteq Clients /\ troubled \subseteq Clients

\* The set of tickets is that of the holders, whatever the order of the daemon and the handlers.
\* The watch is kept while anybody holds a ticket (unless a restarted API server has sold the
\* same number again), and the set keeps no ticket without a holder, except those whose
\* withdrawal came before the daemon or was lost: the etcd watch then runs for ever.
TicketsMatchHolders ==
    /\ \A c \in Clients : Installed(c) =>
          /\ watcher # NoWatcher /\ etcdWatch[watcher] \in {"starting", "on"}
          /\ ticket[c].no \in set
    /\ \A no \in set : \/ \E c \in Holders : ticket[c] = [no |-> no, life |-> life]
                       \/ [no |-> no, life |-> life] \in leaked

\* A handler sees the events one after the other, none left out, none twice and none out of
\* order, unless events of a cancelled watcher, a failed publication, a restart of the API server
\* (after which an old ticket may cancel the watch of a new one) or a drop of the client's own
\* connection came between.
InOrder ==
    [][\A c \in Clients :
          client[c] = "subscribed" /\ last[c] # 0 /\ last'[c] \notin {0, last[c]} =>
             last'[c] = last[c] + 1 \/ c \in troubled \cup robbed]_vars

\* An event has not left etcd yet, and the client's ticket is in the set.
Owed(c) ==
    /\ client[c] = "subscribed" /\ Installed(c)
    /\ watcher # NoWatcher /\ etcdWatch[watcher] = "on" /\ next[watcher] <= rev

\* What changes once the etcd watch runs reaches every client that stays: only the events
\* before it are missed, although the client is answered before the watch is installed; the
\* exceptions are those of InOrder.
Delivered ==
    \A c \in Clients :
       Owed(c) ~> (last[c] = rev \/ client[c] # "subscribed" \/ c \in troubled \cup robbed)

=============================================================================
