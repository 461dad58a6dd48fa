--------------------------- MODULE ServiceRouting ---------------------------
(***************************************************************************)
(* What kube-proxy promises of one node's nat table: every Service is      *)
(* unpublished or has, for each of its ports, the addresses its traffic is *)
(* spread over, evenly.  One Service at a time is changed, in steps; what  *)
(* its traffic meets meanwhile is limited too.  A Service in `void` has no *)
(* promise any more.                                                       *)
(***************************************************************************)
EXTENDS Naturals, Sequences

CONSTANTS
    Services,
    Ports,
    Addresses   \* where traffic may be sent to: a pod's IP and port

VARIABLES
    routes,    \* [Services -> Unpublished, or the entries of every port]; an entry takes every
               \* n-th packet that reaches it to its address
    changing,  \* the Service being changed, if there is one, and the table it is to get
    void       \* Services the promise is off for

Unpublished == <<>>

\* An even spread of the traffic: of n addresses the first takes every n-th packet, the next
\* every (n-1)-th of the rest, and so on; none of them comes twice.
IsSpread(a) ==
    /\ \A i \in DOMAIN a : a[i].every = Len(a) + 1 - i /\ a[i].address \in Addresses
    /\ \A i, j \in DOMAIN a : i # j => a[i].address # a[j].address
IsTable(t) == DOMAIN t # {} /\ DOMAIN t \subseteq Ports /\ \A port \in DOMAIN t : IsSpread(t[port])

Reached(a) == {a[i].address : i \in DOMAIN a}

Init ==
    /\ routes = [s \in Services |-> Unpublished]
    /\ changing = Unpublished /\ void = {}

\* A change begins: an unpublished Service gets a table in which every port has an address; a
\* published one keeps its ports, or is withdrawn.
Begin(s) ==
    /\ DOMAIN changing = {} /\ DOMAIN changing' = {s} /\ s \notin void
    /\ IF routes[s] = Unpublished
          THEN IsTable(changing'[s]) /\ \A port \in DOMAIN changing'[s] : changing'[s][port] # <<>>
          ELSE \/ changing'[s] = Unpublished
               \/ IsTable(changing'[s]) /\ DOMAIN changing'[s] = DOMAIN routes[s]
    /\ UNCHANGED <<routes, void>>

\* One step of a change from the table r to the table t towards `goal`.
Towards(r, t, goal) ==
    /\ DOMAIN r \cap DOMAIN goal \subseteq DOMAIN t /\ DOMAIN t \subseteq DOMAIN r \cup DOMAIN goal
    /\ \A port \in DOMAIN t :
          CASE port \notin DOMAIN r -> t[port] = goal[port]
            [] port \notin DOMAIN goal -> t[port] = r[port]
            [] OTHER -> Reached(t[port]) \subseteq Reached(r[port]) \cup Reached(goal[port])

\* A step of the change, which may be its last.
Step(s) ==
    /\ DOMAIN changing = {s}
    /\ Towards(routes[s], routes'[s], changing[s])
    /\ routes' = [routes EXCEPT ![s] = routes'[s]]
    /\ \/ changing' = changing
       \/ DOMAIN changing' = {} /\ routes'[s] = changing[s]
    /\ UNCHANGED void

\* The promise is given up for some Services, the one being changed among them; the others keep
\* their routes.
Forsake ==
    /\ void \subseteq void' /\ void' # void
    /\ DOMAIN changing \subseteq void' /\ DOMAIN changing' = {}
    /\ \A s \in Services \ void' : routes'[s] = routes[s]

Next == (\E s \in Services : Begin(s) \/ Step(s)) \/ Forsake

Spec == Init /\ [][Next]_<<routes, changing, void>>
=============================================================================
