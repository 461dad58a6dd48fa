----------------------------- MODULE MCKubeProxy -----------------------------
EXTENDS KubeProxy, TLC

CONSTANTS s1, s2, p1, p2, http, admin, alias

U(p, i) == [pod |-> p, ip |-> <<p, i>>]
Both == <<http, admin>>
MCTargetPort == [port \in Ports |-> IF port = admin THEN 81 ELSE 80]
MCSpecs ==
    {[ports |-> <<http>>, units |-> u] :
        u \in {<<>>, <<U(p1, 1)>>, <<U(p2, 1), U(p1, 1)>>, <<U(p1, 2), U(p2, 1)>>}}
    \cup {[ports |-> Both, units |-> <<U(p2, 1)>>], [ports |-> Both, units |-> <<U(p1, 1), U(p2, 1)>>],
          [ports |-> <<http, alias>>, units |-> <<U(p2, 1)>>]}
ServiceSymmetry == Permutations(Services)
=============================================================================
