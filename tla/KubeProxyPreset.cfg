CONSTANTS
    s1 = s1
    s2 = s2
    p1 = p1
    p2 = p2
    http = http
    admin = admin
    alias = alias
    Services = {s1, s2}
    Pods = {p1, p2}
    Ports = {http, admin, alias}
    TargetPort <- MCTargetPort
    Specs <- MCSpecs
    MaxChanges = 3
    MaxQueue = 2
    MaxCrashes = 1
SYMMETRY ServiceSymmetry
SPECIFICATION Spec
INVARIANT ExistingServicesPulled
CHECK_DEADLOCK FALSE
