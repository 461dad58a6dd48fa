---------------------------- MODULE MCAutoscaler ----------------------------
EXTENDS Autoscaler

CONSTANTS a1, a2

MCSpecs == {[target |-> "rs", min |-> 1, max |-> 3], [target |-> "dm", min |-> 1, max |-> 2]}
=============================================================================
