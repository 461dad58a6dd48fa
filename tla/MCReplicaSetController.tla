----------------------- MODULE MCReplicaSetController -----------------------
EXTENDS ReplicaSetController
=============================================================================
