---------------------------- MODULE MCPodDispatch ----------------------------
EXTENDS PodDispatch
=============================================================================
