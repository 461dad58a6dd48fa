---------------------------- MODULE MCPodRuntime ----------------------------
(* Two incarnations of one pod: enough for an update (delete then add) whose *)
(* two workers race on the same container names.                            *)
EXTENDS PodRuntime

DockerFaults == {"create", "probe", "remove"}
AllFaults == FaultNames
NoFaults == {}
CreateFault == {"create"}
=============================================================================
