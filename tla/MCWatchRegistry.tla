--------------------------- MODULE MCWatchRegistry ---------------------------
(* Two clients and three tickets: one client gives its ticket back, or comes *)
(* back, while the other holds its own.                                      *)
EXTENDS WatchRegistry
=============================================================================
