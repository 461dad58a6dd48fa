------------------------- MODULE MCServiceController -------------------------
(* Two pods for one place in the Service, each of which may start twice.  ServiceController.cfg: *)
(* two generations of the Service, a deletion and a failing request.  ServiceEndpoints.cfg: one  *)
(* generation.                                                                                   *)
EXTENDS ServiceController
=============================================================================
