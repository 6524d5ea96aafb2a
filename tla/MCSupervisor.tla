---------------------------- MODULE MCSupervisor ----------------------------
(* Three components and two hooks: enough for a component in the middle of   *)
(* the order to exit early, hang or fail while its neighbours do otherwise.  *)
EXTENDS Supervisor
=============================================================================
