--------------------------- MODULE MCDaemonServe ---------------------------
(***************************************************************************)
(* Instances of DaemonServe: one flavour with the alerts, one with the     *)
(* scheduler, each beside the approval loop.                               *)
(***************************************************************************)
EXTENDS DaemonServe

MCFlavours == {{"alerts", "hitl"}, {"schedule", "hitl"}}
===========================================================================
