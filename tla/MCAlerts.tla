------------------------------ MODULE MCAlerts -------------------------------
(* The alerts on a small instance, whose channels take P1 and P0. *)
EXTENDS Alerts

MCMinSeverity == [c \in Channel |-> P1]
==============================================================================
