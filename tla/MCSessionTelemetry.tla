--------------------------- MODULE MCSessionTelemetry --------------------------
(* TLC instances of SessionTelemetry; the bounds are in the .cfg files. *)
EXTENDS SessionTelemetry
================================================================================
