-------------------------- MODULE MCTelemetryProvider --------------------------
(* TLC instances of TelemetryProvider; the bounds are in the .cfg files. *)
EXTENDS TelemetryProvider, TLC

CONSTANTS u1, u2, a1, app1, e1, e2

MCUsers     == {u1, u2}
MCAdmins    == {a1}
MCApps      == {app1}
MCEndpoints == {e1, e2}

Symmetry == Permutations(MCUsers)
================================================================================
