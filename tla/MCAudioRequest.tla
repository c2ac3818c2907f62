----------------------------- MODULE MCAudioRequest ----------------------------
(* TLC instances of AudioRequest; the bounds are in the .cfg files. *)
EXTENDS AudioRequest
================================================================================
