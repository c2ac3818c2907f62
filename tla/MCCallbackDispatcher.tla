------------------------- MODULE MCCallbackDispatcher --------------------------
(* TLC instance of CallbackDispatcher. *)
EXTENDS CallbackDispatcher
================================================================================
