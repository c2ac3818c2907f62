----------------------------- MODULE MCClipRequest -----------------------------
(* TLC instances of ClipRequest; the bounds are in the .cfg files. *)
EXTENDS ClipRequest
================================================================================
