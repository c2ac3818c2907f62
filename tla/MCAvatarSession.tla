---------------------------- MODULE MCAvatarSession ----------------------------
(* TLC instances of AvatarSession; the bounds are in the .cfg files. *)
EXTENDS AvatarSession
================================================================================
