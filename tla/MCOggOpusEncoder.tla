---------------------------- MODULE MCOggOpusEncoder ---------------------------
(* TLC instances of OggOpusEncoder; the sizes are in the .cfg files. *)
EXTENDS OggOpusEncoder
================================================================================
