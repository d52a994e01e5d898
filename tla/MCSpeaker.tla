----------------------------- MODULE MCSpeaker -----------------------------
(* Values for model checking Speaker. *)
EXTENDS Speaker, TLC
CONSTANTS a, b
=============================================================================
