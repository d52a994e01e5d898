---------------------------- MODULE MCLwlThreads ----------------------------
(* Values for model checking LwlThreads: c1 never writes. *)
EXTENDS LwlThreads, TLC
CONSTANTS c1, c2, c3
MCClient == {c1, c2, c3}
MCSilent == {c1}
=============================================================================
