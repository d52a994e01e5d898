------------------------------- MODULE MCEcho -------------------------------
(* Values for model checking Echo.  One unit of time is a coarse Latency:  *)
(* the order 0 < Latency < Epsilon <= EchoTime <= TickTock <= HostTimeout   *)
(* and TickTock < TockTock of the source's values is kept.                 *)
EXTENDS Echo, TLC
CONSTANTS h1, h2
MCHost == {h1, h2}
Symmetry == Permutations(MCHost)
=============================================================================
