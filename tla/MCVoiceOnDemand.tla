--------------------------- MODULE MCVoiceOnDemand --------------------------
(* Nothing is promised once the tables and the processes disagree.  Every  *)
(* first mishap is reached and not gone on from.                           *)
EXTENDS VoiceOnDemand

NoMishap == mishap = {}
=============================================================================
