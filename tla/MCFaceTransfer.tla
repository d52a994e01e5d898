--------------------------- MODULE MCFaceTransfer ---------------------------
(* Values for model checking FaceTransfer: as in the source, a slow step of  *)
(* the timer is longer than FaceTimeout, and a host falls idle later.        *)
EXTENDS FaceTransfer
CONSTANTS h1, h2
OneHost == {h1}
TwoHosts == {h1, h2}
Slow == {3}
=============================================================================
