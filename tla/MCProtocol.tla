----------------------------- MODULE MCProtocol -----------------------------
(* Values for model checking Protocol and RtpPackets. *)
EXTENDS Protocol

CONSTANTS h1, h2

ManyWays ==
  [h \in Host |-> IF h = h1 THEN {w \in Way : w.enc \/ w.form # "rtp"} \ {[form |-> "sf", enc |-> TRUE]}
                 ELSE {[form |-> "rtp", enc |-> TRUE]}]
FewStarts == [h \in Host |-> IF h = h1 THEN 2 ELSE 1]

(* All lengths modulo 8 of every combination of what may be given.           *)
Ids == {<<>>} \cup [1..2 -> 0..4] \cup {<<12, 0, 3, 7>>, <<0, 0, 0, 9>>, <<200, 255, 1, 1>>}
ManyEnvs == [cname : 1..8 \cup {255}, gecos : {Absent, 5, 14}, id : Ids]
ManyTexts == 0..131

(* Frames of GSM (33 bytes for 160 samples) and LPC (14), and the samples of *)
(* the other encodings.                                                      *)
ManySounds ==
  {[codec |-> "gsm", len |-> 2 + 33 * n, samples |-> 160 * n] : n \in 1..20}
    \cup {[codec |-> "lpc", len |-> 2 + 14 * n, samples |-> 160 * n] : n \in 1..20}
    \cup [codec : {"adpcm"}, len : {3 + n : n \in 1..500}, samples : {Absent}]
    \cup [codec : {"pcmu"}, len : 1..500, samples : {Absent}]
=============================================================================
