------------------------------- MODULE Robust -------------------------------
(* Robust transmission: sfmike (src/mike.c) sends every packet of sound in   *)
(* several copies with a sequence number modulo 256, and sfspeaker           *)
(* (src/speaker.c) plays a packet unless it is a copy of the last one played *)
(* or up to 15 numbers behind it.                                            *)
(*                                                                           *)
(* sfmike has one counter for all its destinations and advances it for each: *)
(* one receiver sees numbers that are dests apart.  Packets are also counted *)
(* without end, to tell which is the newer.                                  *)
EXTENDS Integers, FiniteSets

CONSTANTS
  DestCounts, \* how many destinations sfmike may have
  Copies,     \* -ROBUSTn
  Starts,     \* the values of the counter when the connection begins
  MaxSent,    \* bound: packets sent
  MaxLag,     \* bound: how many later packets may overtake one
  MaxGap,     \* bound: how far the sender may be ahead of what arrived
  MayRestart  \* sfmike may be started anew

ASSUME RobustAssumption ==
  /\ DestCounts \subseteq Nat \ {0} /\ Copies \in 2..8 /\ Starts \subseteq 0..255
  /\ MaxSent \in Nat /\ MaxLag \in Nat /\ MaxGap \in Nat /\ MayRestart \in BOOLEAN

VARIABLES
  dests,     \* the number of destinations, fixed by the command line
  rseq,      \* the counter of sfmike
  count,     \* packets sent so far
  flight,    \* packets under way: number, sequence number, copies left
  con_rseq,  \* the sequence number played last, -1 for none
  played,    \* history: the number of the packet played last
  newest,    \* history: the number of the newest packet that arrived
  silent,    \* history: how many packets in a row came on the
             \* connection and were not played
  restarted  \* history: sfmike was started anew since a packet was played

robustVars == <<dests, rseq, count, flight, con_rseq, played, newest, silent, restarted>>

RobustInit ==
  /\ dests \in DestCounts
  /\ rseq \in Starts
  /\ count = 0
  /\ flight = {}
  /\ con_rseq = -1
  /\ played = 0 /\ newest = 0 /\ silent = 0
  /\ restarted = FALSE

(* sendpkt(): the copies for the receiver, and the counter after the packet  *)
(* went to every destination.  A packet that MaxLag later ones have          *)
(* overtaken is lost.                                                        *)
Advance(r) == (r + dests) % 256
Send ==
  /\ count < MaxSent /\ count < newest + MaxGap
  /\ count' = count + 1
  /\ flight' = {p \in flight : p.n > count - MaxLag}
                 \cup {[n |-> count + 1, seq |-> rseq, left |-> Copies]}
  /\ rseq' = Advance(rseq)
  /\ UNCHANGED <<dests, con_rseq, played, newest, silent, restarted>>

(* The distance of aseq from the last number played, in modular space.       *)
Distance(aseq) ==
  LET pdist == IF aseq >= con_rseq THEN aseq - con_rseq ELSE aseq + 256 - con_rseq
      mdist == IF aseq >= con_rseq THEN con_rseq + 256 - aseq ELSE con_rseq - aseq
  IN IF pdist <= mdist THEN pdist ELSE -mdist

RejectsLinear(aseq) == aseq <= con_rseq /\ aseq > con_rseq - 16     \* mutant
Rejects(aseq) == Distance(aseq) <= 0 /\ Distance(aseq) > -16

(* A copy of packet p arrives. *)
Arrive(p) ==
  /\ flight' = (flight \ {p}) \cup (IF p.left = 1 THEN {}
                                      ELSE {[p EXCEPT !.left = @ - 1]})
  /\ newest' = IF p.n > newest THEN p.n ELSE newest
  /\ IF Rejects(p.seq)
       THEN /\ silent' = IF p.n > newest THEN silent + 1 ELSE silent
            /\ UNCHANGED <<con_rseq, played, restarted>>
       ELSE /\ con_rseq' = p.seq
            /\ played' = p.n
            /\ silent' = 0
            /\ restarted' = FALSE
  /\ UNCHANGED <<dests, rseq, count>>

(* The connection falls idle, with nothing under way. *)
GoIdle ==
  /\ flight = {} /\ con_rseq # -1
  /\ con_rseq' = -1 /\ silent' = 0
  /\ UNCHANGED <<dests, rseq, count, flight, played, newest, restarted>>

(* sfmike is started anew, with nothing under way. *)
Restart ==
  /\ MayRestart
  /\ flight = {} /\ count > 0 /\ ~restarted
  /\ rseq' = 0
  /\ restarted' = TRUE
  /\ UNCHANGED <<dests, count, flight, con_rseq, played, newest, silent>>

RobustNext ==
  \/ Send
  \/ \E p \in flight : Arrive(p)
  \/ GoIdle
  \/ Restart

RobustSpec == RobustInit /\ [][RobustNext]_robustVars

-----------------------------------------------------------------------------
(* Types, and what is under way is recent. *)
NumbersOK ==
  /\ dests \in DestCounts
  /\ rseq \in 0..255 /\ con_rseq \in -1..255
  /\ count \in 0..MaxSent /\ played \in 0..newest /\ newest \in 0..count
  /\ flight \subseteq [n : count - MaxLag..count, seq : 0..255, left : 1..Copies]
  /\ Cardinality(flight) <= MaxLag + 1
  /\ silent \in Nat /\ restarted \in BOOLEAN

(* "If multipath has caused packets to arrive out of order, we want do        *)
(* discard any packets prior one we've played" (speaker.c:2958-2961): what   *)
(* is played is newer than everything played before, and played once; and a  *)
(* packet newer than all that arrived is played at once, across the wrap of  *)
(* the numbers, while the two ends keep their connection.                    *)
PlayedInOrder ==
  [][/\ played' # played => played' > played
     /\ newest' # newest /\ con_rseq # -1 /\ ~restarted => played' = newest']_robustVars

(* However the counter and the last number played happen to stand, at most   *)
(* 16 packets in a row are not played (speaker.c:2979).                      *)
ShortSilence == NumbersOK /\ silent <= 16

(* Packets are played in order and once, newer ones at once, and no silence  *)
(* is longer than 16 packets.                                                *)
PlayedSoon == PlayedInOrder /\ []ShortSilence

(* When the numbers can tell the newer packet: one that was overtaken is not *)
(* more than 15 numbers behind (speaker.c:2978), and after a loss the next   *)
(* one not more than 240 ahead.                                              *)
InWindow ==
  \A d \in DestCounts : d * MaxLag <= 15 /\ d * (MaxLag + MaxGap) <= 240

(* "prior one we've played" (speaker.c:2960): while nothing was played on a  *)
(* connection nothing is discarded.  Does not hold: see the README.          *)
FirstPlayed == [][con_rseq = -1 /\ newest' # newest => played' = newest']_robustVars
=============================================================================
