---------------------------- MODULE MCLwlServers ----------------------------
(* Values for model checking LwlServers.  The order of the source's times,  *)
(* ForwarderSleep < TockTock <= LWL_RETRANSMIT < TimeoutTime, is kept.       *)
EXTENDS LwlServers, TLC
CONSTANTS u1, A, B
MCUser == {u1}
MCServer == {A, B}
MCSsrc == {1, 2}
MCDraws == [u \in User |-> {1, 2}]
MCTells == [u \in User |-> <<A>>]
MCForwards == (A :> {B}) @@ (B :> {A})
=============================================================================
