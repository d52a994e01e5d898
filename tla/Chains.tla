------------------------------- MODULE Chains -------------------------------
(***************************************************************************)
(* What the sweeps of the servers and of sfspeaker do to their chains of   *)
(* connections: a pointer runs along the chain, and what is not kept is    *)
(* unlinked.  The loop is the same in src/reflect.c, src/speaker.c and     *)
(* src/lwld.c (release()).                                                 *)
(***************************************************************************)
EXTENDS Integers, Sequences

(* The chain after a sweep that keeps the members of T, in their order.    *)
Kept(chain, T) ==
    LET kept[i \in 0..Len(chain)] ==
          IF i = 0 THEN << >>
          ELSE IF chain[i] \in T THEN Append(kept[i - 1], chain[i])
          ELSE kept[i - 1]
    IN  kept[Len(chain)]
=============================================================================
