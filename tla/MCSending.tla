----------------------------- MODULE MCSending ------------------------------
(* Values for model checking SendPkt and Robust: the length and the sequence *)
(* number that sendpkt() hands on.  They have nothing in common, so that     *)
(* part says which of the two is looked at, and the other stands still.      *)
EXTENDS SendPkt, Robust

VARIABLE part

(* What the proofs assume of the numbers is so of those that are checked.    *)
ASSUME NumbersAssumption == InWindow /\ 0 \in Starts

(* From these the numbers wrap soon, pass half of their range, or are low.   *)
SomeStarts == {0, 118, 200, 230} \cup 238..255

Of(codec, lens) == [codec : {codec}, len : lens, face : BOOLEAN]
Lpc10 == Of("lpc10", {7 * k : k \in 1..12})       \* 7 bytes for 180 samples
Celp == Of("celp", {18 * k + 2 : k \in 1..8})     \* 18 bytes for 240 samples
Other == Of("other", {3, 163, 164, 328, 640, 800})
Rtp == Of("rtp", {144, 172, 175, 492})

KeySets == SUBSET {"des", "aes", "otp"}
ListsOf(K) == UNION {[1..n -> K] : n \in 1..3}
Clear == ListsOf({{}})

Cast(sounds, lists) == [sound : sounds, list : lists]

(* One destination, whatever its keys. *)
OneHost == Cast(Lpc10 \cup Celp \cup Other, {<<k>> : k \in KeySets})
             \cup Cast(Rtp, {<<{}>>, <<{"des"}>>})
(* Several, without keys. *)
Keyless == Cast(Lpc10 \cup Other \cup Rtp, Clear)
(* Several, of which those that pad come last. *)
Mixed == Cast(Other, {l \in ListsOf(KeySets) : PaddedLast(l)})

Sound == OneHost \cup Keyless \cup Mixed
(* Not in a run: EveryoneHears fails of these Cases (see the README). *)
CelpClear == Cast(Celp, Clear)

(* What the proofs assume of Cases is so of those that are checked. *)
ASSUME SoundAssumption == Harmless(Sound)

SendingInit ==
  /\ RobustInit
  /\ \/ /\ part = "length" /\ PacketInit
        /\ dests = CHOOSE n \in DestCounts : TRUE
        /\ rseq = 0
     \/ /\ part = "numbers"
        /\ sound = [codec |-> "other", len |-> 1, face |-> FALSE]
        /\ todo = <<>> /\ pktlen = Whole /\ sent = <<>>

SendingNext ==
  \/ part = "length" /\ SendTo /\ UNCHANGED <<part, robustVars>>
  \/ part = "length" /\ SendFails /\ UNCHANGED <<part, robustVars>>
  \/ part = "numbers" /\ Send /\ UNCHANGED <<part, packetVars>>
  \/ /\ part = "numbers" /\ \E p \in flight : Arrive(p)
     /\ UNCHANGED <<part, packetVars>>
  \/ part = "numbers" /\ GoIdle /\ UNCHANGED <<part, packetVars>>
  \/ part = "numbers" /\ Restart /\ UNCHANGED <<part, packetVars>>

SendingSpec == SendingInit /\ [][SendingNext]_<<part, packetVars, robustVars>>
=============================================================================
