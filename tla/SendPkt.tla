------------------------------ MODULE SendPkt -------------------------------
(* One packet of sound for all destinations: sendpkt() of src/mike.c computes*)
(* the length of the packet once, lets each destination in turn encrypt, pad *)
(* and stuff it, and hands the length on to the next.  The receiver          *)
(* (src/speaker.c) knows buffer_len from the header, refuses a packet of     *)
(* another length and puts the stuffed bytes back.                           *)
(*                                                                           *)
(* Positions count from the start of the sound in the packet.  Keys: "des"   *)
(* stands for the algorithms that pad to 8 bytes (DES, IDEA, Blowfish, PGP). *)
EXTENDS Integers, Sequences, SequencesExt

CONSTANTS
  Header,  \* sizeof(struct soundbuf) - BUFL
  Cases    \* what may be sent (codec, length once compressed, face offered),
           \* and to which list of destinations, each the set of its keys

ASSUME SendPktAssumption ==
  /\ Header \in Nat \ {0}
  /\ \A c \in Cases :
       /\ c.sound \in [codec : {"lpc10", "celp", "other", "rtp"}, len : Nat, face : BOOLEAN]
       /\ c.list \in Seq(SUBSET IF c.sound.codec = "rtp" THEN {"des"}
                                                       ELSE {"des", "aes", "otp"})

VARIABLES
  sound,   \* the sound buffer
  todo,    \* the destinations still to be served
  pktlen,  \* the length of the packet, as the destinations left it
  sent     \* the packets on the wire, in order

packetVars == <<sound, todo, pktlen, sent>>

-----------------------------------------------------------------------------
Up(n, k) == k * ((n + k - 1) \div k)

Stuffed == 16                                 \* sizeof sb->sendinghost
Stuffing == sound.codec \in {"lpc10", "celp"}

(* What an RTP packet holds is its own header and payload, len bytes in all. *)
Whole == IF sound.codec = "rtp" THEN sound.len ELSE Header + sound.len

(* How long keys make n bytes of sound: setkey .. AES_cbc_encrypt pad slen.  *)
Padded(keys, n) == CASE "aes" \in keys -> Up(n, 16)
                     [] "aes" \notin keys /\ "des" \in keys -> Up(n, 8)
                     [] OTHER -> n

(* pktlen after encryption: a key file alone leaves it as it is.             *)
Encrypted(keys, pl) ==
  IF sound.codec = "rtp" THEN Padded(keys, pl)
  ELSE IF keys \cap {"des", "aes"} # {} THEN Header + Padded(keys, sound.len)
  ELSE pl

(* lpc10stuff(), celpstuff(): do the last 16 bytes of the packet go into the *)
(* sending host field?                                                       *)
Stuffs == Stuffing /\ sound.len > Stuffed

(* The length a destination leaves behind: a clear one puts the bytes LPC-10 *)
(* took back.                                                                *)
LeavesStuffed(keys, pl) ==                     \* mutant: as before March 1996
  pl - IF Stuffs THEN Stuffed ELSE 0
Leaves(keys, pl) ==
  IF keys = {} /\ sound.codec = "lpc10" THEN pl
  ELSE pl - IF Stuffs THEN Stuffed ELSE 0

PacketInit ==
  /\ \E c \in Cases : sound = c.sound /\ todo = c.list
  /\ pktlen = Whole
  /\ sent = <<>>

(* One destination.  An encrypted packet is a copy of pktlen bytes; an RTP   *)
(* one says in its last byte how many bytes pad it.                          *)
SendTo ==
  /\ todo # <<>>
  /\ LET keys == Head(todo)
         pl == IF keys = {} THEN pktlen ELSE Encrypted(keys, pktlen)
     IN /\ sent' = Append(sent,
             [keys |-> keys,
              len |-> pl - IF Stuffs THEN Stuffed ELSE 0,
              from |-> IF Stuffs THEN pl - Stuffed - Header ELSE -1,
              whole |-> keys = {} \/ pktlen >= Whole,
              pad |-> IF sound.codec = "rtp" THEN pl - pktlen ELSE 0])
        /\ pktlen' = Leaves(keys, pl)
  /\ todo' = Tail(todo)
  /\ UNCHANGED sound

(* sendto() fails: the rest of the destinations are not served.              *)
SendFails ==
  /\ todo # <<>>
  /\ todo' = <<>>
  /\ UNCHANGED <<sound, pktlen, sent>>

PacketNext == SendTo \/ SendFails
PacketSpec == PacketInit /\ [][PacketNext]_packetVars

-----------------------------------------------------------------------------
(* The receiver, which has the keys.                                         *)

Unstuffs == Stuffing /\ sound.len >= Stuffed

Expected(keys) ==
  Header + Padded(keys, sound.len) - IF Unstuffs THEN Stuffed ELSE 0

(* A packet that offers a face is not tested.                                *)
Accepts(p) == sound.codec = "rtp" \/ sound.face \/ p.len = Expected(p.keys)

(* The stuffed bytes go to the end of what arrived: that is right if they    *)
(* were taken from there.                                                    *)
Rebuilds(p) ==
  IF sound.codec = "rtp" THEN p.len - p.pad = sound.len
  ELSE IF Unstuffs THEN p.from = p.len - Header /\ p.from + Stuffed >= sound.len
  ELSE p.from = -1 /\ p.len - Header >= sound.len

HeardWhole(p) == Accepts(p) /\ p.whole /\ Rebuilds(p)

-----------------------------------------------------------------------------
(* The cases in which sendpkt() is right: one destination; no keys, but with *)
(* CELP; destinations that pad behind the others, if nothing is stuffed.  No *)
(* codec makes the 16 bytes of which Stuffs and Unstuffs think differently.  *)
Pads(keys) == keys \cap {"des", "aes"} # {}
AllClear(l) == \A i \in DOMAIN l : l[i] = {}
PaddedLast(l) == \A i, j \in DOMAIN l : i < j /\ Pads(l[i]) => Pads(l[j])

DoesNoHarm(s, l) ==
  /\ s.codec \in {"lpc10", "celp"} => s.len # Stuffed
  /\ \/ Len(l) <= 1
     \/ s.codec # "celp" /\ AllClear(l)
     \/ s.codec = "other" /\ PaddedLast(l)

Harmless(C) == \A c \in C : DoesNoHarm(c.sound, c.list)

(* Every packet sendpkt() puts on the wire gives its receiver the whole      *)
(* sound back, wherever the destination stands in the list: it has the       *)
(* length the receiver computes, and stuffed bytes return to their place.    *)
EveryoneHears == \A i \in DOMAIN sent : HeardWhole(sent[i])

(* Destinations with the same keys are sent the same packet, whatever stands *)
(* before them in the list.                                                  *)
SameToAll ==
  \A i, j \in DOMAIN sent : sent[i].keys = sent[j].keys => sent[i] = sent[j]
=============================================================================
