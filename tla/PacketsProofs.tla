---------------------------- MODULE PacketsProofs -----------------------------
(***************************************************************************)
(* Proofs about packets between sfmike and sfspeaker: about SendPkt for    *)
(* packets and headers of any length and lists of any number of            *)
(* destinations, of the kinds for which sendpkt() is right; about Protocol *)
(* for any number of hosts, starts and readings of rubbish; about          *)
(* RtpPackets for all texts and sounds; and about Robust for any counts of *)
(* destinations and bounds that keep the numbers within reach of each      *)
(* other.                                                                  *)
(***************************************************************************)
EXTENDS SendPkt, Protocol, Robust, FiniteSetTheorems, TLAPS

-----------------------------------------------------------------------------
(* Lengths: SendPkt. *)

(* What a destination gets that is the first, or the only one. *)
Alone(keys) ==
    LET pl == IF keys = {} THEN Whole ELSE Encrypted(keys, Whole)
    IN  [keys |-> keys,
         len |-> pl - IF Stuffs THEN Stuffed ELSE 0,
         from |-> IF Stuffs THEN pl - Stuffed - Header ELSE -1,
         whole |-> TRUE,
         pad |-> IF sound.codec = "rtp" THEN pl - Whole ELSE 0]

Keys == IF sound.codec = "rtp" THEN {"des"} ELSE {"des", "aes", "otp"}

Types ==
    /\ sound \in [codec : {"lpc10", "celp", "other", "rtp"}, len : Nat, face : BOOLEAN]
    /\ todo \in Seq(SUBSET Keys)
    /\ pktlen \in Int
    /\ sent \in Seq([keys : SUBSET Keys, len : Int, from : Int, whole : BOOLEAN, pad : Int])

(* Whoever comes next gets what it would get alone, and so did the others.   *)
AloneInv ==
    /\ Types
    /\ DoesNoHarm(sound, todo)
    /\ todo # << >> =>
         \/ pktlen = Whole
         \/ sound.codec = "other" /\ pktlen >= Whole /\ \A i \in DOMAIN todo : Pads(todo[i])
    /\ \A i \in DOMAIN sent : sent[i] = Alone(sent[i].keys)

-----------------------------------------------------------------------------
LEMMA UpIsMore ==
  ASSUME NEW n \in Nat
  PROVE  Up(n, 8) \in Nat /\ Up(n, 16) \in Nat /\ Up(n, 8) >= n /\ Up(n, 16) >= n
BY DEF Up

LEMMA PaddedIsMore ==
  ASSUME NEW keys, NEW n \in Nat
  PROVE  /\ Padded(keys, n) \in Nat /\ Padded(keys, n) >= n
         /\ ~Pads(keys) => Padded(keys, n) = n
<1>1. CASE "aes" \in keys
  BY <1>1, UpIsMore DEF Padded, Pads
<1>2. CASE "aes" \notin keys /\ "des" \in keys
  BY <1>2, UpIsMore DEF Padded, Pads
<1>3. CASE "aes" \notin keys /\ "des" \notin keys
  BY <1>3 DEF Padded, Pads
<1>4. QED
  BY <1>1, <1>2, <1>3

LEMMA WholeIs ==
  ASSUME Types
  PROVE  Whole \in Nat /\ (sound.codec # "rtp" => Whole = Header + sound.len)
BY SendPktAssumption DEF SendPktAssumption, Types, Whole

(* The length a destination encrypts to: by its keys, unless it has none.  *)
LEMMA EncryptedIs ==
  ASSUME Types, NEW keys \in SUBSET Keys
  PROVE  /\ Encrypted(keys, Whole) \in Nat
         /\ sound.codec # "rtp" => Encrypted(keys, Whole) = Header + Padded(keys, sound.len)
         /\ sound.codec = "rtp" => Encrypted(keys, Whole) = Padded(keys, sound.len)
         /\ Encrypted(keys, Whole) >= Whole
<1>1. Header \in Nat /\ sound.len \in Nat /\ Whole \in Nat
  BY SendPktAssumption, WholeIs DEF SendPktAssumption, Types
<1>2. Padded(keys, sound.len) \in Nat /\ Padded(keys, sound.len) >= sound.len
  BY <1>1, PaddedIsMore
<1>3. CASE sound.codec = "rtp"
  BY <1>1, <1>2, <1>3 DEF Encrypted, Whole
<1>4. CASE sound.codec # "rtp" /\ Pads(keys)
  BY <1>1, <1>2, <1>4 DEF Encrypted, Whole, Pads
<1>5. CASE sound.codec # "rtp" /\ ~Pads(keys)
  <2>1. Padded(keys, sound.len) = sound.len
    BY <1>1, <1>5, PaddedIsMore
  <2>2. QED
    BY <1>1, <1>5, <2>1 DEF Encrypted, Whole, Pads
<1>6. QED
  BY <1>3, <1>4, <1>5

(* A destination that is alone hears: sender and receiver agree on length, *)
(* stuffing and padding of every codec.                                    *)
LEMMA AloneHears ==
  ASSUME Types, Stuffing => sound.len # Stuffed, NEW keys \in SUBSET Keys
  PROVE  HeardWhole(Alone(keys))
<1> DEFINE p == Alone(keys)
           pl == IF keys = {} THEN Whole ELSE Encrypted(keys, Whole)
<1>1. Header \in Nat /\ sound.len \in Nat
  BY SendPktAssumption DEF SendPktAssumption, Types
<1>2. /\ p.keys = keys /\ p.whole = TRUE
      /\ p.len = pl - IF Stuffs THEN Stuffed ELSE 0
      /\ p.from = IF Stuffs THEN pl - Stuffed - Header ELSE -1
      /\ p.pad = IF sound.codec = "rtp" THEN pl - Whole ELSE 0
  BY DEF Alone
<1>3. Unstuffs <=> Stuffs
  BY <1>1 DEF Unstuffs, Stuffs, Stuffed
<1>4. Padded(keys, sound.len) \in Nat /\ Padded(keys, sound.len) >= sound.len
  BY <1>1, PaddedIsMore
<1>5. keys = {} => Padded(keys, sound.len) = sound.len
  BY <1>1, PaddedIsMore DEF Pads
<1>6. pl = IF sound.codec = "rtp" THEN Padded(keys, sound.len)
                                  ELSE Header + Padded(keys, sound.len)
  BY <1>5, EncryptedIs DEF Whole
<1> HIDE DEF p, pl
<1>7. CASE sound.codec = "rtp"
  <2>1. ~Stuffs /\ Whole = sound.len
    BY <1>7 DEF Stuffs, Stuffing, Whole
  <2>2. QED
    BY <1>1, <1>2, <1>4, <1>6, <1>7, <2>1 DEF HeardWhole, Accepts, Rebuilds, p
<1>8. CASE sound.codec # "rtp" /\ Stuffs
  BY <1>1, <1>2, <1>3, <1>4, <1>6, <1>8 DEF HeardWhole, Accepts, Rebuilds, Expected, Stuffed, p
<1>9. CASE sound.codec # "rtp" /\ ~Stuffs
  BY <1>1, <1>2, <1>3, <1>4, <1>6, <1>9 DEF HeardWhole, Accepts, Rebuilds, Expected, Stuffed, p
<1>10. QED
  BY <1>7, <1>8, <1>9

-----------------------------------------------------------------------------
LEMMA TailOf ==
  ASSUME NEW S, NEW l \in Seq(S), l # << >>
  PROVE  /\ Head(l) \in S /\ Tail(l) \in Seq(S) /\ Head(l) = l[1] /\ 1 \in DOMAIN l
         /\ Len(Tail(l)) = Len(l) - 1
         /\ \A i \in DOMAIN Tail(l) : i + 1 \in DOMAIN l /\ Tail(l)[i] = l[i + 1]
OBVIOUS

LEMMA ElementOf == ASSUME NEW S, NEW l \in Seq(S), NEW i \in DOMAIN l PROVE l[i] \in S
OBVIOUS

LEMMA TailHarmless ==
  ASSUME NEW s, NEW S, NEW l \in Seq(S), l # << >>, DoesNoHarm(s, l)
  PROVE  DoesNoHarm(s, Tail(l))
<1>1. /\ Len(Tail(l)) = Len(l) - 1 /\ Len(l) \in Nat
      /\ DOMAIN l = 1..Len(l) /\ DOMAIN Tail(l) = 1..Len(Tail(l))
      /\ \A i \in DOMAIN Tail(l) : i + 1 \in DOMAIN l /\ Tail(l)[i] = l[i + 1]
  BY TailOf
<1>2. AllClear(l) => AllClear(Tail(l))
  BY <1>1 DEF AllClear
<1>3. PaddedLast(l) => PaddedLast(Tail(l))
  <2>1. SUFFICES ASSUME PaddedLast(l), NEW i \in DOMAIN Tail(l), NEW j \in DOMAIN Tail(l),
                        i < j, Pads(Tail(l)[i])
                 PROVE  Pads(Tail(l)[j])
    BY DEF PaddedLast
  <2>2. i + 1 < j + 1 /\ i + 1 \in DOMAIN l /\ j + 1 \in DOMAIN l /\ Pads(l[i + 1])
    BY <1>1, <2>1
  <2>3. Pads(l[j + 1])
    BY <2>1, <2>2 DEF PaddedLast
  <2>4. QED
    BY <1>1, <2>3
<1>4. Len(l) <= 1 => Len(Tail(l)) <= 1
  BY <1>1
<1>5. QED
  BY <1>2, <1>3, <1>4 DEF DoesNoHarm

LEMMA AloneInit == Harmless(Cases) /\ PacketInit => AloneInv
<1> SUFFICES ASSUME Harmless(Cases), PacketInit PROVE AloneInv
  OBVIOUS
<1>1. PICK c \in Cases : sound = c.sound /\ todo = c.list
  BY DEF PacketInit
<1>2. /\ sound \in [codec : {"lpc10", "celp", "other", "rtp"}, len : Nat, face : BOOLEAN]
      /\ todo \in Seq(SUBSET Keys) /\ Header \in Nat \ {0}
  BY <1>1, SendPktAssumption DEF SendPktAssumption, Keys
<1>3. pktlen = Whole /\ Whole \in Int /\ sent = << >>
  BY <1>2 DEF PacketInit, Whole
<1>4. DoesNoHarm(sound, todo)
  BY <1>1 DEF Harmless
<1>5. QED
  BY <1>2, <1>3, <1>4 DEF AloneInv, Types

(* A packet of its own for every set of keys. *)
LEMMA AloneTyped ==
  ASSUME Types, NEW keys \in SUBSET Keys
  PROVE  Alone(keys) \in [keys : SUBSET Keys, len : Int, from : Int, whole : BOOLEAN,
                          pad : Int]
<1>1. /\ Header \in Nat /\ Whole \in Nat /\ Encrypted(keys, Whole) \in Nat
      /\ Stuffed \in Nat /\ -1 \in Int /\ 0 \in Int
  BY SendPktAssumption, WholeIs, EncryptedIs DEF SendPktAssumption, Stuffed
<1>2. QED
  BY <1>1 DEF Alone

LEMMA AloneSame ==
  ASSUME UNCHANGED sound, \A i \in DOMAIN sent' : sent'[i] = Alone(sent'[i].keys)
  PROVE  (\A i \in DOMAIN sent : sent[i] = Alone(sent[i].keys))'
BY DEF Alone, Whole, Encrypted, Stuffs, Stuffing, Padded

LEMMA SendToStep ==
  ASSUME AloneInv, SendTo
  PROVE  AloneInv'
<1> DEFINE keys == Head(todo)
           pl == IF keys = {} THEN pktlen ELSE Encrypted(keys, pktlen)
           p == [keys |-> keys,
                 len |-> pl - IF Stuffs THEN Stuffed ELSE 0,
                 from |-> IF Stuffs THEN pl - Stuffed - Header ELSE -1,
                 whole |-> keys = {} \/ pktlen >= Whole,
                 pad |-> IF sound.codec = "rtp" THEN pl - pktlen ELSE 0]
<1>1. /\ todo # << >> /\ sent' = Append(sent, p) /\ pktlen' = Leaves(keys, pl)
      /\ todo' = Tail(todo) /\ UNCHANGED sound
  BY DEF SendTo
<1>2. Types /\ Whole \in Nat /\ Header \in Nat /\ sound.len \in Nat
  BY SendPktAssumption, WholeIs DEF SendPktAssumption, AloneInv, Types
<1>3. /\ keys \in SUBSET Keys /\ todo' \in Seq(SUBSET Keys) /\ keys = todo[1]
      /\ 1 \in DOMAIN todo /\ Len(todo') = Len(todo) - 1 /\ Len(todo) \in Nat
      /\ \A i \in DOMAIN todo' : i + 1 \in DOMAIN todo /\ todo'[i] = todo[i + 1]
  BY <1>1, <1>2, TailOf DEF Types
<1>4. DoesNoHarm(sound, todo')
  BY <1>1, <1>2, TailHarmless DEF AloneInv, Types
<1>5. \/ pktlen = Whole
      \/ /\ sound.codec = "other" /\ pktlen >= Whole /\ pktlen \in Int
         /\ \A i \in DOMAIN todo : Pads(todo[i])
  BY <1>1, <1>2 DEF AloneInv, Types
<1> HIDE DEF keys
<1>6. pl = IF keys = {} THEN Whole ELSE Encrypted(keys, Whole)
  <2>1. CASE pktlen = Whole
    BY <2>1
  <2>2. CASE pktlen # Whole
    <3>1. Pads(keys) /\ sound.codec # "rtp"
      BY <1>3, <1>5, <2>2
    <3>2. keys # {}
      BY <3>1 DEF Pads
    <3>3. Encrypted(keys, pktlen) = Encrypted(keys, Whole)
      BY <3>1 DEF Encrypted, Pads
    <3>4. QED
      BY <3>2, <3>3
  <2>3. QED
    BY <2>1, <2>2
<1>7. pl \in Nat /\ pl >= Whole
  BY <1>2, <1>3, <1>6, EncryptedIs
<1>8. p = Alone(keys)
  <2>1. keys = {} \/ pktlen >= Whole
    BY <1>2, <1>5
  <2>2. sound.codec = "rtp" => pktlen = Whole
    BY <1>5
  <2> HIDE DEF pl
  <2>3. (keys = {} \/ pktlen >= Whole) = TRUE
    BY <2>1
  <2>4. QED
    BY <1>6, <2>2, <2>3 DEF Alone
<1> HIDE DEF pl, p
<1>9. pktlen' \in Int
  BY <1>1, <1>7 DEF Leaves, Stuffed
<1>10. /\ sent \in Seq([keys : SUBSET Keys, len : Int, from : Int, whole : BOOLEAN, pad : Int])
       /\ sent' \in Seq([keys : SUBSET Keys, len : Int, from : Int, whole : BOOLEAN, pad : Int])
       /\ \A i \in DOMAIN sent' : (i \in DOMAIN sent /\ sent'[i] = sent[i]) \/ sent'[i] = p
  BY SMTT(40), <1>1, <1>2, <1>3, <1>8, AloneTyped DEF Types
<1>11. Types'
  BY <1>1, <1>2, <1>3, <1>9, <1>10 DEF Types, Keys
<1>12. p.keys = keys
  BY <1>8 DEF Alone
<1>13. (\A i \in DOMAIN sent : sent[i] = Alone(sent[i].keys))'
  <2>1. \A i \in DOMAIN sent' : sent'[i] = Alone(sent'[i].keys)
    BY <1>8, <1>10, <1>12 DEF AloneInv
  <2>2. QED
    BY <1>1, <2>1, AloneSame
<1>14. ASSUME todo' # << >>
       PROVE  \/ pktlen' = Whole
              \/ sound.codec = "other" /\ pktlen' >= Whole /\ \A i \in DOMAIN todo' : Pads(todo'[i])
  <2>1. Len(todo) > 1
    BY <1>3, <1>14
  <2>2. CASE sound.codec # "celp" /\ AllClear(todo)
    <3>1. keys = {} /\ pktlen = Whole
      BY <1>3, <1>5, <2>2 DEF AllClear, Pads
    <3>2. pktlen' = Whole
      BY <1>1, <1>2, <1>6, <2>2, <3>1 DEF Leaves, Stuffs, Stuffing, Types
    <3>3. QED
      BY <3>2
  <2>3. CASE sound.codec = "other" /\ PaddedLast(todo)
    <3>1. pktlen' = pl
      BY <1>1, <1>7, <2>3 DEF Leaves, Stuffs, Stuffing
    <3>2. CASE Pads(keys)
      <4>1. ASSUME NEW i \in DOMAIN todo' PROVE Pads(todo'[i])
        <5>1. 1 < i + 1 /\ i + 1 \in DOMAIN todo
          BY <1>3
        <5>2. QED
          BY <1>3, <2>3, <3>2, <5>1 DEF PaddedLast
      <4>2. QED
        BY <1>7, <2>3, <3>1, <4>1
    <3>3. CASE ~Pads(keys)
      <4>1. pktlen = Whole
        BY <1>3, <1>5, <3>3
      <4>2. Encrypted(keys, Whole) = Whole
        BY <2>3, <3>3 DEF Encrypted, Pads
      <4>3. QED
        BY <1>6, <3>1, <4>2
    <3>4. QED
      BY <3>2, <3>3
  <2>4. QED
    BY <2>1, <2>2, <2>3 DEF AloneInv, DoesNoHarm
<1>15. Whole' = Whole
  BY <1>1 DEF Whole
<1>16. QED
  BY <1>1, <1>4, <1>11, <1>13, <1>14, <1>15 DEF AloneInv

LEMMA AloneStep == AloneInv /\ [PacketNext]_packetVars => AloneInv'
<1> SUFFICES ASSUME AloneInv, [PacketNext]_packetVars PROVE AloneInv'
  OBVIOUS
<1>1. CASE UNCHANGED <<sound, pktlen, sent>> /\ (todo' = todo \/ todo' = << >>)
  <2>1. (\A i \in DOMAIN sent : sent[i] = Alone(sent[i].keys))'
    BY <1>1, AloneSame DEF AloneInv
  <2>2. Types' /\ Whole' = Whole
    <3>1. todo' \in Seq(SUBSET Keys) /\ Keys' = Keys
      <4>1. todo \in Seq(SUBSET Keys)
        BY DEF AloneInv, Types
      <4>2. << >> \in Seq(SUBSET Keys)
        OBVIOUS
      <4>3. QED
        BY <1>1, <4>1, <4>2 DEF Keys
    <3>2. QED
      BY <1>1, <3>1 DEF AloneInv, Types, Whole
  <2>3. DoesNoHarm(sound, todo)'
    <3>1. Len(<< >>) <= 1
      OBVIOUS
    <3>2. QED
      BY <1>1, <3>1 DEF AloneInv, DoesNoHarm, Stuffed, AllClear, PaddedLast, Pads
  <2>4. QED
    BY <1>1, <2>1, <2>2, <2>3 DEF AloneInv
<1>2. CASE SendFails
  BY <1>1, <1>2 DEF SendFails
<1>3. CASE UNCHANGED packetVars
  BY <1>1, <1>3 DEF packetVars
<1>4. QED
  BY <1>2, <1>3, SendToStep DEF PacketNext

-----------------------------------------------------------------------------
(* Wherever a destination stands in a list that does no harm, its receiver *)
(* accepts its packet and has the whole sound back (mike.c:707-1003 against *)
(* speaker.c:3003-3039 and 3360-3368).                                     *)
THEOREM AllHear == ASSUME Harmless(Cases) PROVE PacketSpec => []EveryoneHears
<1>1. AloneInv => EveryoneHears
  <2>1. SUFFICES ASSUME AloneInv, NEW i \in DOMAIN sent PROVE HeardWhole(sent[i])
    BY DEF EveryoneHears
  <2>2. sent[i].keys \in SUBSET Keys /\ Types
    <3>1. sent[i] \in [keys : SUBSET Keys, len : Int, from : Int, whole : BOOLEAN, pad : Int]
      BY <2>1, ElementOf DEF AloneInv, Types
    <3>2. QED
      BY <2>1, <3>1 DEF AloneInv
  <2>3. Stuffing => sound.len # Stuffed
    BY <2>1 DEF AloneInv, DoesNoHarm, Stuffing
  <2>4. QED
    BY <2>1, <2>2, <2>3, AloneHears DEF AloneInv
<1>2. QED
  BY <1>1, AloneInit, AloneStep, PTL DEF PacketSpec

(* Destinations with the same keys are sent the same packet, whatever was   *)
(* done for those before them (mike.c:723-1003).                           *)
THEOREM AllTheSame == ASSUME Harmless(Cases) PROVE PacketSpec => []SameToAll
<1>1. AloneInv => SameToAll
  BY DEF AloneInv, SameToAll
<1>2. QED
  BY <1>1, AloneInit, AloneStep, PTL DEF PacketSpec

-----------------------------------------------------------------------------
(* Protocols and keys: Protocol. *)

Connection == [active : BOOLEAN, over : BOOLEAN, session : Nat \cup {None},
               protocol : {"sf", "vat", "rtp", "crypt", "unknown"}]
ControlPacket == [form : {"sf", "rtp", "vat"}, enc : BOOLEAN, session : Nat, n : Nat,
                  kind : {"id", "chat", "bye"}]

(* A control packet or a sound of the sfmike that runs tells how it talks;   *)
(* only one that has ended said good-bye, and only Speak Freely's own        *)
(* protocol has a chat.                                                      *)
FromNow(s, m) ==
    /\ m.form = s.way.form /\ m.enc = s.way.enc
    /\ m.session = Session(s.way, s.n)
    /\ m.kind = "bye" => ~s.up
    /\ m.kind = "chat" => m.form = "sf"

SenderInv ==
    /\ mike \in [Host -> [way : Way, n : Nat, up : BOOLEAN]]
    /\ ctl \in [Host -> {<<>>} \cup {<<m>> : m \in ControlPacket}]
    /\ data \in [Host -> {<<>>} \cup {<<d>> : d \in [n : Nat, way : Way]}]
    /\ \A h \in Host :
         /\ mike[h].way \in Ways[h] /\ mike[h].n \in 0..MaxStarts[h]
         /\ ctl[h] # <<>> => /\ ctl[h][1].n <= mike[h].n
                             /\ ctl[h][1].n = mike[h].n => FromNow(mike[h], ctl[h][1])
         /\ data[h] # <<>> => /\ data[h][1].n <= mike[h].n
                              /\ data[h][1].n = mike[h].n => data[h][1].way = mike[h].way

(* A connection that is over is in no protocol until something comes.        *)
ReceiverInv ==
    /\ con \in [Host -> Connection]
    /\ \A h \in Host : con[h].over => con[h].protocol = "unknown"
    /\ toggle \in 0..2 /\ misread \in 0..MaxMisread
    /\ fate \in [Host -> {"played", "lost"}]

TalkInv == SenderInv /\ ReceiverInv

LEMMA WaysAre ==
  ASSUME NEW h \in Host, NEW way \in Ways[h]
  PROVE  /\ way \in Way /\ way.form \in {"sf", "rtp", "vat"} /\ way.enc \in BOOLEAN
         /\ way.form = "sf" => ~way.enc
<1>1. Ways[h] \in (SUBSET Way) \ {{}} /\ [form |-> "sf", enc |-> TRUE] \notin Ways[h]
  BY ProtocolAssumption
<1>2. way \in Way
  BY <1>1
<1>3. way.form = "sf" /\ way.enc => way = [form |-> "sf", enc |-> TRUE]
  BY <1>2 DEF Way
<1>4. QED
  BY <1>1, <1>2, <1>3 DEF Way

LEMMA TalkInit == Init => TalkInv
<1> SUFFICES ASSUME Init PROVE TalkInv
  OBVIOUS
<1>1. ASSUME NEW h \in Host
      PROVE  (CHOOSE w \in Ways[h] : TRUE) \in Ways[h] /\ Ways[h] \subseteq Way
             /\ MaxStarts[h] \in Nat
  BY ProtocolAssumption
<1>2. SenderInv
  BY <1>1 DEF Init, SenderInv
<1>3. MaxMisread \in Nat
  BY ProtocolAssumption
<1>4. ReceiverInv
  BY <1>3 DEF Init, ReceiverInv, NoConnection, Connection, None
<1>5. QED
  BY <1>2, <1>4 DEF TalkInv

(* What sendrtpctrl() sends is of the sfmike that runs, or has just ended.   *)
LEMMA SendControlIs ==
  ASSUME SenderInv, NEW h \in Host, NEW kind \in {"id", "chat", "bye"},
         mike' \in [Host -> [way : Way, n : Nat, up : BOOLEAN]],
         \A g \in Host : g # h => mike'[g] = mike[g],
         mike'[h].way \in Ways[h], mike'[h].n \in 0..MaxStarts[h],
         mike[h].n <= mike'[h].n,
         mike'[h].n = mike[h].n => mike'[h].way = mike[h].way,
         kind = "bye" => ~mike'[h].up,
         kind = "chat" => mike'[h].way.form = "sf",
         SendControl(h, kind), UNCHANGED data
  PROVE  SenderInv'
<1> DEFINE w == mike'[h].way
           m == [form |-> w.form, enc |-> w.enc, kind |-> kind,
                 session |-> Session(w, mike'[h].n), n |-> mike'[h].n]
<1>1. /\ MaxStarts[h] \in Nat /\ w \in Way /\ w.form \in {"sf", "rtp", "vat"}
      /\ w.enc \in BOOLEAN /\ mike'[h].n \in Nat /\ mike[h].n \in Nat
  BY ProtocolAssumption, WaysAre DEF SenderInv
<1>2. m \in ControlPacket
  BY <1>1 DEF ControlPacket, Session
<1>3. ctl' = [ctl EXCEPT ![h] = <<m>>]
  BY DEF SendControl
<1>4. m.n = mike'[h].n /\ FromNow(mike'[h], m)
  BY DEF FromNow
<1> HIDE DEF m, w
<1>5. ctl' \in [Host -> {<<>>} \cup {<<p>> : p \in ControlPacket}]
  BY <1>2, <1>3 DEF SenderInv
<1>6. ASSUME NEW g \in Host, g # h
      PROVE  /\ ctl'[g] = ctl[g] /\ mike'[g] = mike[g]
  BY <1>3, <1>6 DEF SenderInv
<1>7. ctl'[h] = <<m>> /\ ctl'[h][1] = m
  BY <1>3 DEF SenderInv
<1>8. data[h] # <<>> => data[h][1].n \in Nat /\ data[h][1].n <= mike[h].n
  BY DEF SenderInv
<1>9. ASSUME NEW g \in Host
      PROVE  /\ mike'[g].way \in Ways[g] /\ mike'[g].n \in 0..MaxStarts[g]
             /\ ctl'[g] # <<>> => /\ ctl'[g][1].n <= mike'[g].n
                                  /\ ctl'[g][1].n = mike'[g].n => FromNow(mike'[g], ctl'[g][1])
             /\ data'[g] # <<>> => /\ data'[g][1].n <= mike'[g].n
                                   /\ data'[g][1].n = mike'[g].n
                                        => data'[g][1].way = mike'[g].way
  <2>1. CASE g = h
    <3>1. ctl'[h][1].n <= mike'[h].n /\ FromNow(mike'[h], ctl'[h][1])
      BY <1>1, <1>4, <1>7
    <3>2. ASSUME data[h] # <<>>
          PROVE  /\ data[h][1].n <= mike'[h].n
                 /\ data[h][1].n = mike'[h].n => data[h][1].way = mike'[h].way
      BY <1>1, <1>8, <3>2 DEF SenderInv
    <3>3. QED
      BY <2>1, <3>1, <3>2
  <2>2. CASE g # h
    <3>1. mike[g].way \in Ways[g] /\ mike[g].n \in 0..MaxStarts[g]
      BY DEF SenderInv
    <3>2. ctl[g] # <<>> => /\ ctl[g][1].n <= mike[g].n
                           /\ ctl[g][1].n = mike[g].n => FromNow(mike[g], ctl[g][1])
      BY DEF SenderInv
    <3>3. data[g] # <<>> => /\ data[g][1].n <= mike[g].n
                            /\ data[g][1].n = mike[g].n => data[g][1].way = mike[g].way
      BY DEF SenderInv
    <3>4. QED
      BY <1>6, <2>2, <3>1, <3>2, <3>3
  <2>3. QED
    BY <2>1, <2>2
<1>10. QED
  BY <1>5, <1>9 DEF SenderInv

(* A packet that is received or lost leaves nothing to be wrong.             *)
LEMMA TakenIs ==
  ASSUME SenderInv, NEW h \in Host, UNCHANGED mike,
         \/ ctl' = [ctl EXCEPT ![h] = <<>>] /\ UNCHANGED data
         \/ data' = [data EXCEPT ![h] = <<>>] /\ UNCHANGED ctl
  PROVE  SenderInv'
<1>1. \A g \in Host : /\ ctl'[g] = <<>> \/ ctl'[g] = ctl[g]
                      /\ data'[g] = <<>> \/ data'[g] = data[g]
  BY DEF SenderInv
<1>2. /\ ctl' \in [Host -> {<<>>} \cup {<<m>> : m \in ControlPacket}]
      /\ data' \in [Host -> {<<>>} \cup {<<d>> : d \in [n : Nat, way : Way]}]
  BY DEF SenderInv
<1>3. QED
  BY <1>1, <1>2 DEF SenderInv

LEMMA SenderStep == SenderInv /\ [Next]_vars => SenderInv'
<1> SUFFICES ASSUME SenderInv, [Next]_vars PROVE SenderInv'
  OBVIOUS
<1>1. ASSUME NEW h \in Host
      PROVE  /\ mike[h] \in [way : Way, n : Nat, up : BOOLEAN]
             /\ mike[h].way \in Ways[h] /\ mike[h].n \in 0..MaxStarts[h]
             /\ MaxStarts[h] \in Nat
  BY ProtocolAssumption DEF SenderInv
<1>2. ASSUME NEW h \in Host, NEW way \in Ways[h], Start(h, way) PROVE SenderInv'
  <2> DEFINE s == [way |-> way, n |-> mike[h].n + 1, up |-> TRUE]
  <2>1. mike' = [mike EXCEPT ![h] = s] /\ mike[h].n < MaxStarts[h]
    BY <1>2 DEF Start
  <2>2. way \in Way /\ mike[h].n \in Nat
    BY <1>1, WaysAre
  <2>3. /\ s \in [way : Way, n : Nat, up : BOOLEAN]
        /\ s.way = way /\ s.n = mike[h].n + 1
    BY <2>2
  <2> HIDE DEF s
  <2>4. /\ mike' \in [Host -> [way : Way, n : Nat, up : BOOLEAN]]
        /\ mike'[h] = s /\ \A g \in Host : g # h => mike'[g] = mike[g]
    BY <2>1, <2>3 DEF SenderInv
  <2>5. /\ mike'[h].n \in 0..MaxStarts[h] /\ mike[h].n <= mike'[h].n
        /\ mike'[h].n # mike[h].n
    BY <1>1, <2>1, <2>2, <2>3, <2>4
  <2>6. SendControl(h, "id") /\ UNCHANGED data
    BY <1>2 DEF Start
  <2>7. QED
    BY <2>3, <2>4, <2>5, <2>6, SendControlIs
<1>3. ASSUME NEW h \in Host, NEW kind \in {"id", "chat"}, UNCHANGED <<mike, data>>,
             SendControl(h, kind), kind = "chat" => mike[h].way.form = "sf"
      PROVE  SenderInv'
  <2>1. /\ mike' \in [Host -> [way : Way, n : Nat, up : BOOLEAN]]
        /\ mike' = mike /\ mike[h].n <= mike[h].n
    BY <1>1, <1>3 DEF SenderInv
  <2>2. QED
    BY <1>1, <1>3, <2>1, SendControlIs
<1>4. ASSUME NEW h \in Host, TimerTick(h) PROVE SenderInv'
  BY <1>3, <1>4 DEF TimerTick
<1>5. ASSUME NEW h \in Host, Chat(h) PROVE SenderInv'
  BY <1>3, <1>5 DEF Chat
<1>6. ASSUME NEW h \in Host, Talk(h) PROVE SenderInv'
  <2> DEFINE d == [n |-> mike[h].n, way |-> mike[h].way]
  <2>1. d \in [n : Nat, way : Way] /\ d.n = mike[h].n /\ d.way = mike[h].way
    BY <1>1
  <2> HIDE DEF d
  <2>2. data' = [data EXCEPT ![h] = <<d>>] /\ UNCHANGED <<mike, ctl>>
    BY <1>6 DEF Talk, d
  <2>3. /\ data' \in [Host -> {<<>>} \cup {<<e>> : e \in [n : Nat, way : Way]}]
        /\ data'[h] = <<d>> /\ data'[h][1] = d
        /\ \A g \in Host : g # h => data'[g] = data[g]
    BY <2>1, <2>2 DEF SenderInv
  <2>4. data'[h][1].n <= mike[h].n /\ data'[h][1].way = mike[h].way
    BY <1>1, <2>1, <2>3
  <2>5. QED
    BY <2>2, <2>3, <2>4 DEF SenderInv
<1>7. ASSUME NEW h \in Host, Exit(h) PROVE SenderInv'
  <2> DEFINE s == [mike[h] EXCEPT !.up = FALSE]
  <2>1. /\ s \in [way : Way, n : Nat, up : BOOLEAN]
        /\ s.way = mike[h].way /\ s.n = mike[h].n /\ ~s.up
    BY <1>1
  <2> HIDE DEF s
  <2>2. mike' = [mike EXCEPT ![h] = s]
    BY <1>7 DEF Exit, s
  <2>3. /\ mike' \in [Host -> [way : Way, n : Nat, up : BOOLEAN]]
        /\ mike'[h] = s /\ \A g \in Host : g # h => mike'[g] = mike[g]
    BY <2>1, <2>2 DEF SenderInv
  <2>4. /\ mike'[h].way = mike[h].way /\ mike'[h].n = mike[h].n
        /\ mike[h].n <= mike[h].n /\ ~mike'[h].up
    BY <1>1, <2>1, <2>3
  <2>5. CASE SendControl(h, "bye")
    BY <1>1, <1>7, <2>3, <2>4, <2>5, SendControlIs DEF Exit
  <2>6. CASE UNCHANGED ctl
    <3>1. UNCHANGED <<ctl, data>>
      BY <1>7, <2>6 DEF Exit
    <3>2. ASSUME NEW m, FromNow(mike[h], m) PROVE FromNow(mike'[h], m)
      BY <2>4, <3>2 DEF FromNow
    <3>3. ASSUME NEW g \in Host
          PROVE  mike'[g].way = mike[g].way /\ mike'[g].n = mike[g].n
      BY <2>3, <2>4, <3>3
    <3>4. ASSUME NEW g \in Host, NEW m, FromNow(mike[g], m)
          PROVE  FromNow(mike'[g], m)
      BY <2>3, <3>2, <3>4
    <3>5. QED
      BY <2>3, <3>1, <3>3, <3>4 DEF SenderInv
  <2>7. QED
    BY <1>7, <2>5, <2>6 DEF Exit
<1>8. ASSUME NEW h \in Host, Lose(h) \/ ReceiveControl(h) \/ ReceiveSound(h)
      PROVE  SenderInv'
  BY <1>8, TakenIs DEF Lose, ReceiveControl, ReceiveSound
<1>9. ASSUME NEW h \in Host, Release(h) PROVE SenderInv'
  BY <1>9 DEF Release, SenderInv
<1>10. CASE UNCHANGED vars
  BY <1>10 DEF vars, SenderInv
<1>11. QED
  BY <1>2, <1>4, <1>5, <1>6, <1>7, <1>8, <1>9, <1>10 DEF Next

LEMMA TouchedIs ==
  ASSUME ReceiverInv, NEW h \in Host
  PROVE  /\ Touched(h) \in Connection /\ Touched(h).active /\ ~Touched(h).over
         /\ con[h].active => /\ Touched(h).protocol = con[h].protocol
                             /\ Touched(h).session = con[h].session
BY DEF ReceiverInv, Connection, Touched, NoConnection, None

(* What comes of a control packet: the protocol it is in, or none known.     *)
LEMMA RecognisedIs ==
  ASSUME NEW c \in Connection, ~c.over, NEW m, m.session \in Nat,
         m.form \in {"sf", "rtp", "vat", "rubbish"}
  PROVE  /\ Recognised(c, m) \in Connection
         /\ Recognised(c, m).over => Recognised(c, m).protocol = "unknown"
<1> DEFINE gone == [c EXCEPT !.protocol = "unknown", !.session = m.session, !.over = TRUE]
           known == [c EXCEPT !.protocol = m.form, !.session = m.session]
           crypt == [c EXCEPT !.protocol = "crypt"]
<1>1. gone \in Connection /\ gone.protocol = "unknown"
  BY DEF Connection
<1>2. crypt \in Connection /\ ~crypt.over
  BY DEF Connection
<1>3. m.form # "rubbish" => known \in Connection /\ ~known.over
  BY DEF Connection
<1>4. \/ Recognised(c, m) = gone \/ Recognised(c, m) = crypt
      \/ m.form # "rubbish" /\ Recognised(c, m) = known
  BY DEF Recognised, IsVAT, IsRTCP
<1>5. QED
  BY <1>1, <1>2, <1>3, <1>4

LEMMA MisreadIs ==
  ASSUME NEW c \in Connection, ~c.over, NEW r \in Misread(c)
  PROVE  r \in Connection /\ (r.over => r.protocol = "unknown")
BY DEF Misread, Connection

(* What a packet is once it was decrypted, or was not.                       *)
LEMMA DecipheredIs ==
  ASSUME NEW m \in ControlPacket, NEW key, NEW d,
         d = m \/ d = Deciphered(m, key)
  PROVE  d.session \in Nat /\ d.form \in {"sf", "rtp", "vat", "rubbish"}
BY DEF ControlPacket, Deciphered

LEMMA ReceiverStep == TalkInv /\ [Next]_vars => ReceiverInv'
<1> SUFFICES ASSUME SenderInv, ReceiverInv, [Next]_vars PROVE ReceiverInv'
  BY DEF TalkInv
<1>1. MaxMisread \in Nat
  BY ProtocolAssumption
<1>2. ASSUME NEW h \in Host, NEW c \in Connection, c.over => c.protocol = "unknown",
             con' = [con EXCEPT ![h] = c]
      PROVE  /\ con' \in [Host -> Connection]
             /\ \A g \in Host : con'[g].over => con'[g].protocol = "unknown"
  <2>1. con' \in [Host -> Connection]
    BY <1>2 DEF ReceiverInv
  <2>2. \A g \in Host : con'[g] = IF g = h THEN c ELSE con[g]
    BY <1>2 DEF ReceiverInv
  <2>3. QED
    BY <1>2, <2>1, <2>2 DEF ReceiverInv
<1>3. ASSUME NEW h \in Host, ReceiveControl(h) PROVE ReceiverInv'
  <2> DEFINE packet == ctl[h][1]
             c == Touched(h)
             decrypts == HasKey /\ ~IsRTCP(packet)
             m == IF decrypts THEN Deciphered(packet, Tried(c)) ELSE packet
  <2>1. packet \in ControlPacket
    BY <1>3 DEF ReceiveControl, SenderInv
  <2>2. m.session \in Nat /\ m.form \in {"sf", "rtp", "vat", "rubbish"}
    BY <2>1, DecipheredIs
  <2>3. c \in Connection /\ ~c.over
    BY TouchedIs
  <2>4. /\ toggle' = IF decrypts /\ Unsettled(c) THEN (toggle + 1) % 3 ELSE toggle
        /\ \/ con' = [con EXCEPT ![h] = Recognised(c, m)] /\ UNCHANGED misread
           \/ /\ misread < MaxMisread /\ misread' = misread + 1
              /\ \E r \in Misread(c) : con' = [con EXCEPT ![h] = r]
        /\ UNCHANGED fate
    BY <1>3 DEF ReceiveControl
  <2> HIDE DEF packet, c, decrypts, m
  <2>5. toggle' \in 0..2
    BY <2>4 DEF ReceiverInv
  <2>6. misread' \in 0..MaxMisread
    BY <1>1, <2>4 DEF ReceiverInv
  <2>7. CASE con' = [con EXCEPT ![h] = Recognised(c, m)]
    <3>1. /\ Recognised(c, m) \in Connection
          /\ Recognised(c, m).over => Recognised(c, m).protocol = "unknown"
      BY <2>2, <2>3, RecognisedIs
    <3>2. QED
      BY <1>2, <2>4, <2>5, <2>6, <2>7, <3>1 DEF ReceiverInv
  <2>8. ASSUME NEW r \in Misread(c), con' = [con EXCEPT ![h] = r] PROVE ReceiverInv'
    <3>1. r \in Connection /\ (r.over => r.protocol = "unknown")
      BY <2>3, <2>8, MisreadIs
    <3>2. QED
      BY <1>2, <2>4, <2>5, <2>6, <2>8, <3>1 DEF ReceiverInv
  <2>9. QED
    BY <2>4, <2>7, <2>8
<1>4. ASSUME NEW h \in Host, ReceiveSound(h) PROVE ReceiverInv'
  <2> DEFINE way == data[h][1].way
             clear == Clear(Touched(h), way)
  <2>1. PICK c \in Tagged(Touched(h), clear, way) :
             /\ con' = [con EXCEPT ![h] = c]
             /\ \E w \in {"played", "lost"} : fate' = [fate EXCEPT ![h] = w]
             /\ UNCHANGED <<toggle, misread>>
    BY <1>4 DEF ReceiveSound
  <2>2. Touched(h) \in Connection /\ ~Touched(h).over
    BY TouchedIs
  <2>3. c \in Connection /\ ~c.over
    BY <2>1, <2>2 DEF Tagged, Connection
  <2>4. fate' \in [Host -> {"played", "lost"}]
    BY <2>1 DEF ReceiverInv
  <2>5. QED
    BY <1>2, <2>1, <2>3, <2>4 DEF ReceiverInv
<1>5. ASSUME NEW h \in Host, Release(h) PROVE ReceiverInv'
  <2>1. NoConnection \in Connection /\ ~NoConnection.over
    BY DEF NoConnection, Connection, None
  <2>2. con' = [con EXCEPT ![h] = NoConnection] /\ UNCHANGED <<toggle, misread, fate>>
    BY <1>5 DEF Release
  <2>3. QED
    BY <1>2, <2>1, <2>2 DEF ReceiverInv
<1>6. CASE UNCHANGED <<con, toggle, misread, fate>>
  BY <1>6 DEF ReceiverInv
<1>7. QED
  BY <1>3, <1>4, <1>5, <1>6
     DEF Next, Start, TimerTick, Chat, Talk, Exit, Lose, vars

(* A packet of the sfmike that runs, decrypted with the key of its protocol, *)
(* or not decrypted as no key is given, confirms what is known of it.        *)
LEMMA Confirms ==
  ASSUME TalkInv, NEW h \in Host, Settled(h), ReceiveControl(h),
         ctl[h][1].n = mike[h].n
  PROVE  Settled(h)'
<1> DEFINE packet == ctl[h][1]
           c == Touched(h)
           decrypts == HasKey /\ ~IsRTCP(packet)
           m == IF decrypts THEN Deciphered(packet, Tried(c)) ELSE packet
           way == mike[h].way
<1>1. /\ packet \in ControlPacket /\ FromNow(mike[h], packet)
      /\ mike[h] \in [way : Way, n : Nat, up : BOOLEAN] /\ way \in Ways[h]
  BY DEF TalkInv, SenderInv, ReceiveControl
<1>2. /\ way.form \in {"sf", "rtp", "vat"} /\ way.enc \in BOOLEAN
      /\ way.form = "sf" => ~way.enc
  BY <1>1, WaysAre
<1>3. /\ mike[h].up /\ Matched(way) /\ con[h].active /\ con[h].protocol = way.form
      /\ con[h].session = Session(way, mike[h].n)
  BY DEF Settled
<1>4. /\ c \in Connection /\ c.active /\ c.protocol = way.form
      /\ c.session = Session(way, mike[h].n)
  BY <1>3, TouchedIs DEF TalkInv
<1>5. /\ packet.form = way.form /\ packet.enc = way.enc
      /\ packet.session = Session(way, mike[h].n)
      /\ packet.kind \in {"id", "chat"} /\ (packet.kind = "chat" => packet.form = "sf")
  BY <1>1, <1>3 DEF FromNow, ControlPacket
<1>6. /\ \/ con' = [con EXCEPT ![h] = Recognised(c, m)]
         \/ m.enc \/ m.form = "rubbish"
      /\ UNCHANGED mike
  BY DEF ReceiveControl
<1> HIDE DEF c
<1>7. /\ m.form = way.form /\ ~m.enc /\ m.session = packet.session
      /\ m.kind = packet.kind
  <2>1. CASE way.form = "sf"
    <3>1. ~decrypts
      BY <1>2, <1>5, <2>1 DEF IsRTCP
    <3>2. QED
      BY <1>2, <1>5, <2>1, <3>1
  <2>2. CASE way.form # "sf" /\ HasKey
    <3>1. way.enc /\ decrypts
      BY <1>2, <1>3, <1>5, <2>2 DEF Matched, IsRTCP
    <3>2. Tried(c) = way.form
      BY <1>2, <1>4, <2>2 DEF Tried, Unsettled
    <3>3. way.form # "none"
      BY <1>2
    <3>4. m = [packet EXCEPT !.enc = FALSE]
      BY <1>5, <3>1, <3>2, <3>3 DEF Deciphered
    <3>5. QED
      BY <1>1, <1>5, <3>4 DEF ControlPacket
  <2>3. CASE way.form # "sf" /\ ~HasKey
    BY <1>2, <1>3, <1>5, <2>3 DEF Matched
  <2>4. QED
    BY <2>1, <2>2, <2>3
<1> HIDE DEF m, packet, way
<1>8. Recognised(c, m) = [c EXCEPT !.protocol = m.form, !.session = m.session]
  BY <1>2, <1>5, <1>7 DEF Recognised, IsVAT, IsRTCP
<1>9. m.form # "rubbish" /\ ~m.enc
  BY <1>2, <1>7
<1>10. con'[h] = [c EXCEPT !.protocol = m.form, !.session = m.session]
  BY <1>6, <1>8, <1>9 DEF TalkInv, ReceiverInv
<1>11. /\ con'[h].active /\ con'[h].protocol = way.form
       /\ con'[h].session = Session(way, mike[h].n)
  BY <1>4, <1>5, <1>7, <1>10 DEF Connection
<1>12. QED
  BY <1>3, <1>6, <1>11 DEF Settled, way

LEMMA SoundConfirms ==
  ASSUME TalkInv, NEW h \in Host, Settled(h), ReceiveSound(h),
         data[h][1].n = mike[h].n
  PROVE  Settled(h)'
<1> DEFINE way == mike[h].way
<1>1. way \in Ways[h] /\ data[h][1].way = way
  BY DEF TalkInv, SenderInv, ReceiveSound
<1>2. /\ way.form \in {"sf", "rtp", "vat"} /\ way.enc \in BOOLEAN
      /\ way.form = "sf" => ~way.enc
  BY <1>1, WaysAre
<1>3. /\ mike[h].up /\ Matched(way) /\ con[h].active /\ con[h].protocol = way.form
      /\ con[h].session = Session(way, mike[h].n)
  BY DEF Settled
<1>4. /\ Touched(h) \in Connection /\ Touched(h).active
      /\ Touched(h).protocol = way.form
      /\ Touched(h).session = Session(way, mike[h].n)
  BY <1>3, TouchedIs DEF TalkInv
<1>5. Clear(Touched(h), way)
  BY <1>2, <1>3, <1>4 DEF Clear, Unsettled, Matched
<1>6. Tagged(Touched(h), Clear(Touched(h), way), way) = {Touched(h)}
  BY <1>2, <1>4, <1>5 DEF Tagged
<1>7. con' = [con EXCEPT ![h] = Touched(h)] /\ UNCHANGED mike
  BY <1>1, <1>6 DEF ReceiveSound
<1>8. con'[h] = Touched(h)
  BY <1>7 DEF TalkInv, ReceiverInv
<1>9. QED
  BY <1>3, <1>4, <1>7, <1>8 DEF Settled

LEMMA TalkAlways == Spec => []TalkInv
<1>1. TalkInv /\ [Next]_vars => TalkInv'
  BY SenderStep, ReceiverStep DEF TalkInv
<1>2. QED
  BY <1>1, TalkInit, PTL DEF Spec

(* Every variable keeps its type: the bounds on starts and on rubbish that   *)
(* is misread hold, at most one packet of a kind is under way, and a         *)
(* connection is in one of the protocols that there are.                     *)
THEOREM TypeCorrect == Spec => []TypeOK
<1>1. TalkInv => TypeOK
  <2> SUFFICES ASSUME TalkInv PROVE TypeOK
    OBVIOUS
  <2>1. ASSUME NEW S, NEW q \in {<<>>} \cup {<<m>> : m \in S} PROVE Len(q) <= 1
    <3>1. CASE q = <<>>
      BY <3>1
    <3>2. CASE q # <<>>
      <4>1. PICK m : q = <<m>>
        BY <3>2
      <4>2. QED
        BY <4>1
    <3>3. QED
      BY <3>1, <3>2
  <2>2. \A h \in Host : Len(ctl[h]) <= 1 /\ Len(data[h]) <= 1
    BY <2>1 DEF TalkInv, SenderInv
  <2>3. con \in [Host -> [active : BOOLEAN, over : BOOLEAN, session : Nat \cup {None},
                         protocol : {"sf", "vat", "rtp", "crypt", "unknown"}]]
    BY DEF TalkInv, ReceiverInv, Connection
  <2>4. QED
    BY <2>2, <2>3 DEF TalkInv, SenderInv, ReceiverInv, TypeOK
<1>2. QED
  BY <1>1, TalkAlways, PTL

(* Whatever sfspeaker receives of others, in whatever order and with         *)
(* whichever keys: once the protocol of a host is known, only the end of its *)
(* sfmike or a late packet of an earlier one changes it                      *)
(* (speaker.c 2633-2898).                                                    *)
THEOREM ProtocolStays == Spec => Stays
<1> DEFINE Kept(h) == \/ Settled(h)' \/ mike'[h] # mike[h]
                      \/ (Read(ctl, h) /\ ctl[h][1].n # mike[h].n)
                      \/ (Read(data, h) /\ data[h][1].n # mike[h].n)
<1>1. TalkInv /\ [Next]_vars => [\A h \in Host : Settled(h) => Kept(h)]_vars
  <2> SUFFICES ASSUME TalkInv, Next, NEW h \in Host, Settled(h) PROVE Kept(h)
    OBVIOUS
  <2>1. ASSUME UNCHANGED <<mike, con>> PROVE Kept(h)
    BY <2>1 DEF Settled
  <2>2. ASSUME NEW g \in Host, NEW way \in Ways[g], Start(g, way) PROVE Kept(h)
    <3>1. g # h
      BY <2>2 DEF Start, Settled
    <3>2. mike'[h] = mike[h] /\ UNCHANGED con
      BY <2>2, <3>1 DEF Start, TalkInv, SenderInv
    <3>3. QED
      BY <3>2 DEF Settled
  <2>3. ASSUME NEW g \in Host, Exit(g) PROVE Kept(h)
    <3>1. mike'[h] = IF g = h THEN [mike[h] EXCEPT !.up = FALSE] ELSE mike[h]
      BY <2>3 DEF Exit, TalkInv, SenderInv
    <3>2. mike[h] \in [way : Way, n : Nat, up : BOOLEAN] /\ mike[h].up
      BY DEF TalkInv, SenderInv, Settled
    <3>3. CASE g = h
      BY <3>1, <3>2, <3>3
    <3>4. CASE g # h
      BY <2>3, <3>1, <3>4 DEF Exit, Settled
    <3>5. QED
      BY <3>3, <3>4
  <2>4. ASSUME NEW g \in Host, ReceiveControl(g) PROVE Kept(h)
    <3>1. CASE g # h
      <4>1. con'[h] = con[h] /\ UNCHANGED mike
        BY <2>4, <3>1 DEF ReceiveControl, TalkInv, ReceiverInv
      <4>2. QED
        BY <4>1 DEF Settled
    <3>2. CASE g = h
      <4>1. Read(ctl, h)
        BY <2>4, <3>2 DEF ReceiveControl, Read, TalkInv, SenderInv
      <4>2. QED
        BY <2>4, <3>2, <4>1, Confirms
    <3>3. QED
      BY <3>1, <3>2
  <2>5. ASSUME NEW g \in Host, ReceiveSound(g) PROVE Kept(h)
    <3>1. CASE g # h
      <4>1. con'[h] = con[h] /\ UNCHANGED mike
        BY <2>5, <3>1 DEF ReceiveSound, TalkInv, ReceiverInv
      <4>2. QED
        BY <4>1 DEF Settled
    <3>2. CASE g = h
      <4>1. Read(data, h)
        BY <2>5, <3>2 DEF ReceiveSound, Read, TalkInv, SenderInv
      <4>2. QED
        BY <2>5, <3>2, <4>1, SoundConfirms
    <3>3. QED
      BY <3>1, <3>2
  <2>6. ASSUME NEW g \in Host, Release(g) PROVE Kept(h)
    <3>1. g # h
      <4>1. con[g].over \/ ~mike[g].up
        BY <2>6 DEF Release
      <4>2. con[h].protocol \in {"sf", "rtp", "vat"} /\ mike[h].up
        BY WaysAre DEF Settled, TalkInv, SenderInv
      <4>3. ~con[h].over
        BY <4>2 DEF TalkInv, ReceiverInv
      <4>4. QED
        BY <4>1, <4>2, <4>3
    <3>2. con'[h] = con[h] /\ UNCHANGED mike
      BY <2>6, <3>1 DEF Release, TalkInv, ReceiverInv
    <3>3. QED
      BY <3>2 DEF Settled
  <2> HIDE DEF Kept
  <2>7. QED
    BY <2>1, <2>2, <2>3, <2>4, <2>5, <2>6 DEF Next, TimerTick, Chat, Talk, Lose
<1>2. QED
  BY <1>1, TalkAlways, PTL DEF Spec, Stays

-----------------------------------------------------------------------------
(* What packets come back as: RtpPackets. *)

Byte == 0..255
Fields == 1..4
Kinds == {"CNAME", "NAME", "EMAIL", "PHONE", "LOC", "TOOL"}
IsSdes(s) == s.items \in Seq(Kinds \X Byte) /\ s.bytes \in Nat

(* The items name v for a kind, once, or do not have the kind. *)
Says(items, kind, v) ==
  \/ v = Absent /\ \A i \in DOMAIN items : items[i][1] # kind
  \/ /\ v \in Byte
     /\ \E i \in DOMAIN items : /\ items[i] = <<kind, v>>
                                /\ \A j \in DOMAIN items : j # i => items[j][1] # kind

Field(id, i) == IF i \in DOMAIN id /\ id[i] > 0 THEN id[i] ELSE Absent
FieldKind(i) == <<"NAME", "EMAIL", "PHONE", "LOC">>[i]

(* A sub-packet is as long as its header says, and the whole an odd multiple *)
(* of 4, so that encryption only adds its 4 bytes.                           *)
LEMMA CipherReturns ==
  ASSUME NEW c, DOMAIN c = {"form", "enc", "len", "subs"},
         c.form = "rtp", c.len \in Nat, c.len % 8 = 4
  PROVE  LET d == Decrypt(Encrypt(c))
         IN  d.form = "rtp" /\ d.enc = FALSE /\ d.len = c.len /\ d.subs = c.subs
<1>1. RoundUp(c.len + 4, 8) = c.len + 4 /\ c.len + 4 - 4 = c.len
  BY DEF RoundUp
<1>2. PICK e : e = Encrypt(c)
  OBVIOUS
<1>3. e = [c EXCEPT !.enc = TRUE, !.len = c.len + 4]
  BY <1>1, <1>2 DEF Encrypt
<1>4. /\ DOMAIN e = {"form", "enc", "len", "subs"}
      /\ e.form = "rtp" /\ e.len = c.len + 4 /\ e.subs = c.subs
  BY <1>3
<1>5. Decrypt(e) = [e EXCEPT !.enc = FALSE, !.len = IF e.form = "rtp" THEN @ - 4 ELSE @]
  BY DEF Decrypt
<1>6. (IF e.form = "rtp" THEN e.len - 4 ELSE e.len) = c.len
  BY <1>1, <1>4
<1>7. Decrypt(e) = [e EXCEPT !.enc = FALSE, !.len = c.len]
  BY <1>5, <1>6
<1>8. QED
  BY <1>2, <1>4, <1>7

LEMMA CompositeIs ==
  ASSUME NEW pt, NEW bytes \in Nat, NEW items, NEW m \in Sent(Composite(pt, bytes, items))
  PROVE  /\ IsValid(m)
         /\ m.subs = Composite(pt, bytes, items).subs
<1> DEFINE size == RoundUp(bytes, 4)
           pad == Pad(Report.size + size)
           c == Composite(pt, bytes, items)
<1>1. size \in Nat /\ size % 4 = 0
  BY DEF RoundUp
<1>2. pad \in {0, 4} /\ (8 + size + pad) % 8 = 4 /\ Report.size = 8
  BY <1>1 DEF Pad, Report
<1>3. c.form = "rtp" /\ c.enc = FALSE /\ c.len = 8 + size + pad
  BY <1>2 DEF Composite
<1>4. c.subs = << Report,
                    [pt |-> pt, length |-> size \div 4 - 1 + pad \div 4,
                     size |-> size + pad, p |-> pad > 0, items |-> items] >>
  BY <1>2 DEF Composite
<1>5. DOMAIN c = {"form", "enc", "len", "subs"}
  BY DEF Composite
<1> HIDE DEF size, pad, c
<1>6. c.len \in Nat /\ c.len % 8 = 4
  BY <1>3, <1>1, <1>2
<1>7. m.form = "rtp" /\ m.enc = FALSE /\ m.len = c.len /\ m.subs = c.subs
  <2>1. m = c \/ m = Decrypt(Encrypt(c))
    BY DEF Sent, c
  <2>2. CASE m = Decrypt(Encrypt(c))
    BY <1>3, <1>5, <1>6, <2>2, CipherReturns
  <2>3. QED
    BY <1>3, <2>1, <2>2
<1>8. /\ DOMAIN m.subs = 1..2
      /\ m.subs[1] = Report
      /\ m.subs[2].length = size \div 4 - 1 + pad \div 4
      /\ m.subs[2].size = size + pad
  BY <1>4, <1>7
<1>9. 4 * (m.subs[2].length + 1) = m.subs[2].size
  BY <1>1, <1>2, <1>8
<1>10. 4 * (m.subs[1].length + 1) = m.subs[1].size /\ m.subs[1].size = 8
  BY <1>8 DEF Report
<1>11. m.subs[1].size + m.subs[2].size = m.len
  BY <1>3, <1>1, <1>2, <1>7, <1>8, <1>10
<1>12. \A i \in DOMAIN m.subs : 4 * (m.subs[i].length + 1) = m.subs[i].size
  BY <1>8, <1>9, <1>10
<1>13. m.subs[1].pt \in {"RR", "SR"} /\ ~m.subs[1].p
  BY <1>8 DEF Report
<1>14. QED
  BY <1>7, <1>11, <1>12, <1>13 DEF IsValid, c

(* So it holds what it was made to hold, and nothing else. *)
LEMMA CompositeHas ==
  ASSUME NEW pt, NEW kind, kind # "RR", NEW bytes \in Nat, NEW items,
         NEW m \in Sent(Composite(pt, bytes, items))
  PROVE  Has(m, kind) <=> kind = pt
<1>1. IsValid(m) /\ m.subs = Composite(pt, bytes, items).subs
  BY CompositeIs
<1>2. DOMAIN m.subs = 1..2 /\ m.subs[1].pt = "RR" /\ m.subs[2].pt = pt
  BY <1>1 DEF Composite, Report
<1>3. QED
  BY <1>1, <1>2 DEF Has

(* The items of a source description. *)
LEMMA ItemAdded ==
  ASSUME NEW s, IsSdes(s), NEW kind \in Kinds, NEW text \in Byte,
         Says(s.items, kind, Absent)
  PROVE  /\ IsSdes(AddItem(s, kind, text))
         /\ Says(AddItem(s, kind, text).items, kind, text)
         /\ \A k \in Kinds \ {kind}, v \in {Absent} \cup Byte :
              Says(s.items, k, v) => Says(AddItem(s, kind, text).items, k, v)
<1> DEFINE old == s.items
           new == Append(old, <<kind, text>>)
<1>1. AddItem(s, kind, text).items = new /\ AddItem(s, kind, text).bytes = s.bytes + 2 + text
  BY DEF AddItem
<1>2. old \in Seq(Kinds \X Byte) /\ s.bytes \in Nat
  BY DEF IsSdes
<1>3. <<kind, text>> \in Kinds \X Byte
  OBVIOUS
<1>4. s.bytes + 2 + text \in Nat
  BY <1>2 DEF Byte
<1> HIDE DEF old
<1>5. /\ new \in Seq(Kinds \X Byte)
      /\ DOMAIN old = 1..Len(old) /\ DOMAIN new = 1..Len(old) + 1 /\ Len(old) \in Nat
      /\ \A i \in 1..Len(old) : new[i] = old[i]
      /\ new[Len(old) + 1] = <<kind, text>>
  BY <1>2, <1>3
<1>6. \A i \in DOMAIN old : old[i][1] # kind
  BY DEF Says, Absent, Byte, old
<1> HIDE DEF new
<1>7. Says(new, kind, text)
  <2>1. Len(old) + 1 \in DOMAIN new
    BY <1>5
  <2>2. \A j \in DOMAIN new : j # Len(old) + 1 => new[j][1] # kind
    BY <1>5, <1>6
  <2>3. QED
    BY <1>5, <2>1, <2>2 DEF Says
<1>8. ASSUME NEW k \in Kinds \ {kind}, NEW v \in {Absent} \cup Byte, Says(old, k, v)
      PROVE  Says(new, k, v)
  <2>1. <<kind, text>>[1] = kind
    OBVIOUS
  <2>2. \A i \in DOMAIN new : i \in DOMAIN old \/ new[i][1] # k
    BY <1>5, <2>1
  <2>3. CASE \A i \in DOMAIN old : old[i][1] # k
    <3>1. v = Absent
      BY <1>8, <2>3 DEF Says
    <3>2. QED
      BY <1>5, <2>2, <2>3, <3>1 DEF Says
  <2>4. CASE ~ \A i \in DOMAIN old : old[i][1] # k
    <3>0. v \in Byte
      BY <1>8, <2>4 DEF Says
    <3>1. PICK i \in DOMAIN old : /\ old[i] = <<k, v>>
                                  /\ \A j \in DOMAIN old : j # i => old[j][1] # k
      BY <1>8, <2>4 DEF Says
    <3>2. i \in DOMAIN new /\ new[i] = <<k, v>> /\ \A j \in DOMAIN new : j # i => new[j][1] # k
      BY <1>5, <2>2, <3>1
    <3>3. QED
      BY <3>0, <3>2 DEF Says
  <2>5. QED
    BY <2>3, <2>4
<1>9. QED
  BY <1>1, <1>5, <1>7, <1>8, <1>4 DEF IsSdes, old

LEMMA BytesAre ==
  \A n \in Byte : /\ (n = 0 /\ ~(n > 0)) \/ (n \in 1..255 /\ n > 0)
                  /\ n < 256 /\ n % 256 = n
BY DEF Byte

(* A field is the text of its place if there is any. *)
LEMMA FieldIs ==
  ASSUME NEW id \in Seq(Byte), NEW i \in Fields
  PROVE  /\ Field(id, i) \in {Absent} \cup 1..255
         /\ Len(id) < i => Field(id, i) = Absent
         /\ Len(id) >= i => \/ Field(id, i) = Absent /\ id[i] = 0
                            \/ Field(id, i) = id[i] /\ id[i] \in 1..255
<1>1. DOMAIN id = 1..Len(id) /\ Len(id) \in Nat /\ i \in 1..4
  BY DEF Fields
<1>2. CASE i \in DOMAIN id
  <2>1. id[i] \in Byte
    BY <1>2
  <2>2. \/ id[i] = 0 /\ ~(id[i] > 0)
        \/ id[i] \in 1..255 /\ id[i] > 0
    BY <2>1, BytesAre
  <2>3. CASE id[i] = 0 /\ ~(id[i] > 0)
    BY <1>1, <1>2, <2>3 DEF Field
  <2>4. CASE id[i] \in 1..255 /\ id[i] > 0
    BY <1>1, <1>2, <2>4 DEF Field
  <2>5. QED
    BY <2>2, <2>3, <2>4
<1>3. CASE i \notin DOMAIN id
  BY <1>1, <1>3 DEF Field
<1>4. QED
  BY <1>2, <1>3

LEMMA FieldAdded ==
  ASSUME NEW s, IsSdes(s), NEW id \in Seq(Byte), NEW i \in Fields,
         Says(s.items, FieldKind(i), Absent)
  PROVE  /\ IsSdes(AddField(s, id, i))
         /\ Says(AddField(s, id, i).items, FieldKind(i), Field(id, i))
         /\ \A k \in Kinds \ {FieldKind(i)}, v \in {Absent} \cup Byte :
              Says(s.items, k, v) => Says(AddField(s, id, i).items, k, v)
<1>1. FieldKind(i) \in Kinds
  BY DEF FieldKind, Fields, Kinds
<1>2. CASE i \in DOMAIN id /\ id[i] > 0
  <2>1. id[i] \in Byte
    BY <1>2
  <2>2. AddField(s, id, i) = AddItem(s, FieldKind(i), id[i]) /\ Field(id, i) = id[i]
    BY <1>2 DEF AddField, FieldKind, Field
  <2>3. QED
    BY <1>1, <2>1, <2>2, ItemAdded
<1>3. CASE ~(i \in DOMAIN id /\ id[i] > 0)
  BY <1>3 DEF AddField, Field
<1>4. QED
  BY <1>2, <1>3

(* What a source description of an environment says. *)
LEMMA SdesSays ==
  ASSUME NEW env \in Envs
  PROVE  LET items == Sdes(env).items
             name == IF env.id = << >> THEN env.gecos ELSE Field(env.id, 1)
         IN  /\ Says(items, "CNAME", env.cname)
             /\ Says(items, "NAME", name)
             /\ Says(items, "EMAIL", Field(env.id, 2))
             /\ IsSdes(Sdes(env))
<1> DEFINE empty == [items |-> << >>, bytes |-> 8]
           cname == AddItem(empty, "CNAME", env.cname)
           f1 == AddField(cname, env.id, 1)
           f2 == AddField(f1, env.id, 2)
           f3 == AddField(f2, env.id, 3)
           f4 == AddField(f3, env.id, 4)
           named == AddItem(cname, "NAME", env.gecos)
           most == IF env.id # << >> THEN f4
                   ELSE IF env.gecos = Absent THEN cname ELSE named
           name == IF env.id = << >> THEN env.gecos ELSE Field(env.id, 1)
<1>1. /\ env.cname \in Byte /\ env.gecos \in {Absent} \cup 1..255
      /\ env.id \in Seq(Byte)
  BY RtpAssumption DEF Byte
<1>2. Sdes(env) = AddItem(most, "TOOL", 21)
  BY DEF Sdes, AddId
<1>3. /\ FieldKind(1) = "NAME" /\ FieldKind(2) = "EMAIL"
      /\ FieldKind(3) = "PHONE" /\ FieldKind(4) = "LOC"
      /\ 1 \in Fields /\ 2 \in Fields /\ 3 \in Fields /\ 4 \in Fields
  BY DEF FieldKind, Fields
<1>4. /\ \A k \in Kinds : k \in {"CNAME", "NAME", "EMAIL", "PHONE", "LOC", "TOOL"}
      /\ {"CNAME", "NAME", "EMAIL", "PHONE", "LOC", "TOOL"} \subseteq Kinds
  BY DEF Kinds
<1>5. \A i : Field(env.id, i) \in {Absent} \cup Byte
  BY <1>1 DEF Field
<1>6. IsSdes(empty) /\ \A k \in Kinds : Says(empty.items, k, Absent)
  BY DEF IsSdes, Says
<1> HIDE DEF empty
<1>7. /\ IsSdes(cname) /\ Says(cname.items, "CNAME", env.cname)
      /\ \A k \in {"NAME", "EMAIL", "PHONE", "LOC", "TOOL"} : Says(cname.items, k, Absent)
  BY <1>1, <1>4, <1>6, ItemAdded
<1> HIDE DEF cname
<1>8. /\ IsSdes(f1) /\ Says(f1.items, "CNAME", env.cname)
      /\ Says(f1.items, "NAME", Field(env.id, 1))
      /\ \A k \in {"EMAIL", "PHONE", "LOC", "TOOL"} : Says(f1.items, k, Absent)
  BY <1>1, <1>3, <1>4, <1>7, FieldAdded
<1> HIDE DEF f1
<1>9. /\ IsSdes(f2) /\ Says(f2.items, "CNAME", env.cname)
      /\ Says(f2.items, "NAME", Field(env.id, 1))
      /\ Says(f2.items, "EMAIL", Field(env.id, 2))
      /\ \A k \in {"PHONE", "LOC", "TOOL"} : Says(f2.items, k, Absent)
  BY <1>1, <1>3, <1>4, <1>5, <1>8, FieldAdded
<1> HIDE DEF f2
<1>10. /\ IsSdes(f3) /\ Says(f3.items, "CNAME", env.cname)
       /\ Says(f3.items, "NAME", Field(env.id, 1))
       /\ Says(f3.items, "EMAIL", Field(env.id, 2))
       /\ \A k \in {"LOC", "TOOL"} : Says(f3.items, k, Absent)
  BY <1>1, <1>3, <1>4, <1>5, <1>9, FieldAdded
<1> HIDE DEF f3
<1>11. /\ IsSdes(f4) /\ Says(f4.items, "CNAME", env.cname)
       /\ Says(f4.items, "NAME", Field(env.id, 1))
       /\ Says(f4.items, "EMAIL", Field(env.id, 2))
       /\ Says(f4.items, "TOOL", Absent)
  BY <1>1, <1>3, <1>4, <1>5, <1>10, FieldAdded
<1> HIDE DEF f4
<1>12. ASSUME env.gecos # Absent
       PROVE  /\ IsSdes(named) /\ Says(named.items, "CNAME", env.cname)
              /\ Says(named.items, "NAME", env.gecos)
              /\ Says(named.items, "EMAIL", Absent)
              /\ Says(named.items, "TOOL", Absent)
  <2>1. env.gecos \in Byte
    BY <1>1, <1>12 DEF Byte
  <2>2. QED
    BY <1>1, <1>4, <1>7, <2>1, ItemAdded
<1> HIDE DEF named
<1>13. env.id = << >> => Field(env.id, 2) = Absent
  BY DEF Field
<1>14. /\ IsSdes(most) /\ Says(most.items, "CNAME", env.cname)
       /\ Says(most.items, "NAME", name)
       /\ Says(most.items, "EMAIL", Field(env.id, 2))
       /\ Says(most.items, "TOOL", Absent)
  <2>1. CASE env.id # << >>
    BY <1>11, <2>1
  <2>2. CASE env.id = << >> /\ env.gecos = Absent
    BY <1>7, <1>13, <2>2
  <2>3. CASE env.id = << >> /\ env.gecos # Absent
    BY <1>12, <1>13, <2>3
  <2>4. QED
    BY <2>1, <2>2, <2>3
<1>15. name \in {Absent} \cup Byte /\ 21 \in Byte
  BY <1>1, <1>5 DEF Byte
<1> HIDE DEF most, name
<1>16. QED
  <2>1. /\ IsSdes(Sdes(env)) /\ Says(Sdes(env).items, "CNAME", env.cname)
        /\ Says(Sdes(env).items, "NAME", name)
        /\ Says(Sdes(env).items, "EMAIL", Field(env.id, 2))
    BY <1>1, <1>2, <1>4, <1>5, <1>14, <1>15, ItemAdded
  <2>2. QED
    BY <2>1 DEF name

(* parseSDES() finds what the items say. *)
LEMMA FoundIs ==
  ASSUME NEW m, ItemsOf(m) \in Seq(Kinds \X Byte), NEW kind, NEW v, Says(ItemsOf(m), kind, v)
  PROVE  Found(m, kind) = v
<1> DEFINE items == ItemsOf(m)
           is == {i \in DOMAIN items : /\ items[i][1] = kind
                                       /\ \A j \in 1..i - 1 : items[j][2] < 256}
<1>1. Found(m, kind) = IF is = {} THEN Absent ELSE items[Min(is)][2] % 256
  BY DEF Found
<1>2. \A i \in DOMAIN items : items[i][2] \in Byte
  OBVIOUS
<1>3. \A i \in DOMAIN items : i \in Int /\ 1..i - 1 \subseteq DOMAIN items
  OBVIOUS
<1>4. is = {i \in DOMAIN items : items[i][1] = kind}
  <2>1. \A i \in DOMAIN items : \A j \in 1..i - 1 : items[j][2] < 256
    BY <1>2, <1>3, BytesAre
  <2> HIDE DEF items
  <2>2. ASSUME NEW i \in DOMAIN items, items[i][1] = kind
        PROVE  i \in is
    BY <2>1, <2>2
  <2>3. QED
    BY <2>2
<1> HIDE DEF is
<1>5. CASE v = Absent /\ \A i \in DOMAIN items : items[i][1] # kind
  BY <1>1, <1>4, <1>5
<1>6. ASSUME v \in Byte, NEW i \in DOMAIN items, items[i] = <<kind, v>>,
             \A j \in DOMAIN items : j # i => items[j][1] # kind
      PROVE  Found(m, kind) = v
  <2>1. is = {i}
    BY <1>4, <1>6
  <2>2. i \in Int
    BY <1>3
  <2>3. Min({i}) = i
    BY <2>2 DEF Min
  <2>4. items[i][2] = v /\ v % 256 = v
    BY <1>6, BytesAre
  <2>5. QED
    BY <1>1, <2>1, <2>3, <2>4
<1>7. QED
  BY <1>5, <1>6 DEF Says

LEMMA SpeakerKnown ==
  ASSUME NEW env \in Envs, NEW m \in Sent(MakeSdes(env))
  PROVE  Identity(m) = WhoSpeaks(env)
<1> DEFINE items == Sdes(env).items
           name == IF env.id = << >> THEN env.gecos ELSE Field(env.id, 1)
           email == Field(env.id, 2)
<1>1. /\ items \in Seq(Kinds \X Byte) /\ Sdes(env).bytes + 2 \in Nat
      /\ Says(items, "CNAME", env.cname)
      /\ Says(items, "NAME", name)
      /\ Says(items, "EMAIL", email)
  BY SdesSays DEF IsSdes
<1>2. m \in Sent(Composite("SDES", Sdes(env).bytes + 2, items))
  BY DEF MakeSdes
<1>3. m.subs = Composite("SDES", Sdes(env).bytes + 2, items).subs
  BY <1>1, <1>2, CompositeIs
<1>4. /\ DOMAIN m.subs = 1..2 /\ m.subs[1].pt # "SDES" /\ m.subs[2].pt = "SDES"
      /\ m.subs[2].items = items
  BY <1>3 DEF Composite, Report
<1> HIDE DEF items
<1>5. ItemsOf(m) = items
  <2>1. (CHOOSE i \in DOMAIN m.subs : m.subs[i].pt = "SDES") = 2
    BY <1>4
  <2>2. QED
    BY <1>4, <2>1 DEF ItemsOf
<1>6. /\ Found(m, "CNAME") = env.cname
      /\ Found(m, "NAME") = name
      /\ Found(m, "EMAIL") = email
  BY <1>1, <1>5, FoundIs
<1>7. /\ env.cname \in Byte /\ env.gecos \in {Absent} \cup 1..255
      /\ env.id \in Seq(Byte) /\ 1 \in Fields /\ 2 \in Fields
  BY RtpAssumption DEF Byte, Fields
<1>8. name \in {Absent} \cup 1..255 /\ email \in {Absent} \cup 1..255
  BY <1>7, FieldIs
<1>9. Identity(m) = IF name # Absent THEN [uname |-> name, email |-> email]
                    ELSE [uname |-> IF email # Absent THEN email ELSE env.cname,
                          email |-> Absent]
  BY <1>6 DEF Identity
<1> DEFINE said == IF env.id = << >> THEN env.gecos ELSE env.id[1]
           mailed == IF Len(env.id) < 2 THEN Absent ELSE env.id[2]
<1>10. \/ name = env.gecos /\ said = env.gecos
       \/ name = Absent /\ said = 0
       \/ name = said /\ said \in 1..255
  <2>1. CASE env.id = << >>
    BY <2>1
  <2>2. CASE env.id # << >>
    <3>1. Len(env.id) >= 1 /\ name = Field(env.id, 1) /\ said = env.id[1]
      BY <1>7, <2>2
    <3> HIDE DEF name, said
    <3>2. \/ Field(env.id, 1) = Absent /\ env.id[1] = 0
          \/ Field(env.id, 1) = env.id[1] /\ env.id[1] \in 1..255
      BY <1>7, <3>1, FieldIs
    <3>3. QED
      BY <3>1, <3>2
  <2>3. QED
    BY <2>1, <2>2
<1>11. \/ email = Absent /\ mailed = Absent
       \/ email = Absent /\ mailed = 0
       \/ email = mailed /\ mailed \in 1..255
  <2>1. CASE Len(env.id) < 2
    BY <1>7, <2>1, FieldIs
  <2>2. CASE ~(Len(env.id) < 2)
    <3>1. Len(env.id) >= 2 /\ mailed = env.id[2]
      BY <1>7, <2>2
    <3> HIDE DEF mailed
    <3>2. \/ email = Absent /\ mailed = 0
          \/ email = mailed /\ mailed \in 1..255
      BY <1>7, <3>1, FieldIs
    <3>3. QED
      BY <3>2
  <2>3. QED
    BY <2>1, <2>2
<1>12. WhoSpeaks(env) =
         CASE said > 0 -> [uname |-> said, email |-> IF mailed > 0 THEN mailed ELSE Absent]
           [] said <= 0 /\ mailed > 0 -> [uname |-> mailed, email |-> Absent]
           [] OTHER -> [uname |-> env.cname, email |-> Absent]
  BY DEF WhoSpeaks
<1> HIDE DEF name, email, said, mailed
<1>13. Absent \in Int /\ Absent <= 0 /\ \A n \in 1..255 : n \in Int /\ n > 0
  BY DEF Absent
<1>14. \/ name = Absent /\ said \in Int /\ said <= 0
       \/ name = said /\ said \in Int /\ said > 0
  <2>1. CASE name = env.gecos /\ said = env.gecos
    <3>1. env.gecos = Absent \/ env.gecos \in 1..255
      BY <1>7
    <3>2. QED
      BY <1>13, <2>1, <3>1
  <2>2. CASE name = Absent /\ said = 0
    BY <2>2
  <2>3. CASE name = said /\ said \in 1..255
    BY <1>13, <2>3
  <2>4. QED
    BY <1>10, <2>1, <2>2, <2>3
<1>15. \/ email = Absent /\ mailed \in Int /\ mailed <= 0
       \/ email = mailed /\ mailed \in Int /\ mailed > 0
  BY <1>11, <1>13
<1>16. QED
  BY <1>9, <1>14, <1>12, <1>15, <1>13

LEMMA TextsAre == Texts \subseteq 0..255
BY RtpAssumption

LEMMA ControlIs == ControlUnderstood
<1>1. ASSUME NEW env \in Envs, NEW m \in Sent(MakeSdes(env))
      PROVE  Has(m, "SDES") /\ ~Has(m, "BYE") /\ ~Has(m, "APP") /\ Identity(m) = WhoSpeaks(env)
  <2>1. Sdes(env).bytes + 2 \in Nat
    BY SdesSays DEF IsSdes
  <2>2. m \in Sent(Composite("SDES", Sdes(env).bytes + 2, Sdes(env).items))
    BY DEF MakeSdes
  <2>3. QED
    BY <2>1, <2>2, CompositeHas, SpeakerKnown
<1>2. ASSUME NEW n \in Texts, NEW m \in Sent(MakeBye(n))
      PROVE  Has(m, "BYE")
  <2> DEFINE bytes == 8 + (IF n > 0 THEN 1 + n ELSE 0)
  <2>1. bytes \in Nat
    BY TextsAre
  <2>2. m \in Sent(Composite("BYE", bytes, << >>))
    BY DEF MakeBye
  <2> HIDE DEF bytes
  <2>3. QED
    BY <2>1, <2>2, CompositeHas
<1>3. ASSUME NEW n \in Texts, NEW m \in Sent(MakeApp(n))
      PROVE  Has(m, "APP") /\ ~Has(m, "BYE")
  <2> DEFINE bytes == 12 + n + 1
  <2>1. bytes \in Nat
    BY TextsAre
  <2>2. m \in Sent(Composite("APP", bytes, << >>))
    BY DEF MakeApp
  <2> HIDE DEF bytes
  <2>3. QED
    BY <2>1, <2>2, CompositeHas
<1>4. QED
  BY <1>1, <1>2, <1>3 DEF ControlUnderstood

(* Sound. *)
LEMMA SoundIs == SoundReturned
<1> SUFFICES ASSUME NEW sb \in Sounds, NEW form \in {"rtp", "vat"},
                    NEW w \in {MakeSound(form, sb), EncryptSound(MakeSound(form, sb))}
             PROVE  /\ ReadSound(w) = sb
                    /\ form = "rtp" \/ MakeSound(form, sb).len % 8 = 0 => w.whole
  BY DEF SoundReturned
<1> DEFINE m == MakeSound(form, sb)
           header == SoundHeader(form)
           payload == CASE sb.codec = "gsm" -> sb.len - 2
                        [] sb.codec = "adpcm" -> sb.len + 1
                        [] sb.codec = "lpc" -> 14 * ((sb.len - 2) \div 14)
                        [] sb.codec = "pcmu" -> sb.len
<1>1. sb \in [codec : {"gsm", "adpcm", "lpc", "pcmu"}, len : Nat, samples : Int]
  BY RtpAssumption
<1>2. header \in {8, 12}
  BY DEF SoundHeader
<1>3. /\ DOMAIN m = {"form", "codec", "len", "pad", "whole"}
      /\ m.form = form /\ m.codec = sb.codec /\ m.len = header + payload
      /\ m.pad = 0 /\ m.whole = TRUE
  BY DEF MakeSound
<1>4. /\ sb.codec = "gsm" => sb.len = 2 + 33 * (sb.samples \div 160) /\ sb.samples % 160 = 0
      /\ sb.codec = "lpc" => sb.len = 2 + 14 * (sb.samples \div 160) /\ sb.samples % 160 = 0
      /\ sb.codec \in {"adpcm", "pcmu"} => sb.samples = Absent
  BY <1>1, RtpAssumption
<1>5. /\ sb.codec = "gsm" => /\ payload + 2 = sb.len
                             /\ (payload * 160) \div 33 = sb.samples
      /\ sb.codec = "lpc" => /\ payload + 2 = sb.len
                             /\ 160 * (payload \div 14) = sb.samples
      /\ sb.codec = "adpcm" => payload - 1 = sb.len
      /\ sb.codec = "pcmu" => payload = sb.len
      /\ payload \in Int
  <2> DEFINE n == sb.samples \div 160
  <2>1. sb.samples \in Int /\ n \in Int /\ sb.len \in Nat
    BY <1>1
  <2>2. sb.samples % 160 = 0 => sb.samples = 160 * n
    BY <2>1
  <2> HIDE DEF n
  <2>3. CASE sb.codec = "gsm"
    <3>1. sb.len = 2 + 33 * n /\ sb.samples = 160 * n
      BY <1>4, <2>2, <2>3 DEF n
    <3>2. payload = sb.len - 2
      BY <2>3
    <3> HIDE DEF payload
    <3>3. payload = 33 * n
      BY <2>1, <3>1, <3>2
    <3>4. (payload * 160) \div 33 = 160 * n
      BY <2>1, <3>3
    <3>5. QED
      BY <2>1, <2>3, <3>1, <3>3, <3>4
  <2>4. CASE sb.codec = "lpc"
    <3>1. sb.len = 2 + 14 * n /\ sb.samples = 160 * n
      BY <1>4, <2>2, <2>4 DEF n
    <3>2. payload = 14 * ((sb.len - 2) \div 14)
      BY <2>4
    <3> HIDE DEF payload
    <3>3. payload = 14 * n
      BY <2>1, <3>1, <3>2
    <3>4. payload \div 14 = n
      BY <2>1, <3>3
    <3>5. QED
      BY <2>1, <2>4, <3>1, <3>3, <3>4
  <2>5. CASE sb.codec \in {"adpcm", "pcmu"}
    BY <2>1, <2>5
  <2>6. QED
    BY <1>1, <2>3, <2>4, <2>5
<1> HIDE DEF m, header, payload
<1>6. /\ w.form = form /\ w.codec = sb.codec
      /\ w.len - header - w.pad = payload
      /\ form = "rtp" \/ m.len % 8 = 0 => w.whole
  <2>1. m.len \in Int /\ m.len - header = payload
    BY <1>2, <1>3, <1>5
  <2>2. CASE w = m
    <3>1. w.whole = TRUE /\ w.len = m.len /\ w.pad = 0
      BY <1>3, <2>2
    <3>2. w.len - header - w.pad = payload
      BY <1>2, <2>1, <3>1
    <3>3. QED
      BY <1>3, <2>2, <3>1, <3>2
  <2>3. CASE w = EncryptSound(m) /\ form = "rtp"
    <3>1. w = [m EXCEPT !.len = RoundUp(m.len, 8), !.pad = RoundUp(m.len, 8) - m.len]
      BY <1>3, <2>3 DEF EncryptSound
    <3>2. RoundUp(m.len, 8) \in Int
      BY <2>1 DEF RoundUp
    <3>3. /\ w.form = form /\ w.codec = sb.codec /\ w.whole = TRUE
          /\ w.len = RoundUp(m.len, 8) /\ w.pad = RoundUp(m.len, 8) - m.len
      BY <1>3, <3>1
    <3>4. QED
      BY <1>2, <1>5, <2>1, <3>2, <3>3
  <2>4. CASE w = EncryptSound(m) /\ form = "vat"
    <3>1. w = [m EXCEPT !.whole = m.len % 8 = 0]
      BY <1>3, <2>4 DEF EncryptSound
    <3>2. /\ w.form = form /\ w.codec = sb.codec /\ w.whole = (m.len % 8 = 0)
          /\ w.len = m.len /\ w.pad = 0
      BY <1>3, <3>1
    <3>3. w.len - header - w.pad = payload
      BY <1>2, <2>1, <3>2
    <3>4. QED
      BY <2>4, <3>2, <3>3
  <2>5. QED
    BY <2>2, <2>3, <2>4 DEF m
<1>7. ReadSound(w) =
        [codec |-> sb.codec,
         len |-> CASE sb.codec \in {"gsm", "lpc"} -> payload + 2
                   [] sb.codec = "adpcm" -> payload - 1
                   [] sb.codec = "pcmu" -> payload,
         samples |-> CASE sb.codec = "gsm" -> (payload * 160) \div 33
                       [] sb.codec = "lpc" -> 160 * (payload \div 14)
                       [] OTHER -> Absent]
  BY <1>6 DEF ReadSound, header
<1>8. sb = [codec |-> sb.codec, len |-> sb.len, samples |-> sb.samples]
  BY <1>1
<1>9. QED
  BY <1>1, <1>4, <1>5, <1>6, <1>7, <1>8 DEF m

(* Every variable of a conversation keeps its type, and every control packet *)
(* and every sound, of texts, fields and lengths that its headers can state, *)
(* is recognised as what it was sent as, encrypted or not.                   *)
THEOREM EverythingUnderstood == Spec => []Understood
<1>1. TypeOK => Understood
  BY ControlIs, SoundIs DEF Understood
<1>2. QED
  BY <1>1, TypeCorrect, PTL

-----------------------------------------------------------------------------
(* Sequence numbers: Robust. *)

(* The number packet n had, if sfmike was not started anew since; how far a  *)
(* number is ahead of the window in which packets are discarded.             *)
Place(n) == rseq - dests * (count + 1 - n)
Number(n) == Place(n) % 256
Ahead(seq) == (seq + 15 - con_rseq) % 256

RobustTypes ==
  /\ dests \in DestCounts
  /\ rseq \in 0..255 /\ con_rseq \in -1..255
  /\ count \in 0..MaxSent /\ played \in 0..newest /\ newest \in 0..count
  /\ flight \subseteq [n : 1..count, seq : 0..255, left : 1..Copies]
  /\ silent \in Nat /\ restarted \in BOOLEAN

(* What is under way has the number that goes with its place.                *)
FlightInv ==
  /\ count <= newest + MaxGap
  /\ \A p \in flight : p.n >= count - MaxLag /\ p.seq = Number(p.n)
  /\ \A p, q \in flight : p.n = q.n => p = q

(* The two ends keep a connection: the receiver knows what it played.        *)
InStep == con_rseq # -1 /\ ~restarted
StepInv ==
  InStep => con_rseq = Number(played) /\ silent = 0 /\ newest - played <= MaxLag

(* They do not: what comes is either in the window, and then every newer     *)
(* packet moves up in it, or sfmike begins at 0 and the connection at -1.    *)
Climbing == Ahead(Number(newest)) <= 15 /\ silent <= Ahead(Number(newest)) + 1
Fresh ==
  /\ con_rseq = -1 /\ silent <= 16
  /\ \E b \in newest..count : rseq = dests * (count - b) /\ \A p \in flight : p.n > b
LostInv ==
  ~InStep => /\ \A p \in flight : p.n > played
             /\ silent = 0 \/ Climbing \/ Fresh

RobustInv == RobustTypes /\ FlightInv /\ StepInv /\ LostInv

-----------------------------------------------------------------------------
LEMMA Times ==
  ASSUME NEW d \in Nat \ {0}, NEW a \in Int, NEW b \in Int, a <= b
  PROVE  /\ d * a \in Int /\ d * b \in Int /\ d * a <= d * b /\ d * (b - a) = d * b - d * a
         /\ a < b => d * a + 1 <= d * b
<1>1. /\ d * a \in Int /\ d * b \in Int /\ d * (b - a) \in Int
      /\ d * (b - a) = d * b - d * a
  BY SMT
<1>2. b - a \in Nat
  BY SMT
<1>3. d * (b - a) >= 0
  BY <1>2, SMT
<1>4. a < b => d * (b - a) >= 1
  BY <1>2, SMT
<1>5. QED
  BY <1>1, <1>3, <1>4

(* The test of sfspeaker: a number is discarded if it is one of the last 16. *)
LEMMA RejectsIs ==
  ASSUME con_rseq \in -1..255, NEW seq \in 0..255
  PROVE  Rejects(seq) <=> Ahead(seq) <= 15
<1>1. CASE seq >= con_rseq
  BY <1>1 DEF Rejects, Distance, Ahead
<1>2. CASE seq < con_rseq
  BY <1>2 DEF Rejects, Distance, Ahead
<1>3. QED
  BY <1>1, <1>2

(* Counter and place move on together. *)
LEMMA Later ==
  ASSUME NEW r \in Int, NEW x \in Int, NEW d \in Int
  PROVE  (((r + d) % 256) - (x + d)) % 256 = (r - x) % 256
OBVIOUS

-----------------------------------------------------------------------------
LEMMA RobustConstants ==
         /\ DestCounts \subseteq Nat \ {0} /\ Copies \in Nat \ {0} /\ Starts \subseteq 0..255
         /\ MaxSent \in Nat /\ MaxLag \in Nat /\ MaxGap \in Nat
BY RobustAssumption DEF RobustAssumption

(* How many numbers apart packets may be that are under way together, or     *)
(* that follow each other.                                                   *)
LEMMA PlacesOf ==
  ASSUME RobustTypes, InWindow, NEW m \in Int, NEW n \in Int, m <= n
  PROVE  /\ Place(m) \in Int /\ Place(n) \in Int
         /\ Place(m) <= Place(n) /\ (m < n => Place(m) < Place(n))
         /\ n - m <= MaxLag => Place(n) - Place(m) <= 15
         /\ n - m <= MaxLag + MaxGap => Place(n) - Place(m) <= 240
<1>1. /\ dests \in Nat \ {0} /\ rseq \in Int /\ count \in Int
      /\ MaxLag \in Nat /\ MaxGap \in Nat
  BY RobustConstants DEF RobustTypes
<1>2. Place(m) \in Int /\ Place(n) \in Int
  BY <1>1 DEF Place
<1>3. Place(n) - Place(m) = dests * (n - m)
  BY <1>1 DEF Place
<1>4. n - m \in Nat /\ dests * (n - m) \in Int
  BY <1>1
<1>5. dests * (n - m) >= 0 /\ (m < n => dests * (n - m) >= 1)
  <2>1. 0 <= n - m /\ dests * 0 = 0
    BY <1>1
  <2>2. QED
    BY <1>1, <1>4, <2>1, Times
<1>6. n - m <= MaxLag => dests * (n - m) <= dests * MaxLag
  BY <1>1, <1>4, Times
<1>7. n - m <= MaxLag + MaxGap => dests * (n - m) <= dests * (MaxLag + MaxGap)
  BY <1>1, <1>4, Times
<1>8. /\ dests * MaxLag <= 15 /\ dests * (MaxLag + MaxGap) <= 240
      /\ dests * MaxLag \in Int /\ dests * (MaxLag + MaxGap) \in Int
  BY <1>1 DEF InWindow, RobustTypes
<1> DEFINE x == dests * (n - m)
           y == dests * MaxLag
           z == dests * (MaxLag + MaxGap)
<1>9. /\ x \in Int /\ y \in Int /\ z \in Int /\ Place(n) - Place(m) = x
      /\ x >= 0 /\ (m < n => x >= 1) /\ y <= 15 /\ z <= 240
      /\ n - m <= MaxLag => x <= y
      /\ n - m <= MaxLag + MaxGap => x <= z
  BY <1>3, <1>4, <1>5, <1>6, <1>7, <1>8
<1> HIDE DEF x, y, z
<1>10. QED
  BY <1>2, <1>9

LEMMA NumberType ==
  ASSUME RobustTypes, NEW n \in Int
  PROVE  Place(n) \in Int /\ Number(n) \in 0..255 /\ Ahead(Number(n)) \in 0..255
<1>1. dests \in Nat /\ rseq \in Int /\ count \in Int /\ con_rseq \in -1..255
  BY RobustConstants DEF RobustTypes
<1>2. Place(n) \in Int
  BY <1>1 DEF Place
<1>3. Number(n) \in 0..255
  BY <1>2 DEF Number
<1>4. \A i \in Int : i % 256 \in 0..255
  OBVIOUS
<1>5. Number(n) + 15 - con_rseq \in Int
  BY <1>1, <1>3
<1>6. QED
  BY <1>2, <1>3, <1>4, <1>5 DEF Ahead

(* A packet that was overtaken is discarded. *)
LEMMA OlderIs ==
  ASSUME RobustTypes, InWindow, NEW m \in Int, NEW n \in Int, m <= n, n - m <= MaxLag,
         con_rseq = Number(n)
  PROVE  Ahead(Number(m)) <= 15
<1> DEFINE x == Place(n) - Place(m)
<1>1. Place(n) \in Int /\ Place(m) = Place(n) - x /\ x \in 0..15
  <2>1. /\ Place(n) \in Int /\ Place(m) \in Int /\ Place(m) <= Place(n)
        /\ Place(n) - Place(m) <= 15
    BY PlacesOf
  <2>2. QED
    BY <2>1
<1> HIDE DEF x
<1>2. Ahead(Number(m)) = 15 - x
  BY <1>1 DEF Ahead, Number
<1>3. QED
  BY <1>1, <1>2

(* A newer one is not. *)
LEMMA NewerIs ==
  ASSUME RobustTypes, InWindow, NEW m \in Int, NEW n \in Int, m < n,
         n - m <= MaxLag + MaxGap, con_rseq = Number(m)
  PROVE  Ahead(Number(n)) > 15
<1> DEFINE x == Place(n) - Place(m)
<1>1. Place(n) \in Int /\ Place(m) = Place(n) - x /\ x \in 1..240
  <2>1. m <= n
    OBVIOUS
  <2>2. /\ Place(n) \in Int /\ Place(m) \in Int /\ Place(m) < Place(n)
        /\ Place(n) - Place(m) <= 240
    BY <2>1, PlacesOf
  <2>3. QED
    BY <2>2
<1> HIDE DEF x
<1>2. Ahead(Number(n)) = 15 + x
  BY <1>1 DEF Ahead, Number
<1>3. QED
  BY <1>1, <1>2

(* A newer one moves up in the window, or out of it. *)
LEMMA ClimbsIs ==
  ASSUME RobustTypes, InWindow, NEW m \in Int, NEW n \in Int, m < n,
         n - m <= MaxLag + MaxGap, Ahead(Number(m)) <= 15
  PROVE  Ahead(Number(n)) >= Ahead(Number(m)) + 1
<1> DEFINE x == Place(n) - Place(m)
<1>1. Place(n) \in Int /\ Place(m) = Place(n) - x /\ x \in 1..240
  <2>1. m <= n
    OBVIOUS
  <2>2. /\ Place(n) \in Int /\ Place(m) \in Int /\ Place(m) < Place(n)
        /\ Place(n) - Place(m) <= 240
    BY <2>1, PlacesOf
  <2>3. QED
    BY <2>2
<1> HIDE DEF x
<1>2. con_rseq \in -1..255
  BY DEF RobustTypes
<1>3. Ahead(Number(n)) = Ahead(Number(m)) + x
  <2> DEFINE r == Place(n)
  <2>1. (((r - x) % 256) + 15 - con_rseq) % 256 <= 15
    BY <1>1 DEF Ahead, Number
  <2>2. r \in Int
    BY <1>1
  <2> HIDE DEF r
  <2>3. ((r % 256) + 15 - con_rseq) % 256 = ((((r - x) % 256) + 15 - con_rseq) % 256) + x
    BY <1>1, <1>2, <2>1, <2>2
  <2>4. Ahead(Number(n)) = ((r % 256) + 15 - con_rseq) % 256
    BY DEF Ahead, Number, r
  <2>5. Ahead(Number(m)) = (((r - x) % 256) + 15 - con_rseq) % 256
    BY <1>1 DEF Ahead, Number, r
  <2>6. QED
    BY <2>3, <2>4, <2>5, Zenon
<1>4. Ahead(Number(m)) \in Int
  <2>1. Ahead(Number(m)) \in 0..255
    BY NumberType
  <2>2. QED
    BY <2>1
<1>5. x \in Int /\ x >= 1
  BY <1>1
<1>6. QED
  BY <1>3, <1>4, <1>5

-----------------------------------------------------------------------------
LEMMA RobustStart == RobustInit => RobustInv
<1> SUFFICES ASSUME RobustInit PROVE RobustInv
  OBVIOUS
<1>1. RobustTypes
  <2>1. flight \subseteq [n : 1..count, seq : 0..255, left : 1..Copies]
    BY DEF RobustInit
  <2>2. rseq \in 0..255 /\ con_rseq \in -1..255 /\ count \in 0..MaxSent
    BY RobustConstants DEF RobustInit
  <2>3. played \in 0..newest /\ newest \in 0..count /\ silent \in Nat
    BY DEF RobustInit
  <2>4. QED
    BY <2>1, <2>2, <2>3 DEF RobustInit, RobustTypes
<1>2. FlightInv
  BY RobustConstants DEF RobustInit, FlightInv
<1>3. StepInv /\ LostInv
  BY DEF RobustInit, StepInv, LostInv, InStep
<1>4. QED
  BY <1>1, <1>2, <1>3 DEF RobustInv

(* What a state says of the packets under way. *)
LEMMA NumberFacts ==
  ASSUME RobustTypes
  PROVE  /\ dests \in Nat \ {0} /\ rseq \in 0..255 /\ con_rseq \in -1..255
         /\ count \in Nat /\ played \in Nat /\ newest \in Nat /\ silent \in Nat
         /\ played <= newest /\ newest <= count
         /\ MaxLag \in Nat /\ MaxGap \in Nat
         /\ \A p \in flight : /\ p.n \in 1..count /\ p.n \in Nat /\ p.seq \in 0..255
                             /\ p.left \in 1..Copies
<1>1. \A p \in flight : p \in [n : 1..count, seq : 0..255, left : 1..Copies]
  BY DEF RobustTypes
<1>2. QED
  BY <1>1, RobustConstants DEF RobustTypes

(* While the two ends keep their connection a packet is played if it is      *)
(* newer than the one played last, and only then.                            *)
LEMMA InStepPlays ==
  ASSUME RobustInv, InWindow, InStep, NEW p \in flight
  PROVE  Rejects(p.seq) <=> p.n <= played
<1>1. RobustTypes
  BY DEF RobustInv
<1>2. /\ p.n \in Nat /\ p.n <= count /\ p.seq \in 0..255 /\ con_rseq \in -1..255
      /\ played \in Nat /\ newest \in Nat /\ count \in Nat /\ MaxLag \in Nat
      /\ MaxGap \in Nat /\ played <= newest /\ newest <= count
  BY <1>1, NumberFacts
<1>3. /\ p.n >= count - MaxLag /\ p.seq = Number(p.n) /\ con_rseq = Number(played)
      /\ newest - played <= MaxLag /\ count <= newest + MaxGap
  BY DEF RobustInv, FlightInv, StepInv
<1>4. Rejects(p.seq) <=> Ahead(p.seq) <= 15
  BY <1>2, RejectsIs
<1>5. CASE p.n <= played
  <2>1. played - p.n <= MaxLag
    BY <1>2, <1>3
  <2>2. Ahead(Number(p.n)) <= 15
    BY <1>1, <1>2, <1>3, <1>5, <2>1, OlderIs
  <2>3. QED
    BY <1>3, <1>4, <1>5, <2>2
<1>6. CASE played < p.n
  <2>1. p.n - played <= MaxLag + MaxGap
    BY <1>2, <1>3
  <2>2. Ahead(Number(p.n)) > 15
    BY <1>1, <1>2, <1>3, <1>6, <2>1, NewerIs
  <2>3. Ahead(Number(p.n)) \in 0..255
    BY <1>1, <1>2, NumberType
  <2>4. QED
    BY <1>2, <1>3, <1>4, <1>6, <2>2, <2>3
<1>7. QED
  BY <1>2, <1>5, <1>6

(* While they do not, a newer packet that is discarded has moved up by one   *)
(* place at least, or it is the first to be discarded.                       *)
LEMMA LostClimbs ==
  ASSUME RobustInv, InWindow, ~InStep, NEW p \in flight, Rejects(p.seq), p.n > newest
  PROVE  Ahead(p.seq) <= 15 /\ silent <= Ahead(p.seq)
<1>1. RobustTypes
  BY DEF RobustInv
<1>2. /\ p.n \in Nat /\ p.n <= count /\ p.seq \in 0..255 /\ con_rseq \in -1..255
      /\ newest \in Nat /\ count \in Nat /\ MaxLag \in Nat /\ silent \in Nat
      /\ MaxGap \in Nat /\ newest <= count /\ rseq \in 0..255 /\ dests \in Nat \ {0}
  BY <1>1, NumberFacts
<1>3. p.seq = Number(p.n) /\ count <= newest + MaxGap
  BY DEF RobustInv, FlightInv
<1>4. Ahead(p.seq) <= 15 /\ Ahead(p.seq) \in 0..255
  BY <1>1, <1>2, <1>3, RejectsIs, NumberType
<1>5. CASE silent = 0
  BY <1>4, <1>5
<1>6. CASE Climbing
  <2>1. newest < p.n /\ p.n - newest <= MaxLag + MaxGap
    BY <1>2, <1>3
  <2>2. Ahead(Number(newest)) <= 15 /\ silent <= Ahead(Number(newest)) + 1
    BY <1>6 DEF Climbing
  <2>3. Ahead(Number(p.n)) >= Ahead(Number(newest)) + 1
    BY <1>1, <1>2, <2>1, <2>2, ClimbsIs
  <2>4. Ahead(Number(newest)) \in 0..255
    BY <1>1, <1>2, NumberType
  <2>5. QED
    BY <1>2, <1>3, <1>4, <2>2, <2>3, <2>4
<1>7. CASE Fresh
  <2>1. PICK b \in newest..count : rseq = dests * (count - b) /\ \A q \in flight : q.n > b
    BY <1>7 DEF Fresh
  <2>2. b < p.n /\ b \in Int /\ con_rseq = -1
    BY <1>2, <1>7, <2>1 DEF Fresh
  <2>3. Place(b + 1) = 0 /\ Place(b) = 0 - dests
    BY <1>2, <2>1, <2>2 DEF Place
  <2>4. Place(p.n) \in 0..239
    <3>1. /\ b <= p.n /\ p.n - b <= MaxLag + MaxGap /\ b < p.n
      BY <1>2, <1>3, <2>1, <2>2
    <3>2. Place(p.n) - Place(b) <= 240 /\ Place(b) \in Int /\ Place(p.n) \in Int
      BY <1>1, <1>2, <2>2, <3>1, PlacesOf
    <3>3. b + 1 <= p.n /\ b + 1 \in Int
      BY <1>2, <2>2
    <3>4. Place(b + 1) <= Place(p.n)
      BY <1>1, <1>2, <3>3, PlacesOf
    <3>5. QED
      BY <1>2, <2>3, <3>2, <3>4
  <2>5. QED
    BY <1>3, <1>4, <2>2, <2>4 DEF Ahead, Number
<1>8. QED
  BY <1>5, <1>6, <1>7 DEF RobustInv, LostInv

LEMMA NumberKept ==
  ASSUME RobustTypes, Send, NEW n \in Int
  PROVE  Number(n)' = Number(n) /\ (n = count + 1 => Number(n)' = rseq)
<1>1. dests \in Int /\ rseq \in 0..255 /\ count \in Int
  BY NumberFacts
<1>2. rseq' = (rseq + dests) % 256 /\ count' = count + 1 /\ dests' = dests
  BY DEF Send, Advance
<1> DEFINE x == dests * (count + 1 - n)
<1>3. x \in Int /\ dests * (count + 1 + 1 - n) = x + dests
  BY <1>1
<1>4. Number(n)' = (rseq' - (x + dests)) % 256
  BY <1>2, <1>3 DEF Number, Place
<1>5. Number(n) = (rseq - x) % 256
  BY DEF Number, Place
<1> HIDE DEF x
<1>6. Number(n)' = Number(n)
  BY <1>1, <1>2, <1>3, <1>4, <1>5, Later
<1>7. n = count + 1 => x = 0
  BY <1>1 DEF x
<1>8. (((rseq + dests) % 256) - dests) % 256 = rseq
  BY <1>1
<1>9. QED
  BY <1>1, <1>2, <1>4, <1>6, <1>7, <1>8

LEMMA SendKeeps ==
  ASSUME RobustInv, InWindow, Send
  PROVE  RobustInv'
<1>1. RobustTypes /\ FlightInv /\ StepInv /\ LostInv
  BY DEF RobustInv
<1>2. /\ dests \in Nat \ {0} /\ rseq \in 0..255 /\ con_rseq \in -1..255
      /\ count \in Nat /\ played \in Nat /\ newest \in Nat /\ silent \in Nat
      /\ played <= newest /\ newest <= count /\ MaxLag \in Nat /\ MaxGap \in Nat
  BY <1>1, NumberFacts
<1>3. /\ count < MaxSent /\ count < newest + MaxGap /\ count' = count + 1
      /\ rseq' = (rseq + dests) % 256
      /\ UNCHANGED <<dests, con_rseq, played, newest, silent, restarted>>
  BY DEF Send, Advance
<1> DEFINE new == [n |-> count + 1, seq |-> rseq, left |-> Copies]
<1>4. \A p \in flight' : p = new \/ (p \in flight /\ p.n > count - MaxLag)
  BY DEF Send
<1>5. new.n = count + 1 /\ new.seq = rseq /\ new.left = Copies
  OBVIOUS
<1>6. new \in [n : 1..count + 1, seq : 0..255, left : 1..Copies]
  BY <1>2, RobustConstants
<1> HIDE DEF new
<1>7. RobustTypes'
  <2>1. flight' \subseteq [n : 1..count + 1, seq : 0..255, left : 1..Copies]
    <3>1. flight \subseteq [n : 1..count + 1, seq : 0..255, left : 1..Copies]
      BY <1>1, <1>2 DEF RobustTypes
    <3>2. QED
      BY <1>4, <1>6, <3>1
  <2>2. rseq' \in 0..255
    BY <1>2, <1>3
  <2>3. count' \in 0..MaxSent /\ newest' \in 0..count'
    BY <1>2, <1>3, RobustConstants
  <2>4. QED
    BY <1>1, <1>3, <2>1, <2>2, <2>3 DEF RobustTypes
<1>8. \A p \in flight : p.n \in Nat /\ p.n <= count
  BY <1>1, <1>2, NumberFacts
<1>9. FlightInv'
  <2>1. count' <= newest' + MaxGap
    BY <1>2, <1>3
  <2>2. ASSUME NEW p \in flight'
        PROVE  p.n >= count' - MaxLag /\ p.seq = Number(p.n)'
    <3>1. CASE p = new
      BY <1>1, <1>2, <1>3, <1>5, <3>1, NumberKept
    <3>2. CASE p \in flight /\ p.n > count - MaxLag
      <4>1. p.n \in Int /\ p.seq = Number(p.n)
        BY <1>1, <1>8, <3>2 DEF FlightInv
      <4>2. Number(p.n)' = Number(p.n)
        BY <1>1, <4>1, NumberKept
      <4>3. p.n >= count' - MaxLag
        BY <1>2, <1>3, <3>2, <4>1
      <4>4. QED
        BY <4>1, <4>2, <4>3
    <3>3. QED
      BY <1>4, <3>1, <3>2
  <2>3. ASSUME NEW p \in flight', NEW q \in flight', p.n = q.n
        PROVE  p = q
    <3>1. CASE p \in flight /\ q \in flight
      BY <1>1, <2>3, <3>1 DEF FlightInv
    <3>2. p \in flight => p.n # new.n
      BY <1>2, <1>5, <1>8
    <3>3. q \in flight => q.n # new.n
      BY <1>2, <1>5, <1>8
    <3>4. QED
      BY <1>4, <2>3, <3>1, <3>2, <3>3
  <2>4. QED
    BY <1>3, <2>1, <2>2, <2>3 DEF FlightInv
<1>10. Number(played)' = Number(played) /\ Number(newest)' = Number(newest)
  <2>1. ASSUME NEW n \in Int
        PROVE  /\ n = played => Number(played)' = Number(played)
               /\ n = newest => Number(newest)' = Number(newest)
    <3>1. Number(n)' = Number(n)
      BY <1>1, NumberKept
    <3>2. QED
      BY <1>3, <3>1 DEF Number, Place
  <2>2. QED
    BY <1>2, <2>1
<1>11. InStep' <=> InStep
  BY <1>3 DEF InStep
<1>12. StepInv'
  BY <1>1, <1>3, <1>10, <1>11 DEF StepInv
<1>13. LostInv'
  <2>1. SUFFICES ASSUME ~InStep
                 PROVE  /\ \A p \in flight' : p.n > played
                        /\ silent = 0 \/ Climbing' \/ Fresh'
    BY <1>3, <1>11 DEF LostInv
  <2>2. \A p \in flight' : p.n > played
    BY <1>1, <1>2, <1>4, <1>5, <2>1 DEF LostInv
  <2>3. Climbing => Climbing'
    BY <1>3, <1>10 DEF Climbing, Ahead
  <2>4. ASSUME Fresh PROVE Fresh'
    <3>1. PICK b \in newest..count : rseq = dests * (count - b) /\ \A q \in flight : q.n > b
      BY <2>4 DEF Fresh
    <3>2. b \in newest'..count' /\ \A q \in flight' : q.n > b
      BY <1>2, <1>3, <1>4, <1>5, <3>1
    <3>3. dests * (count + 1 - b) <= 240 /\ dests * (count + 1 - b) \in Int
      <4>1. count + 1 - b \in Nat /\ count + 1 - b <= MaxLag + MaxGap
        BY <1>2, <1>3, <3>1
      <4>2. dests * (count + 1 - b) <= dests * (MaxLag + MaxGap)
        BY <1>2, <4>1, Times
      <4>3. dests * (MaxLag + MaxGap) <= 240
        BY <1>1 DEF InWindow, RobustTypes
      <4>4. dests * (count + 1 - b) \in Int /\ dests * (MaxLag + MaxGap) \in Int
        BY <1>2, <4>1
      <4>5. QED
        BY <4>2, <4>3, <4>4
    <3>4. dests * (count + 1 - b) = dests * (count - b) + dests
      BY <1>2, <3>1
    <3>5. rseq' = dests' * (count' - b)
      BY <1>2, <1>3, <3>1, <3>3, <3>4
    <3>6. QED
      BY <1>3, <2>4, <3>2, <3>5 DEF Fresh
  <2>5. QED
    BY <1>1, <2>1, <2>2, <2>3, <2>4 DEF LostInv
<1>14. QED
  BY <1>7, <1>9, <1>12, <1>13 DEF RobustInv

(* What is under way after a copy arrived was under way before. *)
LEMMA ArriveLeaves ==
  ASSUME RobustTypes, FlightInv, NEW p \in flight, Arrive(p)
  PROVE  /\ flight' \subseteq [n : 1..count, seq : 0..255, left : 1..Copies]
         /\ \A q \in flight' : \E o \in flight : q.n = o.n /\ q.seq = o.seq
         /\ \A q, o \in flight' : q.n = o.n => q = o
<1> DEFINE less == [p EXCEPT !.left = @ - 1]
<1>1. /\ p \in [n : 1..count, seq : 0..255, left : 1..Copies] /\ Copies \in Nat
      /\ flight \subseteq [n : 1..count, seq : 0..255, left : 1..Copies]
  BY RobustConstants DEF RobustTypes
<1>2. \A q \in flight' : (q \in flight /\ q # p) \/ (q = less /\ p.left # 1)
  BY DEF Arrive
<1>3. less.n = p.n /\ less.seq = p.seq
  BY <1>1
<1>4. p.left # 1 => less \in [n : 1..count, seq : 0..255, left : 1..Copies]
  BY <1>1
<1>5. \A q, o \in flight : q.n = o.n => q = o
  BY DEF FlightInv
<1> HIDE DEF less
<1>6. flight' \subseteq [n : 1..count, seq : 0..255, left : 1..Copies]
  BY <1>1, <1>2, <1>4
<1>7. ASSUME NEW q \in flight'
      PROVE  \E o \in flight : q.n = o.n /\ q.seq = o.seq
  BY <1>2, <1>3, <1>7
<1>8. ASSUME NEW q \in flight', NEW o \in flight', q.n = o.n
      PROVE  q = o
  BY <1>2, <1>3, <1>5, <1>8
<1>9. QED
  BY <1>6, <1>7, <1>8

LEMMA ArriveKeeps ==
  ASSUME RobustInv, InWindow, NEW p \in flight, Arrive(p)
  PROVE  /\ RobustInv'
         /\ played' # played => played' > played
         /\ newest' # newest /\ InStep => played' = newest'
<1>1. RobustTypes /\ FlightInv /\ StepInv /\ LostInv
  BY DEF RobustInv
<1>2. /\ con_rseq \in -1..255 /\ count \in Nat /\ played \in Nat /\ newest \in Nat
      /\ silent \in Nat /\ played <= newest /\ newest <= count
      /\ MaxLag \in Nat /\ MaxGap \in Nat
      /\ p.n \in Nat /\ p.n >= 1 /\ p.n <= count /\ p.seq \in 0..255
  BY <1>1, NumberFacts
<1>3. /\ newest' = IF p.n > newest THEN p.n ELSE newest
      /\ UNCHANGED <<dests, rseq, count>>
  BY DEF Arrive
<1>4. /\ newest' \in 0..count /\ newest <= newest' /\ p.n <= newest'
      /\ p.n <= newest => newest' = newest
      /\ p.n > newest => newest' = p.n
  BY <1>2, <1>3
<1>5. /\ p.n >= count - MaxLag /\ p.seq = Number(p.n)
      /\ count <= newest + MaxGap
  BY <1>1 DEF FlightInv
<1>6. /\ flight' \subseteq [n : 1..count, seq : 0..255, left : 1..Copies]
      /\ \A q \in flight' : \E o \in flight : q.n = o.n /\ q.seq = o.seq
      /\ \A q, o \in flight' : q.n = o.n => q = o
  BY <1>1, ArriveLeaves
<1>7. FlightInv'
  <2>1. count' <= newest' + MaxGap
    BY <1>2, <1>3, <1>4, <1>5
  <2>2. ASSUME NEW q \in flight'
        PROVE  q.n >= count' - MaxLag /\ q.seq = Number(q.n)'
    <3>1. PICK o \in flight : q.n = o.n /\ q.seq = o.seq
      BY <1>6
    <3>2. o.n >= count - MaxLag /\ o.seq = Number(o.n)
      BY <1>1 DEF FlightInv
    <3>3. Number(q.n)' = Number(q.n)
      BY <1>3 DEF Number, Place
    <3>4. QED
      BY <1>3, <3>1, <3>2, <3>3
  <2>3. QED
    BY <1>6, <2>1, <2>2 DEF FlightInv
<1>8. CASE ~Rejects(p.seq)
  <2>1. con_rseq' = p.seq /\ played' = p.n /\ silent' = 0 /\ restarted' = FALSE
    BY <1>8 DEF Arrive
  <2>2. RobustTypes'
    <3>1. /\ silent' \in Nat /\ played' \in 0..newest' /\ newest' \in 0..count'
          /\ con_rseq' \in -1..255
      BY <1>2, <1>3, <1>4, <2>1
    <3>2. QED
      BY <1>1, <1>3, <1>6, <2>1, <3>1 DEF RobustTypes
  <2>3. InStep'
    BY <1>2, <2>1 DEF InStep
  <2>4. StepInv'
    <3>1. Number(played)' = Number(p.n)
      BY <1>3, <2>1 DEF Number, Place
    <3>2. newest' - played' <= MaxLag
      BY <1>2, <1>4, <1>5, <2>1
    <3>3. QED
      BY <1>5, <2>1, <3>1, <3>2 DEF StepInv
  <2>5. LostInv'
    BY <2>3 DEF LostInv
  <2>6. p.n > played
    <3>1. InStep => p.n > played
      BY <1>2, <1>8, InStepPlays
    <3>2. ~InStep => p.n > played
      BY <1>1 DEF LostInv
    <3>3. QED
      BY <3>1, <3>2
  <2>7. newest' # newest => played' = newest'
    BY <1>4, <1>2, <2>1
  <2>8. QED
    BY <1>7, <2>1, <2>2, <2>4, <2>5, <2>6, <2>7 DEF RobustInv
<1>9. CASE Rejects(p.seq)
  <2>1. /\ UNCHANGED <<con_rseq, played, restarted>>
        /\ silent' = IF p.n > newest THEN silent + 1 ELSE silent
    BY <1>9 DEF Arrive
  <2>2. RobustTypes'
    <3>1. silent' \in Nat /\ played' \in 0..newest' /\ newest' \in 0..count'
      BY <1>2, <1>3, <1>4, <2>1
    <3>2. QED
      BY <1>1, <1>3, <1>6, <2>1, <3>1 DEF RobustTypes
  <2>3. InStep' <=> InStep
    BY <2>1 DEF InStep
  <2>4. InStep => newest' = newest /\ silent' = silent
    <3>1. InStep => p.n <= played
      BY <1>9, InStepPlays
    <3>2. QED
      BY <1>2, <1>4, <2>1, <3>1
  <2>5. Number(played)' = Number(played)
    BY <1>3, <2>1 DEF Number, Place
  <2>6. StepInv'
    BY <1>1, <2>1, <2>3, <2>4, <2>5 DEF StepInv
  <2>7. LostInv'
    <3>1. SUFFICES ASSUME ~InStep
                   PROVE  /\ \A q \in flight' : q.n > played
                          /\ silent' = 0 \/ Climbing' \/ Fresh'
      BY <2>1, <2>3 DEF LostInv
    <3>2. \A q \in flight' : q.n > played
      BY <1>1, <1>6, <3>1 DEF LostInv
    <3>3. CASE p.n > newest
      <4>1. Ahead(p.seq) <= 15 /\ silent <= Ahead(p.seq)
        BY <1>9, <3>1, <3>3, LostClimbs
      <4>2. newest' = p.n /\ silent' = silent + 1
        BY <1>4, <2>1, <3>3
      <4>3. Ahead(Number(newest))' = Ahead(p.seq)
        <5>1. Number(newest)' = Number(p.n)
          BY <1>3, <4>2 DEF Number, Place
        <5>2. QED
          BY <1>5, <2>1, <5>1 DEF Ahead
      <4>4. Ahead(p.seq) \in 0..255
        BY <1>1, <1>2, <1>5, NumberType
      <4>5. Climbing'
        BY <1>2, <4>1, <4>2, <4>3, <4>4 DEF Climbing
      <4>6. QED
        BY <3>2, <4>5
    <3>4. CASE p.n <= newest
      <4>1. newest' = newest /\ silent' = silent
        BY <1>2, <1>4, <2>1, <3>4
      <4>2. Number(newest)' = Number(newest)
        BY <1>3, <4>1 DEF Number, Place
      <4>3. Climbing => Climbing'
        BY <2>1, <4>1, <4>2 DEF Climbing, Ahead
      <4>4. ASSUME Fresh PROVE Fresh'
        <5>1. PICK b \in newest..count :
                     rseq = dests * (count - b) /\ \A q \in flight : q.n > b
          BY <4>4 DEF Fresh
        <5>2. rseq' = dests' * (count' - b) /\ \A q \in flight' : q.n > b
          BY <1>3, <1>6, <5>1
        <5>3. QED
          BY <1>3, <2>1, <4>1, <4>4, <5>1, <5>2 DEF Fresh
      <4>5. QED
        BY <1>1, <3>1, <3>2, <4>1, <4>3, <4>4 DEF LostInv
    <3>5. QED
      BY <1>2, <3>3, <3>4
  <2>8. QED
    BY <1>7, <2>1, <2>2, <2>4, <2>6, <2>7 DEF RobustInv
<1>10. QED
  BY <1>8, <1>9

LEMMA GoIdleKeeps ==
  ASSUME RobustInv, GoIdle
  PROVE  RobustInv'
<1>1. RobustTypes /\ FlightInv
  BY DEF RobustInv
<1>2. /\ flight = {} /\ con_rseq' = -1 /\ silent' = 0
      /\ UNCHANGED <<dests, rseq, count, flight, played, newest, restarted>>
  BY DEF GoIdle
<1>3. RobustTypes'
  BY <1>1, <1>2 DEF RobustTypes
<1>4. FlightInv'
  BY <1>1, <1>2 DEF FlightInv
<1>5. ~InStep'
  BY <1>2 DEF InStep
<1>6. StepInv' /\ LostInv'
  BY <1>2, <1>5 DEF StepInv, LostInv
<1>7. QED
  BY <1>3, <1>4, <1>6 DEF RobustInv

LEMMA RestartKeeps ==
  ASSUME RobustInv, Restart
  PROVE  RobustInv'
<1>1. RobustTypes /\ FlightInv /\ StepInv /\ LostInv
  BY DEF RobustInv
<1>2. /\ flight = {} /\ ~restarted /\ rseq' = 0 /\ restarted' = TRUE
      /\ UNCHANGED <<dests, count, flight, con_rseq, played, newest, silent>>
  BY DEF Restart
<1>3. RobustTypes'
  BY <1>1, <1>2 DEF RobustTypes
<1>4. FlightInv'
  BY <1>1, <1>2 DEF FlightInv
<1>5. ~InStep'
  BY <1>2 DEF InStep
<1>6. InStep => silent = 0
  BY <1>1 DEF StepInv
<1>7. ~InStep => silent = 0 \/ Fresh'
  <2>1. SUFFICES ASSUME ~InStep, silent # 0
                 PROVE  Fresh'
    OBVIOUS
  <2>2. con_rseq = -1
    BY <1>2, <2>1 DEF InStep
  <2>3. silent <= 16
    <3>1. Climbing => silent <= 16
      <4>1. Ahead(Number(newest)) \in 0..255 /\ silent \in Nat
        BY <1>1, NumberFacts, NumberType
      <4>2. QED
        BY <4>1 DEF Climbing
    <3>2. Fresh => silent <= 16
      BY DEF Fresh
    <3>3. QED
      BY <1>1, <2>1, <3>1, <3>2 DEF LostInv
  <2>4. /\ count' \in newest'..count' /\ rseq' = dests' * (count' - count')
        /\ \A q \in flight' : q.n > count'
    BY <1>1, <1>2, NumberFacts
  <2>5. QED
    BY <1>2, <2>2, <2>3, <2>4 DEF Fresh
<1>8. StepInv' /\ LostInv'
  BY <1>2, <1>5, <1>6, <1>7 DEF StepInv, LostInv
<1>9. QED
  BY <1>3, <1>4, <1>8 DEF RobustInv

(* No more packets are under way than can be overtaken. *)
LEMMA FewUnderWay ==
  ASSUME RobustTypes, FlightInv
  PROVE  Cardinality(flight) <= MaxLag + 1
<1> DEFINE f == [p \in flight |-> p.n]
           T == count - MaxLag .. count
<1>1. count \in Nat /\ MaxLag \in Nat /\ \A p \in flight : p.n \in Nat /\ p.n <= count
  BY NumberFacts
<1>2. \A p \in flight : f[p] \in T
  BY <1>1 DEF FlightInv
<1>3. \A p, q \in flight : f[p] = f[q] => p = q
  BY DEF FlightInv
<1>4. f \in Injection(flight, T)
  BY <1>2, <1>3 DEF Injection, IsInjective
<1>5. IsFiniteSet(T) /\ Cardinality(T) = MaxLag + 1
  BY <1>1, FS_Interval
<1>6. Cardinality(flight) <= Cardinality(T)
  BY <1>4, <1>5, FS_Injection
<1>7. QED
  BY <1>5, <1>6

LEMMA InvShort ==
  ASSUME RobustInv
  PROVE  ShortSilence
<1>1. RobustTypes /\ FlightInv /\ StepInv /\ LostInv
  BY DEF RobustInv
<1>2. /\ dests \in DestCounts /\ rseq \in 0..255 /\ con_rseq \in -1..255
      /\ count \in 0..MaxSent /\ played \in 0..newest /\ newest \in 0..count
      /\ silent \in Nat /\ restarted \in BOOLEAN
  BY <1>1 DEF RobustTypes
<1>3. ASSUME NEW p \in flight
      PROVE  p \in [n : count - MaxLag..count, seq : 0..255, left : 1..Copies]
  <2>1. p \in [n : 1..count, seq : 0..255, left : 1..Copies] /\ p.n >= count - MaxLag
    BY <1>1 DEF RobustTypes, FlightInv
  <2>2. count \in Nat /\ MaxLag \in Nat
    BY <1>1, NumberFacts
  <2>3. QED
    BY <2>1, <2>2
<1>4. NumbersOK
  BY <1>1, <1>2, <1>3, FewUnderWay DEF NumbersOK
<1>5. silent <= 16
  <2>1. Climbing => silent <= 16
    <3>1. Ahead(Number(newest)) \in 0..255 /\ silent \in Nat
      BY <1>1, NumberFacts, NumberType
    <3>2. QED
      BY <3>1 DEF Climbing
  <2>2. Fresh => silent <= 16
    BY DEF Fresh
  <2>3. InStep => silent = 0
    BY <1>1 DEF StepInv
  <2>4. QED
    BY <1>1, <2>1, <2>2, <2>3 DEF LostInv
<1>6. QED
  BY <1>4, <1>5 DEF ShortSilence

LEMMA RobustStep ==
  ASSUME RobustInv, InWindow, [RobustNext]_robustVars
  PROVE  /\ RobustInv'
         /\ played' # played => played' > played
         /\ newest' # newest /\ con_rseq # -1 /\ ~restarted => played' = newest'
<1>1. CASE Send
  BY <1>1, SendKeeps DEF Send
<1>2. CASE \E p \in flight : Arrive(p)
  BY <1>2, ArriveKeeps DEF InStep
<1>3. CASE GoIdle
  BY <1>3, GoIdleKeeps DEF GoIdle
<1>4. CASE Restart
  BY <1>4, RestartKeeps DEF Restart
<1>5. CASE UNCHANGED robustVars
  BY <1>5 DEF robustVars, RobustInv, RobustTypes, FlightInv, StepInv, LostInv, Climbing, Fresh,
              InStep, Ahead, Number, Place
<1>6. QED
  BY <1>1, <1>2, <1>3, <1>4, <1>5 DEF RobustNext

(* Whatever the number of destinations and copies, wherever the counter      *)
(* stands, and however often sfmike is started anew: packets are played in   *)
(* order and once, newer ones at once, and a silence is at most 16 packets,  *)
(* as long as the numbers can tell the newer packet.                         *)
THEOREM InOrderAndSoon ==
  ASSUME InWindow
  PROVE  RobustSpec => PlayedSoon
<1>1. RobustInit => RobustInv
  BY RobustStart
<1>2. RobustInv /\ [RobustNext]_robustVars => RobustInv'
  BY RobustStep
<1>3. RobustInv => ShortSilence
  BY InvShort
<1>4. RobustInv /\ [RobustNext]_robustVars
        => [/\ played' # played => played' > played
            /\ newest' # newest /\ con_rseq # -1 /\ ~restarted => played' = newest']_robustVars
  BY RobustStep
<1>5. QED
  BY <1>1, <1>2, <1>3, <1>4, PTL DEF RobustSpec, PlayedSoon, PlayedInOrder
=============================================================================
