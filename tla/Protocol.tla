------------------------------ MODULE Protocol ------------------------------
(* How sfspeaker (src/speaker.c) finds out in which protocol, and with which *)
(* key, each correspondent speaks.  Sound and control packets come on two    *)
(* ports, in any order.  Whoever is not known yet has his control packets    *)
(* tried with the VAT key, the RTP key and no key in turn, and the turn is   *)
(* common to all.                                                            *)
(*                                                                           *)
(* Each sfmike (src/mike.c) talks in one protocol with or without the key;   *)
(* it may be ended, killed and started anew in another.  At most one packet  *)
(* of each kind is under way from a host: a later one overtakes it only by   *)
(* its being lost.  What a packet holds, and that it can be told from others *)
(* once it is decrypted, is RtpPackets.                                      *)
EXTENDS Integers, Sequences, RtpPackets

CONSTANTS
  Host,
  Ways,       \* Ways[h]: how the sfmikes of h may talk, see Way
  MaxStarts,  \* bound: MaxStarts[h] is how often h may start sfmike
  Talkers,    \* the hosts whose users talk
  HasKey,     \* sfspeaker was given a key
  MaxMisread  \* bound: packets taken for VAT though the key was wrong

Way == [form : {"sf", "rtp", "vat"}, enc : BOOLEAN]

ASSUME ProtocolAssumption ==
  /\ Ways \in [Host -> (SUBSET Way) \ {{}}]
  /\ \A h \in Host : [form |-> "sf", enc |-> TRUE] \notin Ways[h]
  /\ Talkers \subseteq Host
  /\ MaxStarts \in [Host -> Nat] /\ HasKey \in BOOLEAN /\ MaxMisread \in Nat

None == -1

VARIABLES
  mike,    \* mike[h]: the way of its sfmike, its number, whether it runs
  ctl,     \* ctl[h]: the control packet under way, <<>> for none
  data,    \* data[h]: the sound under way, <<>> for none
  con,     \* con[h]: sfspeaker's connection
  toggle,  \* which key is tried next: 0 VAT, 1 RTP, 2 none
  misread, \* how often rubbish was taken for VAT
  fate     \* history: what became of the last sound of h that arrived

vars == <<mike, ctl, data, con, toggle, misread, fate>>

NoConnection == [active |-> FALSE, protocol |-> "unknown", session |-> None, over |-> FALSE]

Init ==
  /\ mike = [h \in Host |-> [way |-> CHOOSE w \in Ways[h] : TRUE, n |-> 0, up |-> FALSE]]
  /\ ctl = [h \in Host |-> <<>>] /\ data = [h \in Host |-> <<>>]
  /\ con = [h \in Host |-> NoConnection]
  /\ toggle = 0 /\ misread = 0
  /\ fate = [h \in Host |-> "lost"]

-----------------------------------------------------------------------------
(* sfmike. *)

(* The session that VAT packets name is always 0.                            *)
Session(way, n) == IF way.form = "vat" THEN 0 ELSE n

(* sendrtpctrl().                                                            *)
SendControl(h, kind) ==
  LET m == mike'[h]
  IN ctl' = [ctl EXCEPT ![h] =
               <<[form |-> m.way.form, enc |-> m.way.enc, kind |-> kind,
                  session |-> Session(m.way, m.n), n |-> m.n]>>]

Start(h, way) ==
  /\ ~mike[h].up /\ mike[h].n < MaxStarts[h]
  /\ mike' = [mike EXCEPT ![h] = [way |-> way, n |-> @.n + 1, up |-> TRUE]]
  /\ SendControl(h, "id")
  /\ UNCHANGED <<data, con, toggle, misread, fate>>

TimerTick(h) ==
  /\ mike[h].up
  /\ UNCHANGED mike
  /\ SendControl(h, "id")
  /\ UNCHANGED <<data, con, toggle, misread, fate>>

(* Only Speak Freely's own protocol has a chat.                              *)
Chat(h) ==
  /\ mike[h].up /\ mike[h].way.form = "sf"
  /\ UNCHANGED mike
  /\ SendControl(h, "chat")
  /\ UNCHANGED <<data, con, toggle, misread, fate>>

Talk(h) ==
  /\ h \in Talkers /\ mike[h].up
  /\ data' = [data EXCEPT ![h] = <<[n |-> mike[h].n, way |-> mike[h].way]>>]
  /\ UNCHANGED <<mike, ctl, con, toggle, misread, fate>>

Exit(h) ==
  /\ mike[h].up
  /\ mike' = [mike EXCEPT ![h].up = FALSE]
  /\ SendControl(h, "bye") \/ UNCHANGED ctl      \* in full, or killed
  /\ UNCHANGED <<data, con, toggle, misread, fate>>

(* UDP loses a packet.                                                       *)
Lose(h) ==
  /\ \/ ctl[h] # <<>> /\ ctl' = [ctl EXCEPT ![h] = <<>>] /\ UNCHANGED data
     \/ data[h] # <<>> /\ data' = [data EXCEPT ![h] = <<>>] /\ UNCHANGED ctl
  /\ UNCHANGED <<mike, con, toggle, misread, fate>>

-----------------------------------------------------------------------------
(* sfspeaker. *)

(* A packet starts or prolongs the connection.                               *)
Touched(h) ==
  IF con[h].active THEN [con[h] EXCEPT !.over = FALSE]
  ELSE [NoConnection EXCEPT !.active = TRUE]

UnsettledAlways(c) == c.protocol # "vat"                            \* mutant
Unsettled(c) == c.protocol \in {"unknown", "crypt", "sf"}

(* The key that is tried on a control packet, "none" for no attempt.         *)
TriedOne(c) == IF Unsettled(c) THEN "rtp" ELSE c.protocol           \* mutant
Tried(c) ==
  IF ~Unsettled(c) THEN c.protocol
  ELSE CASE toggle = 0 -> "vat" [] toggle = 1 -> "rtp" [] toggle = 2 -> "none"

(* What a control packet is after decryption: itself, or rubbish.            *)
Deciphered(m, key) ==
  IF key = "none" THEN m
  ELSE IF m.enc /\ m.form = key THEN [m EXCEPT !.enc = FALSE]
  ELSE [m EXCEPT !.form = "rubbish"]

(* isValidRTCPpacket() with Speak Freely's version or RTP's. *)
IsRTCP(m) == m.form \in {"rtp", "sf"} /\ ~m.enc
(* isVATid() and isVATdone() *)
IsVAT(m, kind) == m.form = "vat" /\ ~m.enc /\ m.kind = kind

(* A control packet is acted upon.                                           *)
Recognised(c, m) ==
  LET gone == [c EXCEPT !.protocol = "unknown", !.session = m.session, !.over = TRUE]
      known == [c EXCEPT !.protocol = m.form, !.session = m.session]
  IN CASE IsVAT(m, "id") -> known
       [] IsVAT(m, "bye") /\ c.protocol = "vat" -> gone
       [] IsRTCP(m) -> IF m.kind = "bye" THEN gone ELSE known
       [] OTHER -> [c EXCEPT !.protocol = "crypt"]

(* Rubbish may begin like an ID of VAT, for some session, or, of a host that *)
(* uses VAT, like its DONE.                                                  *)
Misread(c) ==
  {[c EXCEPT !.protocol = "vat", !.session = None]}
    \cup (IF c.protocol = "vat"
            THEN {[c EXCEPT !.protocol = "unknown", !.session = None, !.over = TRUE]}
            ELSE {})

ReceiveControl(h) ==
  /\ ctl[h] # <<>>
  /\ ctl' = [ctl EXCEPT ![h] = <<>>]
  /\ LET packet == ctl[h][1]
         c == Touched(h)
         decrypts == HasKey /\ ~IsRTCP(packet)
         m == IF decrypts THEN Deciphered(packet, Tried(c)) ELSE packet
     IN /\ toggle' = IF decrypts /\ Unsettled(c) THEN (toggle + 1) % 3 ELSE toggle
        /\ \/ /\ con' = [con EXCEPT ![h] = Recognised(c, m)]
              /\ UNCHANGED misread
           \/ /\ m.enc \/ m.form = "rubbish"
              /\ misread < MaxMisread /\ misread' = misread + 1
              /\ con' \in {[con EXCEPT ![h] = r] : r \in Misread(c)}
  /\ UNCHANGED <<mike, data, fate>>

(* Sound is decrypted for a host that is known to talk in RTP or VAT.        *)
Clear(c, way) ==
  IF HasKey /\ ~Unsettled(c) THEN way.enc /\ way.form = c.protocol ELSE ~way.enc

(* Sound that shows the tag of Speak Freely, or rubbish that seems to, puts  *)
(* the connection back into that protocol, but not from RTP.                 *)
Tagged(c, clear, way) ==
  IF c.protocol \notin {"vat", "crypt"} THEN {c}
  ELSE LET back == [c EXCEPT !.protocol = "sf"]
       IN IF ~clear THEN {c, back} ELSE IF way.form = "sf" THEN {back} ELSE {c}

Plays(c, clear, d) ==
  /\ clear
  /\ IF d.way.form = "sf" THEN TRUE
     ELSE c.protocol = d.way.form /\ c.session = Session(d.way, d.n)

ReceiveSound(h) ==
  /\ data[h] # <<>>
  /\ data' = [data EXCEPT ![h] = <<>>]
  /\ LET d == data[h][1]
         clear == Clear(Touched(h), d.way)
     IN \E c \in Tagged(Touched(h), clear, d.way) :
          /\ con' = [con EXCEPT ![h] = c]
          /\ fate' = [fate EXCEPT ![h] = IF Plays(c, clear, d) THEN "played" ELSE "lost"]
  /\ UNCHANGED <<mike, ctl, toggle, misread>>

(* release() finds the host idle: long after its last packet, or on its next *)
(* turn if the host said good-bye and nothing came since.                    *)
Release(h) ==
  /\ con[h].active
  /\ con[h].over \/ (~mike[h].up /\ ctl[h] = <<>> /\ data[h] = <<>>)
  /\ con' = [con EXCEPT ![h] = NoConnection]
  /\ UNCHANGED <<mike, ctl, data, toggle, misread, fate>>

-----------------------------------------------------------------------------
Next ==
  \E h \in Host :
    \/ \E way \in Ways[h] : Start(h, way)
    \/ TimerTick(h) \/ Chat(h) \/ Talk(h) \/ Exit(h)
    \/ Lose(h)
    \/ ReceiveControl(h) \/ ReceiveSound(h)
    \/ Release(h)

(* The timer of sfmike goes off for ever, the user talks, sfspeaker reads    *)
(* what is there, and UDP does not lose everything.                          *)
Fairness ==
  \A h \in Host :
    /\ WF_vars(TimerTick(h)) /\ WF_vars(Talk(h))
    /\ SF_vars(ReceiveControl(h)) /\ SF_vars(ReceiveSound(h))

Spec == Init /\ [][Next]_vars
FairSpec == Spec /\ Fairness

-----------------------------------------------------------------------------
TypeOK ==
  /\ \A h \in Host : /\ mike[h].way \in Ways[h] /\ mike[h].n \in 0..MaxStarts[h]
                     /\ Len(ctl[h]) <= 1 /\ Len(data[h]) <= 1
  /\ con \in [Host -> [active : BOOLEAN, over : BOOLEAN, session : Nat \cup {None},
                       protocol : {"sf", "vat", "rtp", "crypt", "unknown"}]]
  /\ toggle \in 0..2 /\ misread \in 0..MaxMisread
  /\ fate \in [Host -> {"played", "lost"}]

(* Every variable has its type; and what is sent in a form, encrypted or     *)
(* not, is recognised as what it was sent as, says who speaks, and gives     *)
(* back the sound that was put in (rtpacket.c:478, see RtpPackets).          *)
Understood == TypeOK /\ ControlUnderstood /\ SoundReturned

(* sfmike and sfspeaker were given the same key, or none, where it counts.   *)
Matched(way) == way.form = "sf" \/ way.enc = HasKey

Settled(h) ==
  /\ mike[h].up /\ Matched(mike[h].way)
  /\ con[h].active /\ con[h].protocol = mike[h].way.form
  /\ con[h].session = Session(mike[h].way, mike[h].n)

Read(q, h) == q[h] # <<>> /\ q'[h] = <<>>

(* Once the protocol of a host is known, only its end or a late packet of an *)
(* earlier sfmike changes it: none of its own packets is taken for rubbish   *)
(* or for another's (speaker.c:2664-2676), whatever else sfspeaker receives. *)
Stays ==
  [][\A h \in Host :
       Settled(h) => \/ Settled(h)' \/ mike'[h] # mike[h]
                     \/ (Read(ctl, h) /\ ctl[h][1].n # mike[h].n)
                     \/ (Read(data, h) /\ data[h][1].n # mike[h].n)]_vars

(* "toggle back and forth between the RTP and VAT DES keys until we crack    *)
(* the packet and set the protocol" (speaker.c:2664): whoever goes on        *)
(* talking with the right key is heard in the end, whatever the host sent    *)
(* before and however rubbish was read, unless others whose packets cannot   *)
(* be read take their turns of the keys for ever.                            *)
Heard ==
  \A h \in Talkers :
    /\ <>[](mike[h].up /\ Matched(mike[h].way))
    /\ <>[][toggle' # toggle => Read(ctl, h)]_vars
    => <>[](fate[h] = "played")
=============================================================================
