----------------------------- MODULE RtpPackets -----------------------------
(* The packets of RTP and VAT (src/rtpacket.c, src/vatpkt.c): how sfmike     *)
(* makes and encrypts them and how sfspeaker reads them.  A packet is what   *)
(* its reader tells apart: the form, whether it is encrypted, the length     *)
(* that arrives, and its sub-packets with the lengths their headers state.   *)
(* A text is its length, and an item of a source description is a kind and a *)
(* text.  A SPEAKFREE_CNAME or an e-mail address with an asterisk is not     *)
(* told from one without.                                                    *)
EXTENDS Integers, Sequences, FiniteSetsExt

CONSTANTS
  Envs,    \* environments that sfmike may run in (see Sdes)
  Texts,   \* texts of a chat, or of the reason of a BYE
  Sounds   \* sound buffers that sfmike may send

Absent == -1

(* The length of a text fits its byte; a full name in the password file is   *)
(* not empty.  A sound of GSM is as long as its frames of 33 bytes for 160   *)
(* samples, one of LPC as its frames of 14.                                  *)
ASSUME RtpAssumption ==
  /\ \A env \in Envs :
       /\ env.cname \in 0..255 /\ env.gecos \in {Absent} \cup 1..255
       /\ env.id \in Seq(0..255) /\ Len(env.id) <= 4
  /\ Texts \subseteq 0..255
  /\ Sounds \subseteq [codec : {"gsm", "adpcm", "lpc", "pcmu"}, len : Nat, samples : Int]
  /\ \A sb \in Sounds :
       CASE sb.codec = "gsm" -> sb.len = 2 + 33 * (sb.samples \div 160) /\ sb.samples % 160 = 0
         [] sb.codec = "lpc" -> sb.len = 2 + 14 * (sb.samples \div 160) /\ sb.samples % 160 = 0
         [] OTHER -> sb.samples = Absent

RoundUp(n, k) == k * ((n + k - 1) \div k)

-----------------------------------------------------------------------------
(* Control packets of RTP and of Speak Freely protocol. *)

(* The empty receiver report that comes first. *)
Report == [pt |-> "RR", length |-> 1, size |-> 8, p |-> FALSE, items |-> <<>>]

(* Encryption will prefix 4 bytes and work on multiples of 8, so that the    *)
(* whole must be an odd multiple of 4.                                       *)
PadEven(l) == IF l % 8 = 0 THEN 0 ELSE 4                            \* mutant
Pad(l) == IF l % 8 = 4 THEN 0 ELSE 4

Composite(pt, bytes, items) ==
  LET size == RoundUp(bytes, 4)
      pad == Pad(Report.size + size)
  IN [form |-> "rtp", enc |-> FALSE, len |-> Report.size + size + pad,
      subs |-> << Report,
                  [pt |-> pt, length |-> size \div 4 - 1 + pad \div 4,
                   size |-> size + pad, p |-> pad > 0, items |-> items] >>]

(* An environment: the canonical name, the fields of SPEAKFREE_ID (<<>> if   *)
(* it is not set, 0 for an empty field), the full name in the password file, *)
(* which is not looked for when SPEAKFREE_CNAME is set.                      *)
AddItem(sdes, kind, text) ==
  [items |-> Append(sdes.items, <<kind, text>>), bytes |-> sdes.bytes + 2 + text]

AddField(sdes, id, i) ==
  IF i \in DOMAIN id /\ id[i] > 0
    THEN AddItem(sdes, <<"NAME", "EMAIL", "PHONE", "LOC">>[i], id[i]) ELSE sdes

AddId(sdes, id) == AddField(AddField(AddField(AddField(sdes, id, 1), id, 2), id, 3), id, 4)

Sdes(env) ==
  LET cname == AddItem([items |-> <<>>, bytes |-> 8], "CNAME", env.cname)
  IN AddItem(IF env.id # <<>> THEN AddId(cname, env.id)
             ELSE IF env.gecos = Absent THEN cname ELSE AddItem(cname, "NAME", env.gecos),
             "TOOL", 21)

MakeSdes(env) == Composite("SDES", Sdes(env).bytes + 2, Sdes(env).items)
MakeBye(reason) ==
  Composite("BYE", 8 + (IF reason > 0 THEN 1 + reason ELSE 0), <<>>)
MakeApp(text) == Composite("APP", 12 + text + 1, <<>>)

(* The lengths in the headers lead from one sub-packet to the next and end   *)
(* where the packet does.                                                    *)
IsValid(m) ==
  /\ m.form # "vat" /\ ~m.enc
  /\ m.subs[1].pt \in {"RR", "SR"} /\ ~m.subs[1].p
  /\ \A i \in DOMAIN m.subs : 4 * (m.subs[i].length + 1) = m.subs[i].size
  /\ m.subs[1].size + m.subs[2].size = m.len

Has(m, pt) == IsValid(m) /\ \E i \in DOMAIN m.subs : m.subs[i].pt = pt

(* What parseSDES() finds: the first item of a kind, among those it meets    *)
(* until a length byte is too small for its text.                            *)
ItemsOf(m) == m.subs[CHOOSE i \in DOMAIN m.subs : m.subs[i].pt = "SDES"].items

Found(m, kind) ==
  LET items == ItemsOf(m)
      is == {i \in DOMAIN items : /\ items[i][1] = kind
                                  /\ \A j \in 1..i - 1 : items[j][2] < 256}
  IN IF is = {} THEN Absent ELSE items[Min(is)][2] % 256

(* The user's name and e-mail address that sfspeaker keeps. *)
Identity(m) ==
  LET name == Found(m, "NAME")
      email == Found(m, "EMAIL")
  IN IF name # Absent THEN [uname |-> name, email |-> email]
     ELSE [uname |-> IF email # Absent THEN email ELSE Found(m, "CNAME"),
           email |-> Absent]

-----------------------------------------------------------------------------
(* Control packets of VAT. *)

MakeVATid(name) == [form |-> "vat", enc |-> FALSE, kind |-> "id", len |-> 4 + name + 1]
MakeVATdone == [form |-> "vat", enc |-> FALSE, kind |-> "done", len |-> 4]

(* Control packets under way, encrypted and decrypted with the same key. *)
Encrypt(m) ==
  [m EXCEPT !.enc = TRUE, !.len = RoundUp(IF m.form = "rtp" THEN @ + 4 ELSE @, 8)]
Decrypt(m) ==
  [m EXCEPT !.enc = FALSE, !.len = IF m.form = "rtp" THEN @ - 4 ELSE @]

-----------------------------------------------------------------------------
(* Sound.  GSM and LPC state the samples in front of the frames. *)

SoundHeader(form) == IF form = "rtp" THEN 12 ELSE 8

(* rtpout() and vatout(). *)
MakeSound(form, sb) ==
  LET payload == CASE sb.codec = "gsm" -> sb.len - 2
                   [] sb.codec = "adpcm" -> sb.len + 1
                   [] sb.codec = "lpc" -> 14 * ((sb.len - 2) \div 14)
                   [] sb.codec = "pcmu" -> sb.len
  IN [form |-> form, codec |-> sb.codec, len |-> SoundHeader(form) + payload,
      pad |-> 0, whole |-> TRUE]

(* RTP pads what it encrypts and says by how much; the last block of a VAT   *)
(* packet is cut off and cannot be decrypted.                                *)
EncryptSound(m) ==
  IF m.form = "rtp" THEN [m EXCEPT !.len = RoundUp(@, 8), !.pad = RoundUp(m.len, 8) - m.len]
  ELSE [m EXCEPT !.whole = m.len % 8 = 0]

(* isrtp() and isvat(). *)
ReadSound(m) ==
  LET payload == m.len - SoundHeader(m.form) - m.pad
  IN [codec |-> m.codec,
      len |-> CASE m.codec \in {"gsm", "lpc"} -> payload + 2
                [] m.codec = "adpcm" -> payload - 1
                [] m.codec = "pcmu" -> payload,
      samples |-> CASE m.codec = "gsm" -> (payload * 160) \div 33
                    [] m.codec = "lpc" -> 160 * (payload \div 14)
                    [] OTHER -> Absent]

-----------------------------------------------------------------------------
(* Every control packet of RTP, encrypted or in clear, is taken for what it  *)
(* was made as, and the receiver learns who speaks: "Why an odd multiple of  *)
(* 4 bytes" (rtpacket.c:478).  The name is the full name, or else the e-mail *)
(* address, or else the canonical name, as far as they were given.           *)
Sent(m) == {m, Decrypt(Encrypt(m))}

WhoSpeaks(env) ==
  LET name == IF env.id = <<>> THEN env.gecos ELSE env.id[1]
      email == IF Len(env.id) < 2 THEN Absent ELSE env.id[2]
  IN CASE name > 0 -> [uname |-> name, email |-> IF email > 0 THEN email ELSE Absent]
       [] name <= 0 /\ email > 0 -> [uname |-> email, email |-> Absent]
       [] OTHER -> [uname |-> env.cname, email |-> Absent]

ControlUnderstood ==
  /\ \A env \in Envs : \A m \in Sent(MakeSdes(env)) :
       Has(m, "SDES") /\ ~Has(m, "BYE") /\ ~Has(m, "APP") /\ Identity(m) = WhoSpeaks(env)
  /\ \A n \in Texts : /\ \A m \in Sent(MakeBye(n)) : Has(m, "BYE")
                      /\ \A m \in Sent(MakeApp(n)) : Has(m, "APP") /\ ~Has(m, "BYE")

(* A sound comes back from a packet as it was put in, encrypted or not; only *)
(* a VAT packet of a length that is no multiple of 8 loses its end if it is  *)
(* encrypted.                                                                *)
SoundReturned ==
  \A sb \in Sounds, form \in {"rtp", "vat"} :
    LET m == MakeSound(form, sb)
    IN \A w \in {m, EncryptSound(m)} :
         ReadSound(w) = sb /\ (form = "rtp" \/ m.len % 8 = 0 => w.whole)
=============================================================================
