--------------------------- MODULE SpeakerProofs ---------------------------
(***************************************************************************)
(* Proofs about Speaker for any correspondents, times and numbers of       *)
(* requests, and any backlog of them.                                      *)
(***************************************************************************)
EXTENDS Speaker, ChainsProofs

Request == {"mute", "resume"}

(* What makes NotLeftMuted inductive: when sfmike has stopped and nothing  *)
(* it sent was lost, its last word is on the way or was obeyed.            *)
LastWord ==
    IF lo = << >> THEN ~muted ELSE lo[Len(lo)] = "resume"

MuteInv ==
    /\ lo \in Seq(Request) /\ lost \in Nat /\ muted \in BOOLEAN
    /\ mike \in [pc: {"pause", "ask", "try", "talk", "fail"}, tries: Int]
    /\ mike.pc = "pause" /\ lost = 0 => LastWord

(* A loss is counted.                                                      *)
LEMMA MoreIsSome == ASSUME NEW n \in Nat PROVE More(n) \in Nat /\ More(n) > 0
  BY SpeakerAssumption DEF SpeakerAssumption, More

(* A datagram from elsewhere than localhost leaves mute and lost alone.    *)
LEMMA ReceiveEffect ==
  ASSUME MuteInv, NEW h \in Host, NEW k, Receive(h, k)
  PROVE  /\ lost' \in Nat /\ muted' \in BOOLEAN
         /\ UNCHANGED mike
         /\ k \notin Request /\ h # Local => UNCHANGED <<muted, lost>>
         /\ lost' = 0 => lost = 0
         /\ h = Local /\ lost' = 0 =>
              muted' = IF k = "mute" THEN TRUE
                       ELSE IF k = "resume" THEN FALSE ELSE muted
<1> USE DEF MuteInv
<1>0. UNCHANGED mike
  BY DEF Receive
<1>1. CASE Reject(h) \/ Discard(h)
  <2>1. UNCHANGED muted /\ lost' = IF h = Local THEN More(lost) ELSE lost
    BY <1>1 DEF Reject, Discard
  <2>2. lost' \in Nat /\ (h = Local => lost' > 0)
    BY <2>1, MoreIsSome
  <2>3. muted' \in BOOLEAN /\ (h # Local => UNCHANGED lost)
    BY <2>1
  <2>4. lost' = 0 => h # Local
    BY <2>2
  <2>5. QED
    BY <1>0, <2>1, <2>2, <2>3, <2>4, Zenon
<1>3. CASE Act(h, k)
  <2>1. UNCHANGED lost
    BY <1>3 DEF Act
  <2>2. CASE k = "mute"
    BY <1>0, <1>3, <2>1, <2>2 DEF Act, Mute, Request
  <2>3. CASE k = "resume"
    BY <1>0, <1>3, <2>1, <2>3 DEF Act, Resume, Request
  <2>4. CASE k \notin Request
    BY <1>0, <1>3, <2>1, <2>4 DEF Act, Request
  <2>5. QED
    BY <2>2, <2>3, <2>4 DEF Request
<1>4. QED
  BY <1>1, <1>3 DEF Receive

LEMMA MuteInit == Init => MuteInv
<1> SUFFICES ASSUME Init PROVE MuteInv
  OBVIOUS
<1>1. lo \in Seq(Request) /\ lost \in Nat /\ lo = << >>
  BY DEF Init
<1>2. muted \in BOOLEAN /\ ~muted
  BY DEF Init
<1>3. mike \in [pc: {"pause", "ask", "try", "talk", "fail"}, tries: Int]
  BY DEF Init
<1>4. QED
  BY <1>1, <1>2, <1>3 DEF MuteInv, LastWord

LEMMA MuteStep == MuteInv /\ [Next]_vars => MuteInv'
<1> SUFFICES ASSUME MuteInv, [Next]_vars PROVE MuteInv'
  OBVIOUS
<1>1. CASE ReceiveRemote
  <2>1. PICK h \in Remote, k \in {"sound", "id", "bye", "junk", "key"} : Receive(h, k)
    BY <1>1 DEF ReceiveRemote
  <2>2. h \in Host /\ h # Local /\ k \notin Request /\ UNCHANGED lo
    BY <1>1, SpeakerAssumption DEF SpeakerAssumption, Host, Request, ReceiveRemote
  <2>3. UNCHANGED <<muted, lost, mike>>
    BY <2>1, <2>2, ReceiveEffect
  <2>4. QED
    BY <2>2, <2>3 DEF MuteInv, LastWord
<1>2. CASE ReceiveLocal
  <2>1. /\ lo # << >> /\ lo \in Seq(Request) /\ lo' = Tail(lo)
        /\ Receive(Local, lo[1])
    BY <1>2 DEF ReceiveLocal, MuteInv
  <2>2. /\ lost' \in Nat /\ muted' \in BOOLEAN /\ UNCHANGED mike
        /\ lost' = 0 => lost = 0
        /\ lost' = 0 => muted' = IF lo[1] = "mute" THEN TRUE
                                 ELSE IF lo[1] = "resume" THEN FALSE ELSE muted
    BY <2>1, ReceiveEffect DEF Host
  <2>3. lo' \in Seq(Request) /\ Len(lo') = Len(lo) - 1 /\ Len(lo) \in Nat \ {0}
    BY <2>1
  <2>4. ASSUME mike'.pc = "pause", lost' = 0 PROVE LastWord'
    <3>1. lo[Len(lo)] = "resume"
      BY <2>1, <2>2, <2>4 DEF MuteInv, LastWord
    <3>2. CASE Len(lo) = 1
      <4>1. lo' = << >>
        BY <2>1, <3>2
      <4>2. ~muted'
        BY <2>2, <2>4, <3>1, <3>2
      <4>3. QED
        BY <4>1, <4>2 DEF LastWord
    <3>3. CASE Len(lo) > 1
      <4>1. \A i \in 1..Len(lo) - 1 : Tail(lo)[i] = lo[i + 1]
        BY <2>1, <3>3
      <4>2. Len(lo') \in 1..Len(lo) - 1 /\ Len(lo') + 1 = Len(lo) /\ lo' # << >>
        BY <2>3, <3>3
      <4>3. lo'[Len(lo')] = lo[Len(lo)]
        <5> DEFINE n == Len(lo')
        <5>1. Tail(lo)[n] = lo[n + 1]
          BY <4>1, <4>2
        <5>2. QED
          BY <2>1, <4>2, <5>1
      <4>4. QED
        BY <3>1, <4>2, <4>3 DEF LastWord
    <3>4. QED
      BY <2>3, <3>2, <3>3
  <2>5. QED
    BY <2>2, <2>3, <2>4 DEF MuteInv
<1>3. CASE Play \/ Queue \/ DecodeKey \/ Alarm
  BY <1>3 DEF Play, Queue, DecodeKey, Alarm, history, MuteInv, LastWord
<1>4. CASE Talk
  BY <1>4, SpeakerAssumption DEF SpeakerAssumption, Talk, speakerVars, MuteInv
<1>5. CASE Ask
  <2>1. mike'.pc # "pause" /\ mike' \in [pc: {"pause", "ask", "try", "talk", "fail"}, tries: Int]
    BY <1>5 DEF Ask, MuteInv
  <2>2. QED
    BY <1>5, <2>1 DEF Ask, Send, speakerVars, history, Request, MuteInv
<1>6. CASE Try
  <2>1. mike'.pc # "pause" /\ mike' \in [pc: {"pause", "ask", "try", "talk", "fail"}, tries: Int]
    BY <1>6 DEF Try, MuteInv
  <2>2. QED
    BY <1>6, <2>1 DEF Try, speakerVars, MuteInv
<1>7. CASE Fail \/ Freeaudio
  <2>1. lo' = Append(lo, "resume") /\ UNCHANGED <<muted, lost>>
    BY <1>7 DEF Fail, Freeaudio, Send, speakerVars, history
  <2>2. lo' \in Seq(Request) /\ lo' # << >> /\ lo'[Len(lo')] = "resume"
    BY <2>1 DEF MuteInv, Request
  <2>3. mike' \in [pc: {"pause", "ask", "try", "talk", "fail"}, tries: Int]
    BY <1>7 DEF Fail, Freeaudio, MuteInv
  <2>4. QED
    BY <2>1, <2>2, <2>3 DEF MuteInv, LastWord
<1>8. CASE Killed
  BY <1>8, MoreIsSome DEF Killed, speakerVars, MuteInv
<1>9. CASE Lose
  <2>1. PICK i \in DOMAIN lo : lo' = RemoveAt(lo, i)
    BY <1>9 DEF Lose
  <2>2. lo' \in Seq(Request)
    BY SMTT(40), <2>1 DEF RemoveAt, MuteInv
  <2>3. QED
    BY <1>9, <2>2 DEF Lose, speakerVars, MuteInv
<1>10. CASE UNCHANGED vars
  BY <1>10 DEF vars, history, MuteInv, LastWord
<1>11. QED
  BY <1>1, <1>2, <1>3, <1>4, <1>5, <1>6, <1>7, <1>8, <1>9, <1>10 DEF Next

(* However many requests sfmike makes, in whatever order sfspeaker gets    *)
(* and handles them and whoever else calls: sfspeaker is left muted only   *)
(* by a datagram that was lost, turned away or never sent                  *)
(* (mike.c 1031-1111, speaker.c 3139-3170).                                *)
THEOREM NeverLeftMuted == Spec => []NotLeftMuted
<1>1. MuteInv => NotLeftMuted
  BY DEF MuteInv, LastWord, NotLeftMuted
<1>2. QED
  BY <1>1, MuteInit, MuteStep, PTL DEF Spec

-----------------------------------------------------------------------------
(* The connection in hand is not freed. *)

Conn == [timeout: Idle..(HostTimeout - 1), busy: 0..BusyTimeout,
         known: BOOLEAN, key: BOOLEAN]
Steps == {TockTock, TickTock, JitterTock}

ChainInv ==
    /\ dobusy \in BOOLEAN
    /\ conn \in Seq(Host) /\ IsInjective(conn)
    /\ con \in [Host -> Conn]
    /\ \A h \in Host : h \in Linked \/ con[h] = NoConnection
    /\ hits \in 0..MaxHits

(* While its datagram is handled a connection is too young to expire.      *)
HandInv ==
    /\ main \in [pc: {"recvfrom", "sound", "append", "key"}, c: Remote \cup {None}]
    /\ main.pc = "recvfrom" => main = Waiting
    /\ main # Waiting =>
         /\ main.c \in Linked
         /\ con[main.c].busy = 0 /\ con[main.c].timeout \in 0..(hits * TockTock)

DeviceInv ==
    /\ active \in BOOLEAN /\ waiting \in BOOLEAN
    /\ dev \in {"speaker", "mike", None} /\ audiotime \in Nat
    /\ jitterwait \in 0..Jitter /\ jitteridle \in 0..JitterIdle
    /\ timerStep \in Steps
    /\ mike.tries \in 0..Tries
    /\ mike.pc \in {"ask", "try"} => mike.tries > 0

UseInv == MuteInv /\ ChainInv /\ HandInv /\ DeviceInv

(* What makes GetsAudio inductive.  Of n requests at least n were missed,  *)
(* lost or late, or n - 1 when the jitter queue had its turn: from then on *)
(* nothing makes a muted sfspeaker take the device.                        *)
Misses == lost + late
Asked == Tries - mike.tries

Calm == muted /\ main.pc \notin {"sound", "append"}

Excused(n) ==
    \/ Misses >= n
    \/ Misses >= n - 1 /\ Calm /\ ~waiting /\ \A i \in DOMAIN lo : lo[i] = "mute"

(* The last request was obeyed, and only the jitter queue can take the     *)
(* device before sfmike tries.                                             *)
Obeyed(n) ==
    /\ lo = << >> /\ Calm
    /\ \/ Misses >= n /\ (dev # "speaker" \/ ~waiting)
       \/ Misses >= n - 1 /\ dev # "speaker" /\ ~waiting

GetsInv ==
    /\ late \in Nat
    /\ dev = "mike" => mike.pc = "talk"
    /\ mike.pc = "ask" => Excused(Asked)
    /\ mike.pc = "try" => \/ lo # << >> /\ lo[Len(lo)] = "mute" /\ Excused(Asked)
                          \/ Excused(Asked + 1)
                          \/ Obeyed(Asked)
    /\ mike.pc = "fail" => Misses >= Tries - 1

LEMMA StepsAre ==
  /\ Steps \subseteq Nat \ {0} /\ \A s \in Steps : s <= TockTock
  /\ \A d, j, a : Windtimer(d, j, a) \in Steps
BY SpeakerAssumption DEF SpeakerAssumption, Steps, Windtimer

LEMMA LinkedIs == conn \in Seq(Host) => Linked = Range(conn) /\ Linked \subseteq Host
BY DEF Linked, ToSet, Range

LEMMA TouchedIs ==
  ASSUME ChainInv, NEW h \in Host
  PROVE  /\ Touched(h) \in Conn /\ Touched(h).timeout = 0
         /\ Touched(h).key = con[h].key
<1>1. con[h] \in Conn
  BY DEF ChainInv
<1>2. HostTimeout \in Nat \ {0} /\ BusyTimeout \in Nat
  BY SpeakerAssumption DEF SpeakerAssumption
<1>3. 0 \in Idle..(HostTimeout - 1) /\ 0 \in 0..BusyTimeout
  BY <1>2 DEF Idle
<1>4. CASE IsNew(h)
  <2>1. Touched(h) = [timeout |-> 0, busy |-> 0, known |-> FALSE, key |-> con[h].key]
    BY <1>4 DEF Touched, NoConnection
  <2>2. con[h].key \in BOOLEAN
    BY <1>1 DEF Conn
  <2>3. QED
    BY <1>3, <2>1, <2>2 DEF Conn
<1>5. CASE ~IsNew(h)
  <2>1. Touched(h) = [con[h] EXCEPT !.timeout = 0]
    BY <1>5 DEF Touched
  <2>2. QED
    BY <1>1, <1>3, <2>1 DEF Conn
<1>6. QED
  BY <1>4, <1>5

LEMMA ToldIs ==
  ASSUME NEW c \in Conn, NEW k
  PROVE  /\ Told(c, k) \in Conn /\ Told(c, k).key = c.key
         /\ k \in {"sound", "key"} => Told(c, k).timeout = c.timeout
         /\ Told(c, k).busy = c.busy
<1>1. HostTimeout \in Nat \ {0}
  BY SpeakerAssumption DEF SpeakerAssumption
<1>2. HostTimeout - 1 \in Idle..(HostTimeout - 1)
  BY <1>1 DEF Idle
<1>3. CASE k = "bye"
  BY <1>2, <1>3 DEF Told, Conn
<1>4. CASE k = "junk"
  BY <1>4 DEF Told, Conn
<1>5. CASE k \notin {"bye", "junk"}
  BY <1>5 DEF Told, Conn
<1>6. QED
  BY <1>3, <1>4, <1>5

(* A datagram leaves every other connection alone and keeps its own key.   *)
LEMMA ReceiveIs ==
  ASSUME UseInv, NEW h \in Host, NEW k, Receive(h, k),
         k \in {"sound", "key"} => h \in Remote
  PROVE  /\ ChainInv' /\ HandInv'
         /\ con' = [con EXCEPT ![h] = con'[h]] /\ con'[h].key = con[h].key
         /\ dev' \in {dev, None}
<1>1. /\ con \in [Host -> Conn] /\ conn \in Seq(Host) /\ IsInjective(conn)
      /\ main = Waiting
  BY DEF UseInv, ChainInv, Receive
<1>2. /\ Touched(h) \in Conn /\ Touched(h).timeout = 0
      /\ Touched(h).key = con[h].key
  BY TouchedIs DEF UseInv
<1>3. BusyTimeout \in Nat /\ MaxHits \in Nat /\ TockTock \in Nat
  BY SpeakerAssumption DEF SpeakerAssumption
<1>4. PICK r \in Conn :
        /\ con' = [con EXCEPT ![h] = r] /\ r.key = con[h].key
        /\ dev' \in {dev, None}
        /\ \/ main' = Waiting
           \/ /\ main' = [pc |-> k, c |-> h] /\ k \in {"sound", "key"}
              /\ r.busy = 0 /\ r.timeout = 0
  <2>1. CASE Reject(h)
    <3> DEFINE r == [Touched(h) EXCEPT !.busy = BusyTimeout]
    <3>1. r \in Conn /\ r.key = con[h].key
      BY <1>2, <1>3 DEF Conn
    <3>2. con' = [con EXCEPT ![h] = r] /\ main' = Waiting
      BY <1>1, <2>1 DEF Reject
    <3>3. dev' \in {dev, None}
      BY <2>1 DEF Reject, Silence
    <3> HIDE DEF r
    <3>4. QED
      BY <3>1, <3>2, <3>3
  <2>2. CASE Discard(h)
    BY <1>1, <1>2, <2>2 DEF Discard
  <2>3. CASE ~(Touched(h).busy > 0) /\ Act(h, k)
    <3>1. con' = [con EXCEPT ![h] = Told(Touched(h), k)]
      BY <2>3 DEF Act
    <3>2. dev' \in {dev, None}
      <4>1. CASE k = "mute"
        BY <2>3, <4>1 DEF Act, Mute, Silence
      <4>2. CASE k = "resume"
        BY <2>3, <4>2 DEF Act, Resume
      <4>3. CASE k # "mute" /\ k # "resume"
        BY <2>3, <4>3 DEF Act
      <4>4. QED
        BY <4>1, <4>2, <4>3
    <3>3. \/ main' = Waiting
          \/ main' = [pc |-> k, c |-> h] /\ k \in {"sound", "key"}
      BY <2>3 DEF Act
    <3>4. Touched(h).busy = 0
      BY <1>2, <1>3, <2>3 DEF Conn
    <3>5. /\ Told(Touched(h), k) \in Conn
          /\ Told(Touched(h), k).key = con[h].key
          /\ Told(Touched(h), k).busy = 0
          /\ k \in {"sound", "key"} => Told(Touched(h), k).timeout = 0
      BY <1>2, <3>4, ToldIs
    <3>6. QED
      BY <3>1, <3>2, <3>3, <3>5
  <2>4. QED
    BY <2>1, <2>2, <2>3 DEF Receive
<1>5. conn' = IF h \in Linked THEN conn ELSE <<h>> \o conn
  BY DEF Receive
<1>6. Linked = Range(conn) /\ h \in Host
  BY <1>1, LinkedIs
<1>7. conn' \in Seq(Host) /\ IsInjective(conn') /\ Range(conn') = Range(conn) \cup {h}
  <2>1. CASE h \in Linked
    BY <1>1, <1>5, <1>6, <2>1
  <2>2. CASE h \notin Linked
    BY <1>1, <1>5, <1>6, <2>2, PutInFront
  <2>3. QED
    BY <2>1, <2>2
<1>8. Linked' = Linked \cup {h}
  BY <1>6, <1>7 DEF Linked, ToSet, Range
<1>9. /\ con' \in [Host -> Conn] /\ con'[h] = r
      /\ \A o \in Host : o # h => con'[o] = con[o]
  BY <1>1, <1>4
<1>10. hits' = 0 /\ UNCHANGED dobusy
  BY DEF Receive, option
<1>11. ChainInv'
  BY <1>3, <1>7, <1>8, <1>9, <1>10 DEF UseInv, ChainInv
<1>12. HandInv'
  <2>1. CASE main' = Waiting
    BY <2>1 DEF HandInv, Waiting
  <2>2. CASE main' = [pc |-> k, c |-> h] /\ k \in {"sound", "key"} /\ r.busy = 0 /\ r.timeout = 0
    <3>1. main' \in [pc: {"recvfrom", "sound", "append", "key"}, c: Remote \cup {None}]
      BY <2>2
    <3>2. main'.pc = k /\ main'.c = h /\ main' # Waiting
      BY <2>2 DEF Waiting
    <3>3. 0 \in 0..(hits' * TockTock)
      BY <1>3, <1>10
    <3>4. QED
      BY <1>8, <1>9, <2>2, <3>1, <3>2, <3>3 DEF HandInv
  <2>3. QED
    BY <1>4, <2>1, <2>2
<1>13. QED
  BY <1>4, <1>9, <1>11, <1>12

LEMMA NoConnectionIs == NoConnection \in Conn
BY SpeakerAssumption DEF SpeakerAssumption, NoConnection, Conn, Idle

(* One tick ages a connection by a step of the timer.                      *)
LEMMA AgedIs ==
  ASSUME NEW x \in Conn, timerStep \in Steps
  PROVE  /\ Aged(x).timeout \in Int /\ Aged(x).timeout >= Idle
         /\ Aged(x).busy \in 0..BusyTimeout
         /\ Aged(x).known = x.known /\ Aged(x).key = x.key
         /\ Aged(x) \in [timeout: Int, busy: 0..BusyTimeout, known: BOOLEAN, key: BOOLEAN]
         /\ x.busy = 0 => Aged(x).busy = 0
         /\ x.busy = 0 /\ x.timeout >= 0 => Aged(x).timeout = x.timeout + timerStep
<1>1. timerStep \in Nat \ {0} /\ HostTimeout \in Nat \ {0} /\ BusyTimeout \in Nat
  BY StepsAre, SpeakerAssumption DEF SpeakerAssumption
<1>2. /\ x.timeout \in Idle..(HostTimeout - 1) /\ x.busy \in 0..BusyTimeout
      /\ x.known \in BOOLEAN /\ x.key \in BOOLEAN
      /\ x = [timeout |-> x.timeout, busy |-> x.busy, known |-> x.known, key |-> x.key]
  BY DEF Conn
<1> DEFINE b == IF x.busy > timerStep THEN x.busy - timerStep ELSE 0
           t == IF x.busy > 0 /\ b = 0 THEN HostTimeout
                ELSE IF Counting(x) THEN x.timeout + timerStep ELSE x.timeout
<1>3. b \in 0..BusyTimeout /\ (x.busy = 0 => b = 0)
  BY <1>1, <1>2
<1>4. /\ t \in Int /\ t >= Idle
      /\ x.busy = 0 /\ x.timeout >= 0 => t = x.timeout + timerStep
  BY <1>1, <1>2 DEF Counting, Idle
<1>5. Aged(x) = [x EXCEPT !.busy = b, !.timeout = t]
  BY DEF Aged
<1> HIDE DEF b, t
<1>6. Aged(x) = [timeout |-> t, busy |-> b, known |-> x.known, key |-> x.key]
  BY <1>2, <1>5
<1>7. QED
  BY <1>2, <1>3, <1>4, <1>6

LEMMA AfterTickIs ==
  ASSUME UseInv, NEW h \in Linked
  PROVE  /\ AfterTick(h) \in Conn
         /\ Removed(h) => Expired(h) /\ AfterTick(h) = NoConnection
         /\ ~Removed(h) => AfterTick(h).key = con[h].key
         /\ ~Expired(h) => AfterTick(h) = Aged(con[h])
<1>1. h \in Host /\ con[h] \in Conn /\ timerStep \in Steps
  BY LinkedIs DEF UseInv, ChainInv, DeviceInv
<1>2. HostTimeout \in Nat \ {0}
  BY SpeakerAssumption DEF SpeakerAssumption
<1>3. /\ Aged(con[h]) \in [timeout: Int, busy: 0..BusyTimeout, known: BOOLEAN, key: BOOLEAN]
      /\ Aged(con[h]).timeout >= Idle /\ Aged(con[h]).key = con[h].key
  BY <1>1, AgedIs
<1>4. Removed(h) => Expired(h)
  <2> SUFFICES ASSUME Removed(h) PROVE Expired(h)
    OBVIOUS
  <2>1. PICK i, j \in DOMAIN conn :
          /\ i <= j /\ conn[i] = h /\ \A k \in i..j : Expired(conn[k])
    BY DEF Removed
  <2>2. i \in i..j
    BY <2>1 DEF UseInv, ChainInv
  <2>3. QED
    BY <2>1, <2>2
<1>5. CASE Removed(h)
  BY <1>4, <1>5, NoConnectionIs DEF AfterTick
<1>6. CASE ~Removed(h) /\ Expired(h)
  <2>1. AfterTick(h) = [Aged(con[h]) EXCEPT !.timeout = Idle, !.known = FALSE]
    BY <1>6 DEF AfterTick
  <2>2. Idle \in Idle..(HostTimeout - 1)
    BY <1>2 DEF Idle
  <2>3. QED
    BY <1>3, <1>6, <2>1, <2>2 DEF Conn
<1>7. CASE ~Removed(h) /\ ~Expired(h)
  <2>1. AfterTick(h) = Aged(con[h])
    BY <1>7 DEF AfterTick
  <2>2. Aged(con[h]).timeout < HostTimeout
    BY <1>2, <1>3, <1>7 DEF Expired
  <2>3. Aged(con[h]).timeout \in Idle..(HostTimeout - 1)
    BY <1>2, <1>3, <2>2 DEF Idle
  <2>4. QED
    BY <1>3, <1>7, <2>1, <2>3 DEF Conn
<1>8. QED
  BY <1>4, <1>5, <1>6, <1>7

(* MaxHits ticks are not enough for a connection to expire.                *)
LEMMA TooYoung ==
  ASSUME hits \in Nat, hits < MaxHits, NEW t \in 0..(hits * TockTock), timerStep \in Steps
  PROVE  t + timerStep \in 0..((hits + 1) * TockTock) /\ t + timerStep < HostTimeout
<1>1. TockTock \in Nat /\ MaxHits \in Nat /\ HostTimeout \in Nat
      /\ MaxHits * TockTock < HostTimeout
  BY SpeakerAssumption DEF SpeakerAssumption
<1>2. timerStep \in Nat /\ timerStep <= TockTock
  BY StepsAre
<1>3. (hits + 1) * TockTock = hits * TockTock + TockTock /\ hits * TockTock \in Nat
  BY <1>1
<1>4. (hits + 1) * TockTock <= MaxHits * TockTock
  <2>1. PICK d \in Nat : MaxHits = (hits + 1) + d
    <3>1. MaxHits - (hits + 1) \in Nat /\ MaxHits = (hits + 1) + (MaxHits - (hits + 1))
      BY <1>1
    <3>2. QED
      BY <3>1
  <2>2. ((hits + 1) + d) * TockTock = (hits + 1) * TockTock + d * TockTock
    BY <1>1
  <2>3. d * TockTock \in Nat /\ (hits + 1) * TockTock \in Nat
    BY <1>1
  <2>4. QED
    BY <2>1, <2>2, <2>3
<1> DEFINE u == (hits + 1) * TockTock
           v == MaxHits * TockTock
<1>5. u \in Nat /\ v \in Nat /\ t \in Nat /\ t + timerStep <= u
  BY <1>1, <1>2, <1>3
<1>6. u <= v /\ v < HostTimeout
  BY <1>1, <1>4
<1> HIDE DEF u, v
<1>7. t + timerStep \in 0..u /\ t + timerStep < HostTimeout
  BY <1>1, <1>2, <1>5, <1>6
<1>8. QED
  BY <1>7 DEF u

(* A sweep takes off the chain what it frees, and nothing else.            *)
LEMMA AlarmIs ==
  ASSUME UseInv, Alarm
  PROVE  /\ conn' \in Seq(Host) /\ IsInjective(conn')
         /\ Linked' = {h \in Linked : ~Removed(h)}
         /\ con' \in [Host -> Conn]
         /\ \A h \in Linked : con'[h] = AfterTick(h)
         /\ \A h \in Host : h \in Linked' \/ con'[h] = NoConnection
<1> DEFINE T == {h \in Linked : ~Removed(h)}
<1>1. conn \in Seq(Host) /\ IsInjective(conn) /\ con \in [Host -> Conn]
  BY DEF UseInv, ChainInv
<1>2. Linked = Range(conn) /\ Linked \subseteq Host
  BY <1>1, LinkedIs
<1>3. conn' = Kept(conn, T)
  BY DEF Alarm
<1>4. conn' \in Seq(Host) /\ IsInjective(conn') /\ Range(conn') = Range(conn) \cap T
  BY <1>1, <1>3, KeptRange
<1>5. Linked' = T
  <2>1. Linked' = Range(conn')
    BY DEF Linked, ToSet, Range
  <2>2. QED
    BY <1>2, <1>4, <2>1
<1>6. con' = [h \in Host |-> IF h \in Linked THEN AfterTick(h) ELSE con[h]]
  BY DEF Alarm
<1>7. \A h \in Linked : con'[h] = AfterTick(h) /\ AfterTick(h) \in Conn
  BY <1>2, <1>6, AfterTickIs
<1>8. \A h \in Host \ Linked : con'[h] = con[h] /\ con[h] \in Conn /\ con[h] = NoConnection
  BY <1>1, <1>6 DEF UseInv, ChainInv
<1>9. con' \in [Host -> Conn]
  <2>1. \A h \in Host : (IF h \in Linked THEN AfterTick(h) ELSE con[h]) \in Conn
    BY <1>7, <1>8
  <2>2. QED
    BY <1>6, <2>1
<1>10. ASSUME NEW h \in Host, h \notin T PROVE con'[h] = NoConnection
  <2>1. CASE h \in Linked
    BY <1>7, <1>10, <2>1, AfterTickIs
  <2>2. CASE h \notin Linked
    BY <1>8, <2>2
  <2>3. QED
    BY <2>1, <2>2
<1>11. QED
  BY <1>4, <1>5, <1>7, <1>9, <1>10

LEMMA AlarmKeeps == UseInv /\ Alarm => ChainInv' /\ HandInv'
<1> SUFFICES ASSUME UseInv, Alarm PROVE ChainInv' /\ HandInv'
  OBVIOUS
<1>1. UNCHANGED <<dobusy, main>> /\ hits \in 0..MaxHits /\ MaxHits \in Nat
  BY SpeakerAssumption DEF SpeakerAssumption, Alarm, option, UseInv, ChainInv
<1>2. \/ main = Waiting /\ hits' = 0
      \/ main # Waiting /\ hits < MaxHits /\ hits' = hits + 1
  BY DEF Alarm
<1>3. hits' \in 0..MaxHits
  BY <1>1, <1>2
<1>4. ChainInv'
  BY <1>1, <1>3, AlarmIs DEF ChainInv, UseInv
<1>5. ASSUME main # Waiting
      PROVE  /\ main.c \in Linked' /\ con'[main.c].busy = 0
             /\ con'[main.c].timeout \in 0..(hits' * TockTock)
  <2> DEFINE x == con[main.c]
  <2>1. main.c \in Linked /\ x.busy = 0 /\ x.timeout \in 0..(hits * TockTock)
    BY <1>5 DEF UseInv, HandInv
  <2>2. x \in Conn /\ timerStep \in Steps
    BY <2>1, LinkedIs DEF UseInv, ChainInv, DeviceInv
  <2>3. x.timeout + timerStep \in 0..((hits + 1) * TockTock) /\ x.timeout + timerStep < HostTimeout
    BY <1>1, <1>2, <1>5, <2>1, <2>2, TooYoung
  <2>4. x.timeout >= 0
    BY <2>1, <2>2 DEF Conn
  <2>5. Aged(x).busy = 0 /\ Aged(x).timeout = x.timeout + timerStep
    BY <2>1, <2>2, <2>4, AgedIs
  <2>6. ~Expired(main.c)
    <3>1. x.timeout + timerStep \in Int /\ HostTimeout \in Int
      BY <2>2, StepsAre, SpeakerAssumption DEF SpeakerAssumption, Conn, Idle
    <3>2. QED
      BY <2>3, <2>5, <3>1 DEF Expired
  <2>7. ~Removed(main.c) /\ AfterTick(main.c) = Aged(x)
    BY <2>1, <2>6, AfterTickIs
  <2>8. main.c \in Linked' /\ con'[main.c] = Aged(x)
    BY <2>1, <2>7, AlarmIs
  <2>9. QED
    BY <1>2, <1>5, <2>3, <2>5, <2>8
<1>6. HandInv'
  BY <1>1, <1>5 DEF UseInv, HandInv
<1>7. QED
  BY <1>4, <1>6

LEMMA AlarmDevice == DeviceInv /\ Alarm => DeviceInv'
<1> SUFFICES ASSUME DeviceInv, Alarm PROVE DeviceInv'
  OBVIOUS
<1>1. /\ timerStep \in Nat \ {0} /\ Jitter \in Nat /\ JitterIdle \in Nat
      /\ jitterwait \in 0..Jitter /\ jitteridle \in 0..JitterIdle
      /\ waiting \in BOOLEAN /\ audiotime \in Nat /\ dev \in {"speaker", "mike", None}
  BY StepsAre, SpeakerAssumption DEF SpeakerAssumption, DeviceInv
<1>2. active' \in BOOLEAN
  BY DEF Alarm, StillActive
<1>3. waiting' \in BOOLEAN
  BY DEF Alarm
<1>4. dev' \in {"speaker", "mike", None}
  BY <1>1 DEF Alarm
<1>5. audiotime' \in Nat
  <2>1. audiotime' \in {0, audiotime + timerStep, audiotime}
    BY DEF Alarm
  <2>2. QED
    BY <1>1, <2>1
<1>6. jitterwait' \in 0..Jitter
  <2>1. jitterwait' = IF Flushed THEN 0
                      ELSE IF waiting /\ jitterwait > 0 THEN jitterwait - timerStep
                      ELSE jitterwait
    BY DEF Alarm
  <2>2. QED
    BY <1>1, <2>1 DEF Flushed
<1>7. jitteridle' \in 0..JitterIdle
  <2>1. PICK s \in {Windtimer("speaker", jitteridle, active'), timerStep} :
          jitteridle' = IF jitteridle > s THEN jitteridle - s ELSE 0
    BY DEF Alarm
  <2>2. s \in Nat
    BY <1>1, <2>1, StepsAre
  <2>3. QED
    BY <1>1, <2>1, <2>2
<1>8. timerStep' \in Steps
  BY StepsAre DEF Alarm
<1>9. UNCHANGED mike
  BY DEF Alarm
<1>10. QED
  BY <1>2, <1>3, <1>4, <1>5, <1>6, <1>7, <1>8, <1>9 DEF DeviceInv

LEMMA UseInit == Init => UseInv
<1> SUFFICES ASSUME Init PROVE UseInv
  OBVIOUS
<1>1. conn = << >> /\ con = [h \in Host |-> NoConnection] /\ dobusy \in BOOLEAN /\ hits = 0
  BY DEF Init
<1>2. 0 \in 0..MaxHits /\ 0 \in 0..Jitter /\ 0 \in 0..JitterIdle /\ 0 \in 0..Tries
  BY SpeakerAssumption DEF SpeakerAssumption
<1>3. IsInjective(conn)
  BY <1>1 DEF IsInjective
<1>4. ChainInv
  BY <1>1, <1>2, <1>3, NoConnectionIs DEF ChainInv
<1>5. HandInv
  BY DEF Init, HandInv, Waiting
<1>6. DeviceInv
  BY <1>2 DEF Init, DeviceInv, Steps
<1>7. QED
  BY <1>4, <1>5, <1>6, MuteInit DEF UseInv

(* What sfmike does is no business of the chain.                           *)
LEMMA MikeKeeps ==
  ASSUME UseInv, Talk \/ Ask \/ Try \/ Fail \/ Freeaudio \/ Killed \/ Lose
  PROVE  ChainInv' /\ HandInv' /\ DeviceInv'
<1>1. UNCHANGED speakerVars
  BY DEF Talk, Ask, Try, Fail, Freeaudio, Killed, Lose, speakerVars
<1>2. UNCHANGED <<dobusy, conn, con, main, hits, audiotime, jitterwait, jitteridle, waiting, timerStep, active>>
  BY <1>1 DEF speakerVars, jitterVars
<1>3. ChainInv' /\ HandInv'
  BY <1>2 DEF UseInv, ChainInv, HandInv, Linked
<1>4. Tries \in Nat \ {0} /\ mike.tries \in 0..Tries /\ dev \in {"speaker", "mike", None}
  BY SpeakerAssumption DEF SpeakerAssumption, UseInv, DeviceInv
<1>5. mike'.tries \in 0..Tries /\ (mike'.pc \in {"ask", "try"} => mike'.tries > 0)
  <2>1. CASE Talk
    BY <1>4, <2>1 DEF Talk
  <2>2. CASE Ask
    BY <1>4, <2>2 DEF Ask, UseInv, DeviceInv, MuteInv
  <2>3. CASE Try
    <3>1. mike.tries > 0 /\ mike.pc = "try"
      BY <2>3 DEF Try, UseInv, DeviceInv
    <3>2. CASE mike' = [mike EXCEPT !.pc = "talk"]
      BY <1>4, <3>2 DEF UseInv, MuteInv
    <3>3. CASE mike' = [tries |-> mike.tries - 1,
                        pc |-> IF mike.tries > 1 THEN "ask" ELSE "fail"]
      BY <1>4, <3>1, <3>3
    <3>4. QED
      BY <2>3, <3>2, <3>3 DEF Try
  <2>4. CASE Fail
    BY <1>4, <2>4 DEF Fail, UseInv, MuteInv
  <2>5. CASE Freeaudio \/ Killed
    BY <1>4, <2>5 DEF Freeaudio, Killed
  <2>6. CASE Lose
    BY <1>4, <2>6 DEF Lose, UseInv, DeviceInv
  <2>7. QED
    BY <2>1, <2>2, <2>3, <2>4, <2>5, <2>6
<1>6. dev' \in {"speaker", "mike", None}
  BY <1>4 DEF Talk, Ask, Try, Fail, Freeaudio, Killed, Lose
<1>7. DeviceInv'
  BY <1>2, <1>5, <1>6 DEF UseInv, DeviceInv
<1>8. QED
  BY <1>3, <1>7

LEMMA UseStep == UseInv /\ [Next]_vars => UseInv'
<1> SUFFICES ASSUME UseInv, [Next]_vars PROVE ChainInv' /\ HandInv' /\ DeviceInv'
  BY MuteStep DEF UseInv
<1>1. ASSUME NEW h \in Host, NEW k, Receive(h, k), k \in {"sound", "key"} => h \in Remote
      PROVE  ChainInv' /\ HandInv' /\ DeviceInv'
  <2>1. ChainInv' /\ HandInv' /\ dev' \in {dev, None}
    BY <1>1, ReceiveIs
  <2>2. UNCHANGED <<audiotime, jitterwait, jitteridle, waiting, timerStep, active, mike>>
    BY <1>1 DEF Receive, jitterVars
  <2>3. DeviceInv'
    BY <2>1, <2>2 DEF UseInv, DeviceInv
  <2>4. QED
    BY <2>1, <2>3
<1>2. CASE ReceiveRemote
  <2>1. PICK h \in Remote, k \in {"sound", "id", "bye", "junk", "key"} : Receive(h, k)
    BY <1>2 DEF ReceiveRemote
  <2>2. QED
    BY <1>1, <2>1 DEF Host
<1>3. CASE ReceiveLocal
  <2>1. Receive(Local, Head(lo)) /\ lo # << >> /\ lo \in Seq(Request)
    BY <1>3 DEF ReceiveLocal, UseInv, MuteInv
  <2>2. Head(lo) \notin {"sound", "key"}
    BY <2>1 DEF Request
  <2>3. QED
    BY <1>1, <2>1, <2>2 DEF Host
<1>4. CASE Play
  <2>1. UNCHANGED <<dobusy, conn, con, hits, active, mike>>
    BY <1>4 DEF Play, option
  <2>2. main' = Waiting \/ main' = [main EXCEPT !.pc = "append"]
    BY <1>4 DEF Play
  <2>3. main # Waiting /\ main.c \in Linked
    BY <1>4 DEF Play, Waiting, UseInv, HandInv
  <2>4. ChainInv' /\ UNCHANGED Linked
    BY <2>1 DEF UseInv, ChainInv, Linked
  <2>5. HandInv'
    <3>1. CASE main' = Waiting
      BY <3>1 DEF HandInv, Waiting
    <3>2. CASE main' = [main EXCEPT !.pc = "append"]
      <4>1. main' \in [pc: {"recvfrom", "sound", "append", "key"}, c: Remote \cup {None}]
            /\ main'.c = main.c /\ main'.pc = "append"
        BY <3>2 DEF UseInv, HandInv
      <4>2. QED
        BY <2>1, <2>3, <2>4, <4>1 DEF UseInv, HandInv
    <3>3. QED
      BY <2>2, <3>1, <3>2
  <2>6. Jitter \in Nat /\ JitterIdle \in Nat
    BY SpeakerAssumption DEF SpeakerAssumption
  <2>7. /\ dev' \in {"speaker", "mike", None} /\ audiotime' \in Nat /\ timerStep' \in Steps
        /\ waiting' \in BOOLEAN
    BY <1>4, StepsAre DEF Play, Obtainaudio, UseInv, DeviceInv
  <2>8. jitterwait' \in 0..Jitter /\ jitteridle' \in 0..JitterIdle
    BY <1>4, <2>6 DEF Play, UseInv, DeviceInv
  <2>9. DeviceInv'
    BY <2>1, <2>7, <2>8 DEF UseInv, DeviceInv
  <2>10. QED
    BY <2>4, <2>5, <2>9
<1>5. CASE Queue
  <2>1. /\ UNCHANGED <<dobusy, conn, con, hits, dev, audiotime, jitterwait, jitteridle, active, mike>>
        /\ main' = Waiting /\ waiting' = TRUE
    BY <1>5 DEF Queue, option
  <2>2. timerStep' \in Steps
    BY <1>5, StepsAre DEF Queue, UseInv, DeviceInv
  <2>3. ChainInv' /\ DeviceInv'
    BY <2>1, <2>2 DEF UseInv, ChainInv, DeviceInv, Linked
  <2>4. HandInv'
    BY <2>1 DEF HandInv, Waiting
  <2>5. QED
    BY <2>3, <2>4
<1>6. CASE DecodeKey
  <2>1. /\ UNCHANGED <<dobusy, conn, hits, dev, audiotime, jitterwait, jitteridle, waiting, timerStep, active, mike>>
        /\ main' = Waiting
    BY <1>6 DEF DecodeKey, option, jitterVars
  <2>2. PICK ok \in BOOLEAN : con' = [con EXCEPT ![main.c].key = ok]
    BY <1>6 DEF DecodeKey
  <2>3. main.c \in Linked /\ main.c \in Host
    BY <1>6, LinkedIs DEF DecodeKey, Waiting, UseInv, HandInv, ChainInv
  <2>4. con' = [con EXCEPT ![main.c] = [con[main.c] EXCEPT !.key = ok]]
    BY <2>2
  <2>5. [con[main.c] EXCEPT !.key = ok] \in Conn
    BY <2>3 DEF Conn, UseInv, ChainInv
  <2>6. con' \in [Host -> Conn] /\ \A h \in Host : h # main.c => con'[h] = con[h]
    BY <2>3, <2>4, <2>5 DEF UseInv, ChainInv
  <2>7. ChainInv' /\ DeviceInv'
    BY <2>1, <2>3, <2>6 DEF UseInv, ChainInv, DeviceInv, Linked
  <2>8. HandInv'
    BY <2>1 DEF HandInv, Waiting
  <2>9. QED
    BY <2>7, <2>8
<1>7. CASE Alarm
  BY <1>7, AlarmKeeps, AlarmDevice DEF UseInv
<1>8. CASE Talk \/ Ask \/ Try \/ Fail \/ Freeaudio \/ Killed \/ Lose
  BY <1>8, MikeKeeps
<1>9. CASE UNCHANGED vars
  <2>1. UNCHANGED <<dobusy, conn, con, main, hits, dev, audiotime, jitterwait, jitteridle, waiting, timerStep, active, mike>>
    BY <1>9 DEF vars, option, jitterVars
  <2>2. QED
    BY <2>1 DEF UseInv, ChainInv, HandInv, DeviceInv, Linked
<1>10. QED
  BY <1>2, <1>3, <1>4, <1>5, <1>6, <1>7, <1>8, <1>9 DEF Next

LEMMA UseAlways == Spec => []UseInv
BY UseInit, UseStep, PTL DEF Spec

(* Whoever calls, in whatever order connections were made, expire and are  *)
(* swept off the chain, and whichever of them have keys: release() does    *)
(* not free the connection the main loop is working on (speaker.c          *)
(* 717-835, 2497-3370), and every variable keeps its type.                 *)
THEOREM InUseAlways == Spec => []InUse
<1>1. UseInv => InUse
  <2> SUFFICES ASSUME UseInv PROVE InUse
    OBVIOUS
  <2>1. Linked \subseteq Host
    BY LinkedIs DEF UseInv, ChainInv
  <2>2. \A h \in Host : con[h] \in Conn /\ (h \in Linked \/ con[h] = NoConnection)
    BY DEF UseInv, ChainInv
  <2>3. ToSet(lo) \subseteq {"mute", "resume"}
    BY DEF UseInv, MuteInv, Request, ToSet
  <2>4. \A h \in Host :
          /\ con[h].timeout \in Idle..(HostTimeout - 1)
          /\ con[h].busy \in 0..BusyTimeout
          /\ con[h].known \in BOOLEAN /\ con[h].key \in BOOLEAN
          /\ h \in Linked \/ con[h] = NoConnection
    BY <2>2 DEF Conn
  <2>5. TypeOK
    BY <2>1, <2>3, <2>4 DEF UseInv, MuteInv, ChainInv, HandInv, DeviceInv, Steps, TypeOK
  <2>6. main # Waiting => main.c \in Linked
    BY DEF UseInv, HandInv
  <2>7. QED
    BY <2>5, <2>6 DEF InUse
<1>2. QED
  BY <1>1, UseAlways, PTL

-----------------------------------------------------------------------------
(* A decoded key outlives silence. *)

LEMMA KeyStep ==
  ASSUME UseInv, Next, NEW h \in Linked, con[h].key, main # [pc |-> "key", c |-> h],
         ~con'[h].key
  PROVE  \E i, j \in DOMAIN conn :
           /\ i < j /\ conn[i] = h
           /\ ~con[conn[j]].key /\ con'[conn[j]] = NoConnection
<1>0. h \in Host /\ con \in [Host -> Conn] /\ conn \in Seq(Host)
  BY LinkedIs DEF UseInv, ChainInv
<1>1. ASSUME NEW o \in Host, NEW k, Receive(o, k), k \in {"sound", "key"} => o \in Remote
      PROVE  con'[h].key = con[h].key
  <2>1. con' = [con EXCEPT ![o] = con'[o]] /\ con'[o].key = con[o].key
    BY <1>1, ReceiveIs
  <2>2. h # o => con'[h] = con[h]
    BY <1>0, <2>1
  <2>3. QED
    BY <2>1, <2>2
<1>2. CASE ReceiveRemote
  <2>1. PICK o \in Remote, k \in {"sound", "id", "bye", "junk", "key"} : Receive(o, k)
    BY <1>2 DEF ReceiveRemote
  <2>2. QED
    BY <1>1, <2>1 DEF Host
<1>3. CASE ReceiveLocal
  <2>1. Receive(Local, Head(lo)) /\ lo # << >> /\ lo \in Seq(Request)
    BY <1>3 DEF ReceiveLocal, UseInv, MuteInv
  <2>2. Head(lo) \notin {"sound", "key"}
    BY <2>1 DEF Request
  <2>3. QED
    BY <1>1, <2>1, <2>2 DEF Host
<1>4. CASE DecodeKey
  <2>1. PICK ok \in BOOLEAN : con' = [con EXCEPT ![main.c].key = ok]
    BY <1>4 DEF DecodeKey
  <2>2. main.c # h
    BY <1>4 DEF DecodeKey, UseInv, HandInv
  <2>3. QED
    BY <1>0, <2>1, <2>2
<1>5. CASE Alarm
  <2>1. con'[h] = AfterTick(h)
    BY <1>5, AlarmIs
  <2>2. Removed(h)
    BY <2>1, AfterTickIs
  <2>3. PICK i, j \in DOMAIN conn :
          /\ i <= j /\ conn[i] = h /\ ~con[conn[j]].key
          /\ \A k \in i..j : Expired(conn[k])
    BY <2>2 DEF Removed
  <2>4. i \in Nat /\ j \in Nat /\ i # j
    BY <1>0, <2>3
  <2>5. j \in i..j /\ j \in j..j /\ \A k \in j..j : k = j
    BY <2>3, <2>4
  <2>6. conn[j] \in Linked /\ Removed(conn[j])
    BY <2>3, <2>4, <2>5 DEF Removed, Linked, ToSet
  <2>7. con'[conn[j]] = NoConnection
    BY <1>5, <2>6, AlarmIs, AfterTickIs
  <2>8. QED
    BY <2>3, <2>4, <2>7
<1>6. CASE Play \/ Queue
  BY <1>6 DEF Play, Queue
<1>7. CASE Talk \/ Ask \/ Try \/ Fail \/ Freeaudio \/ Killed \/ Lose
  BY <1>7 DEF Talk, Ask, Try, Fail, Freeaudio, Killed, Lose, speakerVars
<1>8. QED
  BY <1>2, <1>3, <1>4, <1>5, <1>6, <1>7 DEF Next

(* However long the chain is and however many connections expire at once:  *)
(* a session key is lost only with a connection further down the chain     *)
(* that expires without one, or to a key that cannot be decoded            *)
(* (speaker.c 782-812).                                                    *)
THEOREM KeyOutlivesSilence == Spec => KeyKept
<1>1. UseInv /\ [Next]_vars =>
        [\A h \in Linked :
           con[h].key /\ main # [pc |-> "key", c |-> h]
             => \/ con'[h].key
                \/ \E i, j \in DOMAIN conn :
                     /\ i < j /\ conn[i] = h
                     /\ ~con[conn[j]].key /\ con'[conn[j]] = NoConnection]_vars
  BY KeyStep
<1>2. QED
  BY <1>1, UseAlways, PTL DEF Spec, KeyKept

-----------------------------------------------------------------------------
(* sfmike gets the device. *)

LEMMA MoreIs ==
  ASSUME NEW n \in Nat
  PROVE  More(n) \in Nat /\ More(n) >= n /\ (More(n) >= n + 1 \/ n >= Tries)
BY SpeakerAssumption DEF SpeakerAssumption, More

LEMMA GetsTypes ==
  ASSUME UseInv, GetsInv
  PROVE  /\ lost \in Nat /\ late \in Nat /\ Misses \in Nat /\ Asked \in 0..Tries
         /\ Tries \in Nat \ {0} /\ lo \in Seq(Request)
         /\ mike.pc \in {"ask", "try"} => Asked + 1 <= Tries
<1>1. lost \in Nat /\ late \in Nat /\ Tries \in Nat \ {0} /\ lo \in Seq(Request)
  BY SpeakerAssumption DEF SpeakerAssumption, UseInv, MuteInv, GetsInv
<1>2. mike.tries \in 0..Tries /\ (mike.pc \in {"ask", "try"} => mike.tries > 0)
  BY DEF UseInv, DeviceInv
<1>3. Misses \in Nat
  BY <1>1 DEF Misses
<1>4. Asked \in 0..Tries /\ (mike.pc \in {"ask", "try"} => Asked + 1 <= Tries)
  BY <1>1, <1>2 DEF Asked
<1>5. QED
  BY <1>1, <1>3, <1>4

LEMMA GetsInit == Init => GetsInv
<1> SUFFICES ASSUME Init PROVE GetsInv
  OBVIOUS
<1>1. None # "mike"
  BY SpeakerAssumption DEF SpeakerAssumption
<1>2. QED
  BY <1>1 DEF Init, GetsInv

(* What sfspeaker does without a request does not spoil what was reached.  *)
LEMMA GetsHarmless ==
  ASSUME UseInv, GetsInv, UNCHANGED <<mike, lo, lost, late>>,
         Calm => Calm',
         Calm /\ ~waiting => ~waiting',
         Calm /\ dev # "speaker" /\ ~waiting => dev' # "speaker",
         Calm /\ (dev # "speaker" \/ ~waiting) => dev' # "speaker" \/ ~waiting',
         dev' = "mike" => dev = "mike"
  PROVE  GetsInv'
<1>1. UNCHANGED <<Misses, Asked>>
  BY DEF Misses, Asked
<1>2. \A n : Excused(n) => Excused(n)'
  BY <1>1 DEF Excused
<1>3. \A n : Obeyed(n) => Obeyed(n)'
  BY <1>1 DEF Obeyed
<1>4. mike.pc = "ask" => Excused(Asked)'
  BY <1>1, <1>2 DEF GetsInv
<1>5. mike.pc = "try" => \/ lo # << >> /\ lo[Len(lo)] = "mute" /\ Excused(Asked)'
                        \/ Excused(Asked + 1)'
                        \/ Obeyed(Asked)'
  BY <1>1, <1>2, <1>3 DEF GetsInv
<1>6. QED
  BY <1>1, <1>4, <1>5 DEF GetsInv

LEMMA GetsRemote ==
  ASSUME UseInv, GetsInv, ReceiveRemote PROVE GetsInv'
<1>1. PICK h \in Remote, k \in {"sound", "id", "bye", "junk", "key"} : Receive(h, k)
  BY DEF ReceiveRemote
<1>2. UNCHANGED <<waiting, late, mike, lo>> /\ main = Waiting
  BY <1>1 DEF Receive, jitterVars, ReceiveRemote
<1>3. h # Local /\ k \notin {"mute", "resume"}
  BY <1>1, SpeakerAssumption DEF SpeakerAssumption
<1>4. /\ UNCHANGED <<lost, muted>>
      /\ dev' = dev \/ (dev = "speaker" /\ dev' = None)
      /\ main' = Waiting \/ (~muted /\ main'.pc = k)
  <2>1. CASE Reject(h)
    BY <1>2, <1>3, <2>1 DEF Reject, Silence
  <2>2. CASE Discard(h)
    BY <1>2, <1>3, <2>2 DEF Discard
  <2>3. CASE Act(h, k)
    BY <1>3, <2>3 DEF Act
  <2>4. QED
    BY <1>1, <2>1, <2>2, <2>3 DEF Receive
<1>5. Calm => Calm'
  BY <1>4 DEF Calm, Waiting
<1>6. None \notin {"speaker", "mike"}
  BY SpeakerAssumption DEF SpeakerAssumption
<1>7. QED
  BY <1>2, <1>4, <1>5, <1>6, GetsHarmless

LEMMA GetsAlarm ==
  ASSUME UseInv, GetsInv, Alarm PROVE GetsInv'
<1>1. UNCHANGED <<main, muted, mike, lo, lost, late>>
  BY DEF Alarm, history
<1>2. Calm => Calm'
  BY <1>1 DEF Calm
<1>3. /\ waiting' = (waiting /\ ~Flushed) /\ (Flushed => waiting)
      /\ dev' = "speaker" => dev = "speaker" \/ Flushed
      /\ dev' = "mike" => dev = "mike"
  BY SpeakerAssumption DEF SpeakerAssumption, Alarm, Flushed
<1>4. waiting \in BOOLEAN
  BY DEF UseInv, DeviceInv
<1>5. QED
  BY <1>1, <1>2, <1>3, <1>4, GetsHarmless

LEMMA GetsHandling ==
  ASSUME UseInv, GetsInv, Play \/ Queue \/ DecodeKey PROVE GetsInv'
<1>1. UNCHANGED <<muted, mike, lo, lost, late>>
  BY DEF Play, Queue, DecodeKey, history
<1>2. Calm => DecodeKey
  BY DEF Calm, Play, Queue
<1>3. DecodeKey => UNCHANGED <<waiting, dev>> /\ main' = Waiting
  BY DEF DecodeKey, jitterVars
<1>4. Calm => Calm' /\ UNCHANGED <<waiting, dev>>
  BY <1>1, <1>2, <1>3 DEF Calm, Waiting
<1>5. dev' = "mike" => dev = "mike"
  BY DEF Play, Queue, DecodeKey, Obtainaudio
<1>6. QED
  BY <1>1, <1>4, <1>5, GetsHarmless

LEMMA Sums ==
  ASSUME NEW n \in Nat, NEW m \in Nat, NEW k \in Nat, m >= n
  PROVE  /\ m + k \in Nat /\ m + k >= n + k /\ m + k >= n
         /\ m >= n + 1 => m + k >= n + k + 1
         /\ \A t \in Nat : n >= t => m + k >= t
OBVIOUS

(* A request is obeyed, or one more was missed.                            *)
LEMMA GetsLocal ==
  ASSUME UseInv, GetsInv, ReceiveLocal PROVE GetsInv'
<1>1. /\ lo # << >> /\ lo \in Seq(Request) /\ lo' = Tail(lo) /\ Receive(Local, Head(lo))
      /\ lost \in Nat /\ late \in Nat /\ Misses \in Nat /\ Asked \in 0..Tries
      /\ Tries \in Nat /\ (mike.pc \in {"ask", "try"} => Asked + 1 <= Tries)
      /\ waiting \in BOOLEAN
  BY GetsTypes DEF ReceiveLocal, UseInv, DeviceInv
<1>2. UNCHANGED <<waiting, late, mike>>
  BY <1>1 DEF Receive, jitterVars
<1>3. None \notin {"speaker", "mike"}
  BY SpeakerAssumption DEF SpeakerAssumption
<1> DEFINE k == lo[1]
<1>4. Head(lo) = k /\ k \in Request /\ Len(lo) \in Nat \ {0}
  BY <1>1
<1>5. /\ main' = Waiting /\ (dev' = "mike" => dev = "mike")
      /\ \/ UNCHANGED muted /\ lost' = More(lost)
         \/ UNCHANGED lost /\ (k = "mute" => muted' /\ dev' # "speaker")
  <2>0. main = Waiting
    BY <1>1 DEF Receive
  <2>1. CASE Reject(Local)
    BY <1>3, <2>0, <2>1 DEF Reject, Silence
  <2>2. CASE Discard(Local)
    BY <2>0, <2>2 DEF Discard
  <2>3. CASE Act(Local, k)
    <3>1. main' = Waiting /\ UNCHANGED lost
      BY <1>4, <2>3 DEF Act, Request
    <3>2. CASE k = "mute"
      BY <1>3, <2>3, <3>1, <3>2 DEF Act, Mute, Silence
    <3>3. CASE k # "mute"
      <4>1. UNCHANGED dev
        BY <1>4, <2>3, <3>3 DEF Act, Resume, Request
      <4>2. QED
        BY <3>1, <3>3, <4>1
    <3>4. QED
      BY <3>2, <3>3
  <2>4. QED
    BY <1>1, <1>4, <2>1, <2>2, <2>3 DEF Receive
<1>6. /\ Misses' \in Nat /\ Misses' >= Misses /\ UNCHANGED Asked
      /\ UNCHANGED muted /\ lost' = More(lost) =>
           Misses' >= Misses + 1 \/ Misses' >= Tries
  <2>1. /\ lost' \in Nat /\ lost' >= lost
        /\ UNCHANGED muted /\ lost' = More(lost) => lost' >= lost + 1 \/ lost >= Tries
    <3> DEFINE more == More(lost)
    <3>1. more \in Nat /\ more >= lost /\ (more >= lost + 1 \/ lost >= Tries)
      BY <1>1, MoreIs
    <3>2. lost' = more \/ lost' = lost
      BY <1>5
    <3> HIDE DEF more
    <3>3. lost' \in Nat /\ lost' >= lost
      BY <1>1, <3>1, <3>2
    <3>4. lost' = more => lost' >= lost + 1 \/ lost >= Tries
      BY <3>1
    <3>5. QED
      BY <3>3, <3>4 DEF more
  <2>2. Misses = lost + late /\ Misses' = lost' + late
    BY <1>2 DEF Misses
  <2>3. UNCHANGED Asked
    BY <1>2 DEF Asked
  <2>4. late \in Nat /\ lost \in Nat /\ Tries \in Nat
    BY <1>1
  <2>5. Misses' \in Nat /\ Misses' >= Misses
    BY <2>2, <2>4, <2>1, Sums
  <2>6. lost' >= lost + 1 => Misses' >= Misses + 1
    BY <2>2, <2>4, <2>1, Sums
  <2>7. lost >= Tries => Misses' >= Tries
    BY <2>2, <2>4, <2>1, Sums
  <2>8. QED
    BY <2>1, <2>3, <2>5, <2>6, <2>7
<1>7. Len(lo') = Len(lo) - 1 /\ DOMAIN lo' = 1..Len(lo) - 1 /\ \A i \in 1..Len(lo) - 1 : lo'[i] = lo[i + 1]
  BY <1>1
<1>8. (\A i \in DOMAIN lo : lo[i] = "mute") =>
        k = "mute" /\ \A i \in DOMAIN lo' : lo'[i] = "mute"
  BY <1>1, <1>4, <1>7
<1>9. muted /\ k = "mute" => Calm'
  BY <1>5 DEF Calm, Waiting
<1>10. \A n \in Int : Excused(n) => Excused(n)'
  BY <1>1, <1>2, <1>6, <1>8, <1>9 DEF Excused, Calm
<1>11. ASSUME mike.pc = "try", lo[Len(lo)] = "mute", Excused(Asked)
       PROVE  \/ lo' # << >> /\ lo'[Len(lo')] = "mute" /\ Excused(Asked)'
              \/ Excused(Asked + 1)'
              \/ Obeyed(Asked)'
  <2>1. CASE Len(lo) > 1
    <3> DEFINE m == Len(lo) - 1
    <3>1. m \in 1..Len(lo) - 1 /\ m + 1 = Len(lo) /\ Len(lo') = m
      BY <1>4, <1>7, <2>1
    <3>2. lo'[m] = lo[m + 1]
      BY <1>7, <3>1
    <3>3. lo'[Len(lo')] = "mute" /\ lo' # << >>
      BY <1>11, <3>1, <3>2
    <3>4. Excused(Asked)'
      BY <1>1, <1>6, <1>10, <1>11
    <3>5. QED
      BY <3>3, <3>4
  <2>2. CASE Len(lo) = 1
    <3>1. lo' = << >> /\ k = "mute"
      BY <1>1, <1>7, <1>11, <2>2
    <3>2. CASE UNCHANGED muted /\ lost' = More(lost)
      <4>1. Misses' >= Misses + 1 \/ Misses' >= Asked + 1
        BY <1>1, <1>6, <1>11, <3>2
      <4>2. CASE Misses >= Asked
        <5>1. Misses' >= Asked + 1
          BY <1>1, <1>6, <4>1, <4>2
        <5>2. QED
          BY <1>6, <5>1 DEF Excused
      <4>3. CASE Misses >= Asked - 1 /\ Calm /\ ~waiting
        <5>1. Misses' >= (Asked + 1) - 1
          BY <1>1, <1>6, <4>1, <4>3
        <5>2. Calm' /\ ~waiting' /\ \A i \in DOMAIN lo' : lo'[i] = "mute"
          BY <1>2, <1>9, <3>1, <4>3 DEF Calm
        <5>3. QED
          BY <1>6, <5>1, <5>2 DEF Excused
      <4>4. QED
        BY <1>11, <4>2, <4>3 DEF Excused
    <3>3. CASE UNCHANGED lost /\ muted' /\ dev' # "speaker"
      <4>1. Calm' /\ UNCHANGED Misses
        BY <1>2, <1>5, <3>3 DEF Calm, Waiting, Misses
      <4>2. Obeyed(Asked)'
        BY <1>1, <1>2, <1>6, <1>11, <3>1, <3>3, <4>1 DEF Excused, Obeyed
      <4>3. QED
        BY <4>2
    <3>4. QED
      BY <1>5, <3>1, <3>2, <3>3
  <2>3. Len(lo) = 1 \/ Len(lo) > 1
    BY <1>4
  <2>4. QED
    BY <2>1, <2>2, <2>3
<1>12. mike'.pc = "ask" => Excused(Asked)'
  BY <1>1, <1>2, <1>6, <1>10 DEF GetsInv
<1>13. mike'.pc = "try" =>
         \/ lo' # << >> /\ lo'[Len(lo')] = "mute" /\ Excused(Asked)'
         \/ Excused(Asked + 1)'
         \/ Obeyed(Asked)'
  <2>1. Excused(Asked + 1) => Excused(Asked + 1)'
    BY <1>1, <1>6, <1>10
  <2>2. ~Obeyed(Asked)
    BY <1>1 DEF Obeyed
  <2>3. QED
    BY <1>2, <1>11, <2>1, <2>2 DEF GetsInv
<1>14. mike'.pc = "fail" => Misses' >= Tries - 1
  BY <1>1, <1>2, <1>6 DEF GetsInv
<1>15. late' \in Nat /\ (dev' = "mike" => mike'.pc = "talk")
  BY <1>1, <1>2, <1>5 DEF GetsInv
<1>16. QED
  BY <1>12, <1>13, <1>14, <1>15 DEF GetsInv

(* A datagram that is lost is one that was missed.                         *)
LEMMA GetsLose ==
  ASSUME UseInv, GetsInv, Lose PROVE GetsInv'
<1>1. /\ lost \in Nat /\ late \in Nat /\ Misses \in Nat /\ Asked \in 0..Tries
      /\ Tries \in Nat /\ lo \in Seq(Request)
  BY GetsTypes
<1>2. PICK i \in 1..Len(lo) : lo' = RemoveAt(lo, i)
  BY <1>1 DEF Lose
<1>3. UNCHANGED <<waiting, main, muted, dev, mike, late>> /\ lost' = lost + 1
  BY DEF Lose, speakerVars, jitterVars
<1>4. Misses' = Misses + 1 /\ UNCHANGED <<Asked, Calm>>
  BY <1>1, <1>3 DEF Misses, Asked, Calm
<1>5. (\A k \in DOMAIN lo : lo[k] = "mute") => \A k \in DOMAIN lo' : lo'[k] = "mute"
  <2>1. /\ Len(lo') = Len(lo) - 1 /\ lo' \in Seq(Request)
        /\ \A k \in 1..Len(lo) - 1 : lo'[k] = IF k < i THEN lo[k] ELSE lo[k + 1]
    BY <1>1, <1>2, RemoveAtIs
  <2>2. Len(lo) \in Nat /\ DOMAIN lo' = 1..Len(lo) - 1 /\ DOMAIN lo = 1..Len(lo)
    BY <1>1, <2>1
  <2>3. \A k \in 1..Len(lo) - 1 : k \in DOMAIN lo /\ k + 1 \in DOMAIN lo
    BY <2>2
  <2>4. QED
    BY <2>1, <2>2, <2>3
<1>6. \A n \in Int : Excused(n) => Excused(n)' /\ Excused(n + 1)'
  BY <1>1, <1>3, <1>4, <1>5 DEF Excused
<1>7. ~Obeyed(Asked)
  BY DEF Obeyed, Lose
<1>8. mike'.pc = "ask" => Excused(Asked)'
  BY <1>1, <1>3, <1>4, <1>6 DEF GetsInv
<1>9. mike'.pc = "try" => Excused(Asked + 1)'
  <2>1. Asked \in Int /\ Asked + 1 \in Int
    BY <1>1
  <2>2. Excused(Asked) => Excused(Asked + 1)'
    BY <1>4, <1>6, <2>1
  <2>3. Excused(Asked + 1) => Excused(Asked + 1)'
    BY <1>4, <1>6, <2>1
  <2>4. QED
    BY <1>3, <1>7, <2>2, <2>3 DEF GetsInv
<1>10. mike'.pc = "fail" => Misses' >= Tries - 1
  BY <1>1, <1>3, <1>4 DEF GetsInv
<1>11. late' \in Nat /\ (dev' = "mike" => mike'.pc = "talk")
  BY <1>1, <1>3 DEF GetsInv
<1>12. QED
  BY <1>8, <1>9, <1>10, <1>11 DEF GetsInv

(* A try that fails without a request under way was frustrated.            *)
LEMMA GetsTry ==
  ASSUME UseInv, GetsInv, Try PROVE GetsInv'
<1>1. /\ lost \in Nat /\ late \in Nat /\ Misses \in Nat /\ Asked \in 0..Tries
      /\ Tries \in Nat /\ lo \in Seq(Request) /\ Asked + 1 <= Tries
      /\ mike.tries \in 0..Tries /\ mike.tries > 0 /\ mike.pc = "try"
  BY GetsTypes DEF Try, UseInv, DeviceInv
<1>2. UNCHANGED <<waiting, main, muted, lo, lost>>
  BY DEF Try, speakerVars, jitterVars
<1>3. late' = IF lo = << >> THEN late ELSE More(late)
  BY DEF Try
<1>4. CASE dev = None
  <2>1. mike' = [mike EXCEPT !.pc = "talk"]
    BY <1>4 DEF Try
  <2>2. mike'.pc = "talk"
    BY <2>1 DEF UseInv, MuteInv
  <2>3. late' \in Nat
    BY <1>1, <1>3, MoreIs
  <2>4. QED
    BY <2>2, <2>3 DEF GetsInv
<1>5. CASE dev # None
  <2>1. UNCHANGED dev /\ mike' = [tries |-> mike.tries - 1,
                                  pc |-> IF mike.tries > 1 THEN "ask" ELSE "fail"]
    BY <1>5 DEF Try
  <2>2. /\ mike'.tries = mike.tries - 1
        /\ mike'.pc = IF mike.tries > 1 THEN "ask" ELSE "fail"
    BY <2>1
  <2>3. dev = "speaker"
    BY <1>1, <1>5 DEF UseInv, DeviceInv, GetsInv
  <2>4. Asked' = Asked + 1 /\ (mike'.pc = "fail" => Asked' = Tries)
    BY <1>1, <2>2 DEF Asked
  <2>5. late' \in Nat /\ Misses' \in Nat /\ Misses' >= Misses
    <3>1. PICK n \in Nat : n = late' /\ n >= late
      <4>1. More(late) \in Nat /\ More(late) >= late
        BY <1>1, MoreIs
      <4>2. QED
        BY <1>1, <1>3, <4>1
    <3>2. n + lost \in Nat /\ n + lost >= late + lost
      BY <1>1, <3>1, Sums
    <3>3. Misses' = lost + n /\ Misses = lost + late
      BY <1>2, <3>1 DEF Misses
    <3>4. lost + n = n + lost /\ lost + late = late + lost
      BY <1>1, <3>1
    <3>5. Misses' = n + lost /\ Misses = late + lost
      BY <3>3, <3>4
    <3>6. QED
      BY <3>1, <3>2, <3>5
  <2>6. lo # << >> => Misses' >= Misses + 1 \/ Misses' >= Tries
    <3> SUFFICES ASSUME lo # << >> PROVE Misses' >= Misses + 1 \/ Misses' >= Tries
      OBVIOUS
    <3> DEFINE more == More(late)
    <3>1. more \in Nat /\ more >= late /\ (more >= late + 1 \/ late >= Tries)
      BY <1>1, MoreIs
    <3> HIDE DEF more
    <3>2. /\ more + lost >= late + lost /\ more + lost >= late
          /\ more >= late + 1 => more + lost >= late + lost + 1
          /\ late >= Tries => more + lost >= Tries
      BY <1>1, <3>1, Sums
    <3>3. Misses' = more + lost /\ Misses = late + lost
      <4>1. Misses' = lost + more /\ Misses = lost + late
        BY <1>2, <1>3 DEF Misses, more
      <4>2. QED
        BY <1>1, <3>1, <4>1
    <3>4. QED
      BY <3>1, <3>2, <3>3
  <2>7. UNCHANGED Calm
    BY <1>2 DEF Calm
  <2>8. Misses' >= Asked + 1 \/ (Misses' >= Asked /\ Calm /\ ~waiting /\ \A i \in DOMAIN lo : lo[i] = "mute")
    <3>1. CASE lo # << >> /\ Excused(Asked)
      BY <1>1, <2>5, <2>6, <3>1 DEF Excused
    <3>2. CASE Excused(Asked + 1)
      BY <1>1, <2>5, <3>2 DEF Excused
    <3>3. CASE Obeyed(Asked)
      <4>1. lo = << >> /\ DOMAIN lo = {}
        BY <3>3 DEF Obeyed
      <4>2. Misses >= Asked /\ ~waiting /\ Calm
        BY <2>3, <3>3 DEF Obeyed
      <4>3. QED
        BY <1>1, <2>5, <4>1, <4>2
    <3>4. QED
      BY <1>1, <3>1, <3>2, <3>3 DEF GetsInv
  <2>9. Excused(Asked)'
    BY <1>1, <1>2, <2>4, <2>5, <2>7, <2>8 DEF Excused
  <2>10. mike'.pc = "fail" => Misses' >= Tries - 1
    BY <1>1, <2>4, <2>5, <2>8
  <2>11. mike'.pc # "try" /\ dev' # "mike"
    BY <2>1, <2>2, <2>3
  <2>12. QED
    BY <2>5, <2>9, <2>10, <2>11 DEF GetsInv
<1>6. QED
  BY <1>4, <1>5

LEMMA GetsMike ==
  ASSUME UseInv, GetsInv, Talk \/ Ask \/ Fail \/ Freeaudio \/ Killed PROVE GetsInv'
<1>1. /\ lost \in Nat /\ late \in Nat /\ Misses \in Nat /\ Asked \in 0..Tries
      /\ Tries \in Nat /\ lo \in Seq(Request)
  BY GetsTypes
<1>2. None # "mike"
  BY SpeakerAssumption DEF SpeakerAssumption
<1>3. CASE Talk
  <2>1. /\ mike'.pc = "ask" /\ mike'.tries = Tries /\ lost' = 0 /\ late' = 0
        /\ mike.pc = "pause" /\ UNCHANGED dev
    BY <1>3 DEF Talk
  <2>2. Misses' = 0 /\ Asked' = 0
    BY <1>1, <2>1 DEF Misses, Asked
  <2>3. Excused(Asked)'
    BY <2>2 DEF Excused
  <2>4. QED
    BY <2>1, <2>3 DEF GetsInv
<1>4. CASE Ask
  <2>1. /\ mike.pc = "ask" /\ mike'.pc = "try" /\ mike'.tries = mike.tries
        /\ lo' = Append(lo, "mute")
        /\ UNCHANGED <<dev, lost, late, waiting, main, muted>>
    BY <1>4 DEF Ask, Send, speakerVars, jitterVars, history, UseInv, MuteInv
  <2>2. /\ lo' # << >> /\ lo'[Len(lo')] = "mute"
        /\ (\A i \in DOMAIN lo : lo[i] = "mute") => \A i \in DOMAIN lo' : lo'[i] = "mute"
    BY <1>1, <2>1
  <2>3. UNCHANGED <<Misses, Asked, Calm>>
    BY <2>1 DEF Misses, Asked, Calm
  <2>4. Excused(Asked)'
    BY <1>1, <2>1, <2>2, <2>3 DEF Excused, GetsInv
  <2>5. QED
    BY <1>1, <2>1, <2>2, <2>4 DEF GetsInv
<1>5. CASE Fail \/ Freeaudio
  <2>1. mike'.pc = "pause"
    BY <1>5 DEF Fail, Freeaudio, UseInv, MuteInv
  <2>2. late' \in Nat /\ dev' # "mike"
    BY <1>1, <1>2, <1>5 DEF Fail, Freeaudio, history, GetsInv
  <2>3. QED
    BY <2>1, <2>2 DEF GetsInv
<1>6. CASE Killed
  <2>1. mike'.pc = "pause" /\ UNCHANGED late /\ dev' # "mike"
    BY <1>2, <1>6 DEF Killed
  <2>2. QED
    BY <1>1, <2>1 DEF GetsInv
<1>7. QED
  BY <1>3, <1>4, <1>5, <1>6

(* Half-duplex audio hardware does not keep the user from talking: however *)
(* often it asks, sfmike fails to get the device only if every request but *)
(* one was lost or was obeyed too late (mike.c 1038-1082).                 *)
THEOREM GetsAudioAlways == Spec => []GetsAudio
<1>1. UseInv /\ GetsInv /\ [Next]_vars => GetsInv'
  <2> SUFFICES ASSUME UseInv, GetsInv, [Next]_vars PROVE GetsInv'
    OBVIOUS
  <2>1. CASE UNCHANGED vars
    <3>1. UNCHANGED <<main, dev, waiting, muted, mike, lo, lost, late>>
      BY <2>1 DEF vars, jitterVars, history
    <3>2. UNCHANGED Calm
      BY <3>1 DEF Calm
    <3>3. QED
      BY <3>1, <3>2, GetsHarmless
  <2>2. QED
    BY <2>1, GetsRemote, GetsLocal, GetsHandling, GetsAlarm, GetsTry, GetsMike, GetsLose DEF Next
<1>2. GetsInv => GetsAudio
  BY DEF GetsInv, GetsAudio, Misses
<1>3. QED
  BY <1>1, <1>2, UseAlways, GetsInit, PTL DEF Spec
=============================================================================
