------------------------------ MODULE Speaker ------------------------------
(***************************************************************************)
(* One workstation with half-duplex audio hardware: sfspeaker              *)
(* (src/speaker.c, built with HALF_DUPLEX) that plays what its             *)
(* correspondents send, and sfmike (src/mike.c) that takes the device from *)
(* it to talk.  sfspeaker's main loop handles one datagram after another;  *)
(* SIGALRM runs release() on top of it wherever it stands.  sfmike asks    *)
(* for the device with datagrams from localhost, which may be lost.        *)
(*                                                                         *)
(* A datagram is looked up and classified in one step; release() may run   *)
(* before the sound is played, before it is put on the jitter queue and    *)
(* while PGP decodes a key.  Face transfer is in FaceTransfer, robust      *)
(* transmission in Robust, Look Who's Listening in LwlServers.             *)
(***************************************************************************)
EXTENDS Integers, FiniteSets, Sequences, SequencesExt, Chains

CONSTANTS
    Remote,         \* correspondents
    Local,          \* localhost: what sfmike sends comes from there
    None,
    HostTimeout, BusyTimeout, AudioRelease,
    Jitter, JitterIdle,             \* jitter delay and idle time
    TockTock, TickTock, JitterTock, \* the timer's steps
    Tries,          \* how often sfmike asks for the device
    MaxHits,        \* bound: SIGALRMs while one datagram is handled
    MaxLost,        \* bound: local datagrams lost while sfmike is used once
    MaxBacklog      \* bound: local datagrams waiting when Talk is pressed

ASSUME SpeakerAssumption ==
    /\ {HostTimeout, BusyTimeout, AudioRelease, Jitter, JitterIdle,
        TockTock, TickTock, JitterTock, Tries} \subseteq Nat \ {0}
    /\ {MaxHits, MaxLost, MaxBacklog} \subseteq Nat
    /\ JitterTock <= TickTock /\ TickTock <= TockTock
    /\ MaxHits * TockTock < HostTimeout
    /\ Local \notin Remote /\ None \notin Remote \cup {"speaker", "mike"}

VARIABLES
    dobusy,     \* option -b: turn callers away while somebody is connected
    conn,       \* the chain of connections, newest first
    con,        \* host |-> what its connection holds
    main,       \* the main loop: [pc, c]
    hits,       \* SIGALRMs since the datagram in hand was received
    dev,        \* who has the audio device: "speaker", "mike" or None
    audiotime,  \* how long the speaker has had it unused (to AudioRelease)
    jitterwait, jitteridle,
    waiting,    \* is there sound in the jitter queue?
    timerStep,
    active,     \* actives > 0
    muted,      \* sfspeaker's halfDuplexMuted
    mike,       \* sfmike: [pc, tries]
    lo,         \* its datagrams to sfspeaker
    lost,       \* history: of this use of sfmike, those never acted on
    late        \* history: times it tried with one still under way

option == <<dobusy>>
jitterVars == <<jitterwait, jitteridle, waiting>>
history == <<lost, late>>
vars == <<dobusy, conn, con, main, hits, dev, audiotime, jitterVars,
          timerStep, active, muted, mike, lo, history>>

Host == Remote \cup {Local}
Idle == -1
Linked == ToSet(conn)
NoConnection == [timeout |-> Idle, busy |-> 0, known |-> FALSE, key |-> FALSE]
Waiting == [pc |-> "recvfrom", c |-> None]

(* A history count, as far as the properties look. *)
More(n) == IF n < Tries THEN n + 1 ELSE n

Init ==
    /\ dobusy \in BOOLEAN /\ conn = <<>> /\ con = [h \in Host |-> NoConnection]
    /\ main = Waiting /\ hits = 0 /\ dev = None /\ audiotime = 0
    /\ jitterwait = 0 /\ jitteridle = 0 /\ waiting = FALSE
    /\ timerStep = TockTock /\ active = FALSE /\ muted = FALSE
    /\ mike = [pc |-> "pause", tries |-> 0] /\ lo = <<>> /\ lost = 0 /\ late = 0

-----------------------------------------------------------------------------
(* The main loop of sfspeaker. *)

(* windtimer(), once the device is d, the jitter idle time j, and there    *)
(* are active hosts or not.                                                *)
Windtimer(d, j, a) ==
    IF d = "speaker" \/ a THEN (IF j > 0 THEN JitterTock ELSE TickTock)
    ELSE TockTock

(* obtainaudio() fails while sfmike records. *)
Obtainaudio(d) == IF d = None THEN "speaker" ELSE d

IsNew(h) == h \notin Linked \/ con[h].timeout = Idle
IsBusy(h) == dobusy /\ \E o \in Linked \ {h} : con[o].known

(* Mutant: only a new connection's time-out starts again. *)
TouchedNew(h) ==
    IF IsNew(h) THEN [NoConnection EXCEPT !.timeout = 0, !.key = con[h].key]
    ELSE con[h]

(* The connection of a host that a datagram has come from.  The PGP key of *)
(* one that was idle is kept.                                              *)
Touched(h) ==
    IF IsNew(h) THEN [NoConnection EXCEPT !.timeout = 0, !.key = con[h].key]
    ELSE [con[h] EXCEPT !.timeout = 0]

(* How the connection c comes out of a datagram that says k. *)
Told(c, k) ==
    CASE k = "bye"  -> [c EXCEPT !.known = FALSE, !.timeout = HostTimeout - 1]
      [] k = "junk" -> [c EXCEPT !.known = FALSE]
      [] OTHER      -> [c EXCEPT !.known = TRUE]

Silence == dev' = IF dev = "speaker" THEN None ELSE dev

(* Mutant: the device is kept. *)
MuteLater == muted' = TRUE /\ UNCHANGED dev

Mute == muted' = TRUE /\ Silence
Resume == muted' = FALSE /\ UNCHANGED dev

(* What is done with a datagram that is neither rejected nor discarded. *)
Act(h, k) ==
    /\ con' = [con EXCEPT ![h] = Told(Touched(h), k)]
    /\ CASE k = "mute"   -> Mute
         [] k = "resume" -> Resume
         [] OTHER        -> UNCHANGED <<muted, dev>>
    /\ main' = IF k \in {"sound", "key"} /\ ~muted THEN [pc |-> k, c |-> h]
               ELSE Waiting
    /\ UNCHANGED lost

(* Turned away with a busy signal, whose process must not inherit the      *)
(* device.                                                                 *)
Reject(h) ==
    /\ con' = [con EXCEPT ![h] = [Touched(h) EXCEPT !.busy = BusyTimeout]]
    /\ Silence
    /\ lost' = IF h = Local THEN More(lost) ELSE lost
    /\ UNCHANGED <<main, muted>>

(* Mutant: every datagram of a caller turned away starts the busy signal's *)
(* time again.                                                             *)
DiscardAgain(h) ==
    /\ con' = [con EXCEPT ![h] = [Touched(h) EXCEPT !.busy = BusyTimeout]]
    /\ lost' = IF h = Local THEN More(lost) ELSE lost
    /\ UNCHANGED <<main, muted, dev>>

Discard(h) ==
    /\ con' = [con EXCEPT ![h] = Touched(h)]
    /\ lost' = IF h = Local THEN More(lost) ELSE lost
    /\ UNCHANGED <<main, muted, dev>>

Receive(h, k) ==
    /\ main = Waiting /\ hits' = 0
    /\ conn' = IF h \in Linked THEN conn ELSE <<h>> \o conn
    /\ IF IsNew(h) /\ IsBusy(h) THEN Reject(h)
       ELSE IF Touched(h).busy > 0 THEN Discard(h)
       ELSE Act(h, k)
    /\ UNCHANGED <<option, audiotime, jitterVars, timerStep, active, mike, late>>

ReceiveRemote ==
    /\ \E h \in Remote, k \in {"sound", "id", "bye", "junk", "key"} : Receive(h, k)
    /\ UNCHANGED lo

ReceiveLocal ==
    /\ lo # <<>> /\ lo' = Tail(lo)
    /\ Receive(Local, Head(lo))

(* playbuffer().  The sound starts a new jitter delay after a pause, and   *)
(* is played at once, after what is waiting, when the delay is over.       *)
Play ==
    /\ main.pc = "sound"
    /\ audiotime' = 0
    /\ dev' = Obtainaudio(dev)
    /\ timerStep' = IF dev = None THEN Windtimer(dev', jitteridle, active)
                    ELSE timerStep
    /\ jitterwait' = IF jitteridle = 0 /\ jitterwait = 0 THEN Jitter
                     ELSE jitterwait
    /\ jitteridle' = JitterIdle
    /\ IF jitterwait' > 0 THEN main' = [main EXCEPT !.pc = "append"] /\ UNCHANGED waiting
       ELSE main' = Waiting /\ waiting' = FALSE
    /\ UNCHANGED <<option, conn, con, hits, active, muted, mike, lo, history>>

(* The sound is put on the jitter queue, which release() may have flushed  *)
(* in between.                                                             *)
Queue ==
    /\ main.pc = "append" /\ main' = Waiting
    /\ waiting' = TRUE
    /\ timerStep' = IF waiting THEN timerStep ELSE Windtimer(dev, jitteridle, active)
    /\ UNCHANGED <<option, conn, con, hits, dev, audiotime, jitterwait,
                   jitteridle, active, muted, mike, lo, history>>

(* PGP has decoded the session key, or could not. *)
DecodeKey ==
    /\ main.pc = "key" /\ main' = Waiting
    /\ \E ok \in BOOLEAN : con' = [con EXCEPT ![main.c].key = ok]
    /\ UNCHANGED <<option, conn, hits, dev, audiotime, jitterVars, timerStep,
                   active, muted, mike, lo, history>>

-----------------------------------------------------------------------------
(* SIGALRM: release(). *)

Counting(c) == c.timeout >= 0 /\ c.timeout < HostTimeout

(* One tick of a connection; one whose busy signal ends is made to expire. *)
Aged(c) ==
    LET busy == IF c.busy > timerStep THEN c.busy - timerStep ELSE 0
    IN  [c EXCEPT !.busy = busy,
                  !.timeout = IF c.busy > 0 /\ busy = 0 THEN HostTimeout
                              ELSE IF Counting(c) THEN @ + timerStep ELSE @]

Expired(h) == h \in Linked /\ Aged(con[h]).timeout >= HostTimeout

(* Mutant: whatever expires is freed. *)
RemovedAlways(h) == Expired(h)

(* A connection that expires without a key is taken off the chain, and     *)
(* with it those with a key just before it that expire in the same tick:   *)
(* the pointer to the last connection kept is not moved past them.         *)
Removed(h) ==
    \E i, j \in DOMAIN conn :
        /\ i <= j /\ conn[i] = h /\ ~con[conn[j]].key
        /\ \A k \in i..j : Expired(conn[k])

AfterTick(h) ==
    IF Removed(h) THEN NoConnection
    ELSE IF Expired(h) THEN [Aged(con[h]) EXCEPT !.timeout = Idle, !.known = FALSE]
    ELSE Aged(con[h])

StillActive ==
    Cardinality({h \in Linked : Counting(con[h])})
        > Cardinality({h \in Linked : Expired(h)})

Unused == dev = "speaker" /\ audiotime + timerStep >= AudioRelease

(* The delay of the jitter queue ends: it is flushed, which takes the      *)
(* device again whether sfspeaker is muted or not.                         *)
Flushed == waiting /\ jitterwait > 0 /\ jitterwait <= timerStep

Alarm ==
    /\ main = Waiting \/ hits < MaxHits
    /\ hits' = IF main = Waiting THEN 0 ELSE hits + 1
    /\ con' = [h \in Host |-> IF h \in Linked THEN AfterTick(h) ELSE con[h]]
    /\ conn' = Kept(conn, {h \in Linked : ~Removed(h)})
    /\ active' = StillActive
    /\ LET freed == IF Unused THEN None ELSE dev
           taken == Flushed /\ freed = None
           step == IF taken THEN Windtimer("speaker", jitteridle, active')
                   ELSE timerStep
       IN  /\ dev' = IF taken THEN "speaker" ELSE freed
           /\ audiotime' = IF Flushed /\ dev' = "speaker" THEN 0
                           ELSE IF dev = "speaker" /\ audiotime < AudioRelease
                                THEN audiotime + timerStep
                           ELSE audiotime
           /\ jitteridle' = IF jitteridle > step THEN jitteridle - step ELSE 0
    /\ waiting' = (waiting /\ ~Flushed)
    /\ jitterwait' = IF Flushed THEN 0
                     ELSE IF waiting /\ jitterwait > 0 THEN jitterwait - timerStep
                     ELSE jitterwait
    /\ timerStep' = Windtimer(dev', jitteridle', active')
    /\ UNCHANGED <<option, main, muted, mike, lo, history>>

-----------------------------------------------------------------------------
(* sfmike. *)

speakerVars == <<dobusy, conn, con, main, hits, audiotime, jitterVars,
                 timerStep, active, muted>>

Send(k) == lo' = Append(lo, k)

(* Space is pressed to talk. *)
Talk ==
    /\ mike.pc = "pause" /\ Len(lo) <= MaxBacklog
    /\ mike' = [pc |-> "ask", tries |-> Tries]
    /\ lost' = 0 /\ late' = 0
    /\ UNCHANGED <<speakerVars, dev, lo>>

(* getaudio(): ask sfspeaker, sleep, and try. *)
Ask ==
    /\ mike.pc = "ask"
    /\ mike' = [mike EXCEPT !.pc = "try"]
    /\ Send("mute")
    /\ UNCHANGED <<speakerVars, dev, history>>

Try ==
    /\ mike.pc = "try"
    /\ IF dev = None THEN dev' = "mike" /\ mike' = [mike EXCEPT !.pc = "talk"]
       ELSE /\ UNCHANGED dev
            /\ mike' = [tries |-> mike.tries - 1,
                        pc |-> IF mike.tries > 1 THEN "ask" ELSE "fail"]
    /\ late' = IF lo = <<>> THEN late ELSE More(late)
    /\ UNCHANGED <<speakerVars, lo, lost>>

(* It could not be had: undo what the requests did. *)
Fail ==
    /\ mike.pc = "fail" /\ mike' = [mike EXCEPT !.pc = "pause"]
    /\ Send("resume")
    /\ UNCHANGED <<speakerVars, dev, history>>

(* Mutant: no resume. *)
FreeaudioOnly ==
    /\ mike.pc = "talk" /\ mike' = [pc |-> "pause", tries |-> 0]
    /\ dev' = None
    /\ UNCHANGED <<speakerVars, lo, history>>

(* Space again, or a signal that ends sfmike: freeaudio(). *)
Freeaudio ==
    /\ mike.pc = "talk" /\ mike' = [pc |-> "pause", tries |-> 0]
    /\ dev' = None
    /\ Send("resume")
    /\ UNCHANGED <<speakerVars, history>>

(* sfmike is killed, or ended by a signal while it still asks, when        *)
(* freeaudio() takes nothing for muted: no resume is sent.                 *)
Killed ==
    /\ mike.pc # "pause" /\ mike' = [pc |-> "pause", tries |-> 0]
    /\ dev' = IF dev = "mike" THEN None ELSE dev
    /\ lost' = More(lost)
    /\ UNCHANGED <<speakerVars, lo, late>>

Lose ==
    /\ lo # <<>> /\ lost < MaxLost
    /\ \E i \in DOMAIN lo : lo' = RemoveAt(lo, i)
    /\ lost' = lost + 1
    /\ UNCHANGED <<speakerVars, dev, mike, late>>

Handling == Play \/ Queue \/ DecodeKey

Next ==
    \/ ReceiveRemote \/ ReceiveLocal \/ Play \/ Queue \/ DecodeKey \/ Alarm
    \/ Talk \/ Ask \/ Try \/ Fail \/ Freeaudio \/ Killed \/ Lose

(* What has begun to be handled is, and the timer runs.  Nothing is        *)
(* assumed of the senders, of the user, or of the order of processes.      *)
Spec == Init /\ [][Next]_vars /\ WF_vars(Handling) /\ WF_vars(Alarm)

-----------------------------------------------------------------------------
(* Properties. *)

TypeOK ==
    /\ dobusy \in BOOLEAN /\ active \in BOOLEAN /\ muted \in BOOLEAN
    /\ waiting \in BOOLEAN
    /\ Linked \subseteq Host /\ IsInjective(conn)
    /\ \A h \in Host :
         /\ con[h].timeout \in Idle..(HostTimeout - 1)
         /\ con[h].busy \in 0..BusyTimeout
         /\ con[h].known \in BOOLEAN /\ con[h].key \in BOOLEAN
         /\ h \in Linked \/ con[h] = NoConnection
    /\ main.pc \in {"recvfrom", "sound", "append", "key"}
    /\ main.c \in Remote \cup {None} /\ hits \in 0..MaxHits
    /\ dev \in {"speaker", "mike", None} /\ audiotime \in Nat
    /\ jitterwait \in 0..Jitter /\ jitteridle \in 0..JitterIdle
    /\ timerStep \in {TockTock, TickTock, JitterTock}
    /\ mike.pc \in {"pause", "ask", "try", "talk", "fail"}
    /\ mike.tries \in 0..Tries /\ ToSet(lo) \subseteq {"mute", "resume"}

(* The connection whose datagram the main loop handles stays on the chain: *)
(* release() frees only what has been silent for HostTimeout               *)
(* (speaker.c:717-835), whatever order connections were made in, however   *)
(* many expire in one tick and whatever keys they have.                    *)
InUse == TypeOK /\ (main # Waiting => main.c \in Linked)

(* sfspeaker is not left muted when sfmike has stopped: every request that *)
(* was acted on is taken back, unless a datagram got lost, was answered by *)
(* the busy signal, or was never sent because sfmike was killed.           *)
NotLeftMuted == mike.pc = "pause" /\ lo = <<>> /\ muted => lost > 0

(* sfmike gets the device within its Tries: all of them fail only if all   *)
(* requests were lost or came late, except one that the jitter queue may   *)
(* frustrate, when it is flushed and takes the device while muted.         *)
GetsAudio == mike.pc = "fail" => lost + late >= Tries - 1

(* A session key that PGP decoded outlives its connection's silence        *)
(* (speaker.c:795-798): a key is lost only with a connection further down  *)
(* the chain that expires in the same tick, or to a key that cannot be     *)
(* decoded.                                                                *)
KeyKept ==
    [][\A h \in Linked :
         con[h].key /\ main # [pc |-> "key", c |-> h]
           => \/ con'[h].key
              \/ \E i, j \in DOMAIN conn :
                   /\ i < j /\ conn[i] = h
                   /\ ~con[conn[j]].key /\ con'[conn[j]] = NoConnection]_vars

(* The busy signal ends, however often the caller tries: it can connect    *)
(* again after BusyTimeout (log.doc:1797-1822).                            *)
BusyEnds == \A h \in Remote : con[h].busy > 0 ~> con[h].busy = 0

(* When no more sound comes, the device is released to other programs.     *)
AudioFreed == <>[](main.pc # "sound") => <>[](dev # "speaker")

(* Neither the line nor the device is taken for ever.                       *)
Unblocks == BusyEnds /\ AudioFreed
=============================================================================
