------------------------ MODULE FaceTransferProofs -------------------------
(***************************************************************************)
(* Proofs about FaceTransfer for any hosts, faces, times and retries, when *)
(* every reply is there, or lost, before the next tick.                    *)
(***************************************************************************)
EXTENDS FaceTransfer, TLAPS, FiniteSetTheorems, SequenceTheorems

Conn == [timeout : -1..HostTimeout, known : BOOLEAN,
         stat : {"init", "request", "reply", "complete", "abandoned"},
         address : 0..Blocks, retry : 0..FaceMaxRetries + 1, wait : 0..FaceTimeout,
         file : {"none", "open", "closed"}, viewer : {0} \cup Viewers]

(* The first n blocks, in order. *)
UpTo(n) == [i \in 1..n |-> i - 1]

LEMMA UpToEmpty == UpTo(0) = << >>
  BY DEF UpTo

LEMMA UpToNext ==
  ASSUME NEW n \in Nat
  PROVE  UpTo(n) \in Seq(Nat) /\ Len(UpTo(n)) = n /\ Append(UpTo(n), n) = UpTo(n + 1)
<1>1. UpTo(n) \in Seq(Nat) /\ Len(UpTo(n)) = n
  BY DEF UpTo
<1>2. Append(UpTo(n), n) \in Seq(Nat) /\ Len(Append(UpTo(n), n)) = n + 1
  BY <1>1
<1>3. UpTo(n + 1) \in Seq(Nat) /\ Len(UpTo(n + 1)) = n + 1
  BY DEF UpTo
<1>4. ASSUME NEW i \in 1..n + 1 PROVE Append(UpTo(n), n)[i] = UpTo(n + 1)[i]
  <2>1. CASE i = n + 1
    <3>1. Append(UpTo(n), n)[i] = n
      BY <1>1, <2>1, AppendProperties
    <3>2. UpTo(n + 1)[i] = i - 1
      BY DEF UpTo
    <3>3. QED
      BY <2>1, <3>1, <3>2
  <2>2. CASE i # n + 1
    <3>1. i \in 1..n
      BY <2>2
    <3>2. Append(UpTo(n), n)[i] = UpTo(n)[i]
      BY <1>1, <3>1, AppendProperties
    <3>3. QED
      BY <3>1, <3>2 DEF UpTo
  <2>3. QED
    BY <2>1, <2>2
<1> DEFINE s == Append(UpTo(n), n)
           t == UpTo(n + 1)
<1>5. s \in Seq(Nat) /\ t \in Seq(Nat) /\ Len(s) = Len(t)
      /\ \A i \in 1..Len(s) : s[i] = t[i]
  BY <1>2, <1>3, <1>4
<1>6. s = t
  <2> HIDE DEF s, t
  <2>1. QED
    BY <1>5, SeqEqual
<1>7. QED
  BY <1>1, <1>6

(* The file of a connection belongs to what is done with it.               *)
ConnInv(c) ==
    /\ c \in Conn
    /\ c.stat = "init" => c.file = "none"
    /\ c.file = "open" => c.stat \in Fetching \cup {"complete"}
    /\ c.file = "closed" => c.stat = "abandoned"
    /\ c.stat # "complete" => c.viewer = 0
    /\ c.stat \in Fetching /\ c.file = "none" => c.address = 0

(* One datagram of a host is under way at most, for the block it waits for. *)
BoxInv(h) ==
    LET c == conn[h]
    IN  /\ reqs[h] \subseteq {c.address}
        /\ reps[h] \subseteq {Less, IF c.address < Blocks THEN c.address ELSE Eof}
        /\ reqs[h] = {} \/ reps[h] = {}
        /\ \A m, n \in reps[h] : m = n
        /\ reqs[h] \cup reps[h] # {} => c.stat = "request"

(* The viewer that is forked but not noted yet. *)
Unnoted(h) == IF main.at = "forked" THEN IF main.host = h THEN {main.viewer} ELSE {}
                                    ELSE {}

HostInv(h) ==
    /\ ConnInv(conn[h])
    /\ BoxInv(h)
    /\ written[h] = IF conn[h].file = "none" THEN << >> ELSE UpTo(conn[h].address)
    /\ \A u, v \in running[h] : u = v
    /\ main.at # "ended" =>
         running[h] \subseteq ({conn[h].viewer} \cup Unnoted(h)) \cap Viewers
    /\ Unnoted(h) # {} => conn[h].stat = "complete" /\ conn[h].viewer = 0

Main == {Ready, [at |-> "ended"]}
          \cup [at : {"forked"}, host : Hosts, viewer : Viewers]

Types ==
    /\ main \in Main
    /\ timerStep \in {FetchStep} \cup SlowSteps
    /\ conn \in [Hosts -> Conn]
    /\ reqs \in [Hosts -> SUBSET (0..Blocks)]
    /\ reps \in [Hosts -> SUBSET Reply]
    /\ running \in [Hosts -> SUBSET Viewers]
    /\ written \in [Hosts -> Seq(Nat)]

FileInv ==
    /\ Types
    /\ main.at # "ended" => litter = {}
    /\ \A h \in Hosts : HostInv(h)

LEMMA FileInit == Init => FileInv
<1> SUFFICES ASSUME Init PROVE FileInv
  OBVIOUS
<1>1. Idle \in Conn /\ Idle.address = 0 /\ Idle.stat = "init" /\ Idle.file = "none"
      /\ Idle.viewer = 0
  BY FaceAssumption DEF FaceAssumption, Idle, Conn
<1>2. ConnInv(Idle)
  BY <1>1 DEF ConnInv, Fetching
<1>3. main = Ready /\ Ready.at = "ready" /\ main \in Main
  BY DEF Init, Ready, Main
<1>4. /\ conn \in [Hosts -> Conn] /\ reqs \in [Hosts -> SUBSET (0..Blocks)]
      /\ reps \in [Hosts -> SUBSET Reply] /\ running \in [Hosts -> SUBSET Viewers]
      /\ written \in [Hosts -> Seq(Nat)]
  BY <1>1 DEF Init
<1>5. \A h \in Hosts : HostInv(h)
  BY <1>1, <1>2, <1>3 DEF Init, HostInv, BoxInv, Unnoted
<1>6. QED
  BY <1>3, <1>4, <1>5, FaceAssumption DEF FaceAssumption, Init, FileInv, Types, WindTimer

-----------------------------------------------------------------------------
(* One tick of one connection. *)

LEMMA TickedIs ==
  ASSUME NEW c, ConnInv(c), timerStep \in Nat \ {0}
  PROVE  /\ ConnInv(Ticked(c))
         /\ Expired(c) => Ticked(c) = Idle
         /\ ~Expired(c) => /\ Ticked(c).address = c.address
                           /\ Ticked(c).viewer = c.viewer
                           /\ Ticked(c).file = IF GivesUp(c) THEN "none" ELSE c.file
                           /\ c.stat = "complete" => Ticked(c).stat = "complete"
         /\ Asks(c) => ~Expired(c) /\ Ticked(c).stat = "request"
         /\ Ticked(c).stat \in Fetching <=> c.stat \in Fetching /\ ~Dropped(c)
<1>0. /\ c \in Conn /\ HostTimeout \in Nat \ {0} /\ FaceTimeout \in Nat \ {0}
      /\ FaceMaxRetries \in Nat /\ Blocks \in Nat
  BY FaceAssumption DEF FaceAssumption, ConnInv
<1>1. CASE Expired(c)
  <2>1. Ticked(c) = Idle /\ ~Asks(c)
    BY <1>1 DEF Ticked, Asks
  <2>2. ConnInv(Idle) /\ Idle.stat = "init"
    BY <1>0 DEF Idle, Conn, ConnInv, Fetching
  <2>3. QED
    BY <1>1, <2>1, <2>2 DEF Dropped, Fetching
<1> DEFINE d == Aged(c)
<1>2. CASE ~Expired(c)
  <2>1. /\ d \in Conn /\ d.stat = c.stat /\ d.address = c.address
        /\ d.viewer = c.viewer /\ d.file = c.file /\ d.retry = c.retry
        /\ d.wait = c.wait
    BY <1>0, <1>2 DEF Aged, Expired, Conn
  <2> HIDE DEF d
  <2>2. CASE GivesUp(c)
    <3>1. Ticked(c) = [d EXCEPT !.stat = "abandoned", !.file = "none"]
      BY <1>2, <2>2 DEF Ticked, d
    <3>2. ~Asks(c) /\ c.stat = "request" /\ Dropped(c)
      BY <2>2 DEF Asks, GivesUp, TimedOut, Dropped
    <3>3. QED
      BY <1>2, <2>1, <2>2, <3>1, <3>2 DEF Conn, ConnInv, Fetching
  <2>3. CASE ~GivesUp(c) /\ Asks(c)
    <3>1. c.stat \in Fetching /\ ~Dropped(c)
      BY <1>2, <2>3 DEF Asks, TimedOut, Dropped, Fetching
    <3> DEFINE n == IF c.stat = "reply" THEN 0 ELSE c.retry + 1
    <3>2. n \in 0..FaceMaxRetries + 1
      BY <1>0, <1>2, <2>3, <3>1 DEF GivesUp, Asks, Conn
    <3>3. Ticked(c) = [d EXCEPT !.stat = "request", !.wait = 0, !.retry = n]
      BY <1>2, <2>1, <2>3 DEF Ticked, Asked, d
    <3> HIDE DEF n
    <3>4. /\ Ticked(c) \in Conn /\ Ticked(c).stat = "request"
          /\ Ticked(c).address = c.address /\ Ticked(c).viewer = c.viewer
          /\ Ticked(c).file = c.file
      <4>1. 0 \in 0..FaceTimeout /\ "request" \in {"init", "request", "reply", "complete", "abandoned"}
        BY <1>0
      <4>2. QED
        BY <2>1, <3>2, <3>3, <4>1 DEF Conn
    <3>5. ConnInv(Ticked(c)) /\ c.stat # "complete"
      BY <3>1, <3>4 DEF ConnInv, Fetching
    <3>6. QED
      BY <1>2, <2>3, <3>1, <3>4, <3>5 DEF Fetching
  <2>4. CASE ~GivesUp(c) /\ ~Asks(c) /\ c.stat = "request"
    <3>1. c.wait + timerStep \in 0..FaceTimeout
      BY <1>0, <1>2, <2>4 DEF Asks, TimedOut, Conn
    <3>2. Ticked(c) = [d EXCEPT !.wait = c.wait + timerStep]
      BY <1>2, <2>1, <2>4 DEF Ticked, d
    <3>3. ~Dropped(c)
      BY <1>2, <2>4 DEF Dropped
    <3>4. QED
      BY <1>2, <2>1, <2>4, <3>1, <3>2, <3>3 DEF Conn, ConnInv, Fetching
  <2>5. CASE ~GivesUp(c) /\ ~Asks(c) /\ c.stat # "request"
    <3>1. Ticked(c) = d /\ ~Dropped(c)
      BY <1>2, <2>5 DEF Ticked, Dropped, d
    <3>2. QED
      BY <1>2, <2>1, <2>5, <3>1 DEF Conn, ConnInv, Fetching
  <2>6. QED
    BY <2>2, <2>3, <2>4, <2>5
<1>3. QED
  BY <1>1, <1>2

-----------------------------------------------------------------------------
(* What one step leaves alone keeps its part of the invariant. *)

LEMMA HostKept ==
  ASSUME NEW x, HostInv(x), main.at = "ended" => main'.at = "ended",
         UNCHANGED <<conn[x], reqs[x], reps[x], running[x], written[x], Unnoted(x)>>
  PROVE  HostInv(x)'
  BY DEF HostInv, BoxInv

(* A step of one host. *)
LEMMA OneHost ==
  ASSUME FileInv, NEW h \in Hosts, Types', HostInv(h)', UNCHANGED litter,
         main.at = "ended" => main'.at = "ended",
         \A x \in Hosts : x # h =>
           UNCHANGED <<conn[x], reqs[x], reps[x], running[x], written[x], Unnoted(x)>>
  PROVE  FileInv'
<1>1. ASSUME NEW x \in Hosts, x # h PROVE HostInv(x)'
  BY <1>1, HostKept DEF FileInv
<1>2. QED
  BY <1>1 DEF FileInv

(* A connection that changes in nothing that matters to its file.          *)
LEMMA SameFields ==
  ASSUME NEW h, HostInv(h), conn'[h] \in Conn,
         conn'[h].stat = conn[h].stat, conn'[h].file = conn[h].file,
         conn'[h].address = conn[h].address, conn'[h].viewer = conn[h].viewer,
         reqs'[h] \subseteq reqs[h], reps'[h] \subseteq reps[h],
         UNCHANGED <<running[h], written[h], Unnoted(h)>>,
         main.at = "ended" => main'.at = "ended"
  PROVE  HostInv(h)'
<1>1. ConnInv(conn'[h])
  BY DEF HostInv, ConnInv
<1>2. BoxInv(h)'
  BY DEF HostInv, BoxInv
<1>3. QED
  BY <1>1, <1>2 DEF HostInv

LEMMA HeardIs ==
  ASSUME FileInv, NEW h \in Hosts
  PROVE  /\ Heard(h) \in Conn /\ [Heard(h) EXCEPT !.known = TRUE] \in Conn
         /\ \A c \in {Heard(h), [Heard(h) EXCEPT !.known = TRUE]} :
              /\ c.stat = conn[h].stat /\ c.file = conn[h].file
              /\ c.address = conn[h].address /\ c.viewer = conn[h].viewer
<1>1. conn[h] \in Conn /\ 0 \in -1..HostTimeout
  BY FaceAssumption DEF FaceAssumption, FileInv, Types
<1>2. /\ Heard(h) \in Conn
      /\ Heard(h).stat = conn[h].stat /\ Heard(h).file = conn[h].file
      /\ Heard(h).address = conn[h].address /\ Heard(h).viewer = conn[h].viewer
  BY <1>1 DEF Heard, Conn
<1> DEFINE c == Heard(h)
           d == [c EXCEPT !.known = TRUE]
<1> HIDE DEF c
<1>3. /\ d \in Conn /\ d.stat = c.stat /\ d.file = c.file
      /\ d.address = c.address /\ d.viewer = c.viewer
  BY <1>2 DEF Conn, c
<1>4. QED
  BY <1>2, <1>3 DEF c

LEMMA ReadyIs ==
  /\ Ready \in Main /\ Ready.at = "ready"
  /\ main = Ready => \A h : Unnoted(h) = {}
  BY DEF Ready, Main, Unnoted

LEMMA SoundStep ==
  ASSUME FileInv, NEW h \in Hosts, NEW offer \in BOOLEAN, Sound(h, offer)
  PROVE  FileInv'
<1> DEFINE c == Heard(h)
<1>1. /\ c \in Conn /\ c.stat = conn[h].stat /\ c.file = conn[h].file
      /\ c.address = conn[h].address /\ c.viewer = conn[h].viewer
  BY HeardIs
<1>2. /\ main = Ready /\ UNCHANGED <<main, reqs, reps, running, written, litter>>
      /\ Types /\ HostInv(h) /\ conn \in [Hosts -> Conn]
      /\ \A x : Unnoted(x) = {} /\ Unnoted(x)' = {}
  BY ReadyIs DEF Sound, network, FileInv, Types, Unnoted
<1>3. timerStep' \in {FetchStep} \cup SlowSteps
  BY <1>2 DEF Sound, count, WindTimer, Types
<1>4. CASE Wants(c, offer)
  <2> DEFINE d == [c EXCEPT !.stat = "reply", !.address = 0, !.retry = 0, !.wait = 0]
  <2>1. conn' = [conn EXCEPT ![h] = d]
    BY <1>4 DEF Sound
  <2>2. /\ d \in Conn /\ d.stat = "reply" /\ d.address = 0 /\ d.file = c.file
        /\ d.viewer = c.viewer
    <3>1. 0 \in 0..Blocks /\ 0 \in 0..FaceMaxRetries + 1 /\ 0 \in 0..FaceTimeout
      BY FaceAssumption DEF FaceAssumption
    <3> HIDE DEF c
    <3>2. QED
      BY <1>1, <3>1 DEF Conn
  <2>3. c.stat = "init"
    BY <1>4 DEF Wants
  <2> HIDE DEF c, d
  <2>4. ConnInv(d) /\ d.file = "none"
    BY <1>1, <1>2, <2>2, <2>3 DEF HostInv, ConnInv, Fetching
  <2>5. reqs[h] = {} /\ reps[h] = {}
    BY <1>1, <1>2, <2>3 DEF HostInv, BoxInv
  <2>6. conn'[h] = d /\ conn' \in [Hosts -> Conn] /\ \A x \in Hosts : x # h => conn'[x] = conn[x]
    BY <1>2, <2>1, <2>2
  <2>7. HostInv(h)'
    BY <1>1, <1>2, <2>2, <2>3, <2>4, <2>5, <2>6 DEF HostInv, BoxInv, ConnInv
  <2>8. Types'
    BY <1>2, <1>3, <2>6 DEF Types
  <2>9. QED
    BY <1>2, <2>6, <2>7, <2>8, OneHost
<1>5. CASE ~Wants(c, offer)
  <2> DEFINE d == [c EXCEPT !.known = TRUE]
  <2>1. conn' = [conn EXCEPT ![h] = d]
    BY <1>5 DEF Sound
  <2>2. /\ d \in Conn /\ d.stat = c.stat /\ d.address = c.address /\ d.file = c.file
        /\ d.viewer = c.viewer
    BY <1>1 DEF Conn
  <2> HIDE DEF c, d
  <2>3. conn'[h] = d /\ conn' \in [Hosts -> Conn] /\ \A x \in Hosts : x # h => conn'[x] = conn[x]
    BY <1>2, <2>1, <2>2
  <2>4. HostInv(h)'
    BY <1>1, <1>2, <2>2, <2>3, SameFields
  <2>5. Types'
    BY <1>2, <1>3, <2>3 DEF Types
  <2>6. QED
    BY <1>2, <2>3, <2>4, <2>5, OneHost
<1>6. QED
  BY <1>4, <1>5

LEMMA ByeStep ==
  ASSUME FileInv, NEW h \in Hosts, Bye(h)
  PROVE  FileInv'
<1> DEFINE d == [conn[h] EXCEPT !.timeout = HostTimeout - 1, !.known = FALSE]
<1>1. /\ main = Ready /\ UNCHANGED <<main, timerStep, reqs, reps, running, written, litter>>
      /\ Types /\ HostInv(h) /\ conn \in [Hosts -> Conn]
      /\ \A x : Unnoted(x) = {} /\ Unnoted(x)' = {}
  BY ReadyIs DEF Bye, network, count, FileInv, Types, Unnoted
<1>2. conn' = [conn EXCEPT ![h] = d]
  BY DEF Bye
<1>3. conn[h] \in Conn /\ HostTimeout - 1 \in -1..HostTimeout
  BY <1>1, FaceAssumption DEF FaceAssumption
<1>4. /\ d \in Conn /\ d.stat = conn[h].stat /\ d.address = conn[h].address
      /\ d.file = conn[h].file /\ d.viewer = conn[h].viewer
  BY <1>3 DEF Conn
<1> HIDE DEF d
<1>5. conn'[h] = d /\ conn' \in [Hosts -> Conn] /\ \A x \in Hosts : x # h => conn'[x] = conn[x]
  BY <1>1, <1>2, <1>4
<1>6. HostInv(h)'
  BY <1>1, <1>4, <1>5, SameFields
<1>7. Types'
  BY <1>1, <1>5 DEF Types
<1>8. QED
  BY <1>1, <1>5, <1>6, <1>7, OneHost

(* What is known when a reply is received: it is the only one, and answers *)
(* the request the transfer waits for.                                     *)
LEMMA ReplyIs ==
  ASSUME FileInv, Delay = "tick", NEW h \in Hosts, NEW m \in reps[h],
         NEW box \in Left(reps[h], m), reps' = [reps EXCEPT ![h] = box]
  PROVE  /\ reqs[h] = {} /\ reps'[h] = {} /\ reps' \in [Hosts -> SUBSET Reply]
         /\ \A x \in Hosts : x # h => reps'[x] = reps[x]
         /\ conn[h].stat = "request" /\ conn[h].viewer = 0
         /\ conn[h].file \in {"none", "open"}
         /\ conn[h].file = "none" => conn[h].address = 0
         /\ written[h] = UpTo(conn[h].address)
         /\ m = Eof => conn[h].address = Blocks
         /\ m \notin {Eof, Less} => m = conn[h].address /\ m \in 0..Blocks - 1
<1>1. /\ HostInv(h) /\ conn[h] \in Conn /\ m \in Reply
      /\ reps \in [Hosts -> SUBSET Reply] /\ Blocks \in Nat
  BY FaceAssumption DEF FaceAssumption, FileInv, Types
<1>2. box = {}
  BY <1>1 DEF Left, HostInv, BoxInv
<1>3. conn[h].stat = "request" /\ reqs[h] = {}
  BY <1>1 DEF HostInv, BoxInv
<1>4. /\ conn[h].viewer = 0 /\ conn[h].file \in {"none", "open"}
      /\ conn[h].file = "none" => conn[h].address = 0
  BY <1>1, <1>3 DEF HostInv, ConnInv, Conn, Fetching
<1>5. written[h] = UpTo(conn[h].address)
  BY <1>1, <1>4, UpToEmpty DEF HostInv
<1>6. /\ m = Eof => conn[h].address = Blocks
      /\ m \notin {Eof, Less} => m = conn[h].address /\ m \in 0..Blocks - 1
  <2>1. conn[h].address \in 0..Blocks
        /\ m \in {Less, IF conn[h].address < Blocks THEN conn[h].address ELSE Eof}
    BY <1>1 DEF HostInv, BoxInv, Conn
  <2>2. QED
    BY <1>1, <2>1 DEF Eof, Less
<1>7. QED
  BY <1>1, <1>2, <1>3, <1>4, <1>5, <1>6

LEMMA ReceiveStep ==
  ASSUME FileInv, Delay = "tick", NEW h \in Hosts, Receive(h)
  PROVE  FileInv'
<1> DEFINE c == [Heard(h) EXCEPT !.known = TRUE]
<1>0. PICK m \in reps[h] :
        /\ \E box \in Left(reps[h], m) : reps' = [reps EXCEPT ![h] = box]
        /\ IF m = Eof THEN End(h) ELSE IF m = Less THEN NoFace(h) ELSE Block(h, m)
  BY DEF Receive
<1>1. PICK box \in Left(reps[h], m) : reps' = [reps EXCEPT ![h] = box]
  BY <1>0
<1>2. /\ reqs[h] = {} /\ reps'[h] = {} /\ reps' \in [Hosts -> SUBSET Reply]
      /\ \A x \in Hosts : x # h => reps'[x] = reps[x]
      /\ conn[h].stat = "request" /\ conn[h].viewer = 0
      /\ conn[h].file \in {"none", "open"}
      /\ conn[h].file = "none" => conn[h].address = 0
      /\ written[h] = UpTo(conn[h].address)
      /\ m = Eof => conn[h].address = Blocks
      /\ m \notin {Eof, Less} => m = conn[h].address /\ m \in 0..Blocks - 1
  BY <1>1, ReplyIs
<1>3. /\ main = Ready /\ Types /\ HostInv(h) /\ conn \in [Hosts -> Conn]
      /\ UNCHANGED <<reqs, litter>> /\ main.at = "ready"
      /\ \A x : Unnoted(x) = {}
  BY ReadyIs DEF Receive, FileInv, Types
<1>4. /\ c \in Conn /\ c.stat = "request" /\ c.file = conn[h].file
      /\ c.address = conn[h].address /\ c.viewer = 0
  BY <1>2, HeardIs
<1>5. running[h] = {}
  BY <1>2, <1>3 DEF HostInv, Viewers
<1>6. FileFor(c) \subseteq {"none", "open"} /\ (c.file = "open" => FileFor(c) = {"open"})
  BY <1>2, <1>4 DEF FileFor
<1> HIDE DEF c
<1>7. CASE m = Eof
  <2>1. End(h)
    BY <1>0, <1>7
  <2>2. PICK f \in FileFor(c) :
          /\ IF f = "none"
               THEN /\ conn' = [conn EXCEPT ![h] = c]
                    /\ UNCHANGED <<faceTransferActive, running, main>>
               ELSE /\ conn' = [conn EXCEPT ![h] = [c EXCEPT !.file = f, !.stat = "complete"]]
                    /\ faceTransferActive' = faceTransferActive - 1
                    /\ IF f = "closed"
                         THEN main' = [at |-> "crashed"] /\ UNCHANGED running
                         ELSE \/ \E v \in Viewers \ (running[h] \cup {c.viewer}) :
                                   /\ running' = [running EXCEPT ![h] = @ \cup {v}]
                                   /\ main' = [at |-> "forked", host |-> h, viewer |-> v]
                              \/ MayFail /\ UNCHANGED <<main, running>>
          /\ UNCHANGED <<timerStep, written>>
    BY <2>1 DEF End, c
  <2>3. CASE f = "none"
    <3>1. conn'[h] = c /\ conn' \in [Hosts -> Conn] /\ UNCHANGED <<running, main, timerStep, written>>
          /\ \A x \in Hosts : x # h => conn'[x] = conn[x]
      BY <1>3, <1>4, <2>2, <2>3
    <3>2. \A x : UNCHANGED Unnoted(x)
      BY <3>1 DEF Unnoted
    <3>3. HostInv(h)'
      BY <1>2, <1>3, <1>4, <3>1, <3>2, SameFields
    <3>4. Types'
      BY <1>2, <1>3, <3>1 DEF Types
    <3>5. QED
      BY <1>2, <1>3, <3>1, <3>2, <3>3, <3>4, OneHost
  <2>4. CASE f = "open"
    <3> DEFINE d == [c EXCEPT !.file = f, !.stat = "complete"]
    <3>1. /\ d \in Conn /\ d.stat = "complete" /\ d.file = "open"
          /\ d.address = c.address /\ d.viewer = 0
      BY <1>4, <2>4 DEF Conn
    <3>2. conn' = [conn EXCEPT ![h] = d] /\ UNCHANGED <<timerStep, written>>
      BY <2>2, <2>4
    <3> HIDE DEF d
    <3>3. conn'[h] = d /\ conn' \in [Hosts -> Conn]
          /\ \A x \in Hosts : x # h => conn'[x] = conn[x]
      BY <1>3, <3>1, <3>2
    <3>4. ConnInv(d)
      BY <3>1 DEF ConnInv, Fetching
    <3>5. BoxInv(h)'
      BY <1>2, <1>3 DEF BoxInv
    <3>6. written'[h] = UpTo(d.address)
      BY <1>2, <1>4, <3>1, <3>2
    <3>7. CASE UNCHANGED <<main, running>>
      <4>1. \A x : UNCHANGED Unnoted(x)
        BY <3>7 DEF Unnoted
      <4>2. HostInv(h)'
        BY <1>3, <1>5, <3>1, <3>3, <3>4, <3>5, <3>6, <3>7, <4>1 DEF HostInv
      <4>3. Types'
        BY <1>2, <1>3, <3>2, <3>3, <3>7 DEF Types
      <4>4. QED
        BY <1>2, <1>3, <3>2, <3>3, <3>7, <4>1, <4>2, <4>3, OneHost
    <3>8. ASSUME NEW v \in Viewers, running' = [running EXCEPT ![h] = @ \cup {v}],
                 main' = [at |-> "forked", host |-> h, viewer |-> v]
          PROVE  FileInv'
      <4>1. /\ Unnoted(h)' = {v} /\ main' \in Main /\ main'.at = "forked"
            /\ \A x \in Hosts : x # h => Unnoted(x)' = {}
        BY <3>8 DEF Unnoted, Main
      <4>2. running'[h] = {v} /\ running' \in [Hosts -> SUBSET Viewers]
            /\ \A x \in Hosts : x # h => running'[x] = running[x]
        BY <1>3, <1>5, <3>8 DEF Types
      <4>3. HostInv(h)'
        BY <1>3, <3>1, <3>3, <3>4, <3>5, <3>6, <4>1, <4>2 DEF HostInv
      <4>4. Types'
        BY <1>2, <1>3, <3>2, <3>3, <4>1, <4>2 DEF Types
      <4>5. QED
        BY <1>2, <1>3, <3>2, <3>3, <4>1, <4>2, <4>3, <4>4, OneHost
    <3>9. QED
      BY <2>2, <2>4, <3>7, <3>8
  <2>5. QED
    BY <1>6, <2>2, <2>3, <2>4
<1>8. CASE m = Less
  <2>1. NoFace(h)
    BY <1>0, <1>8 DEF Eof, Less
  <2> DEFINE d == [c EXCEPT !.stat = "abandoned",
                            !.file = IF @ = "open" THEN "closed" ELSE @]
  <2>2. /\ d \in Conn /\ d.stat = "abandoned" /\ d.address = c.address /\ d.viewer = 0
        /\ d.file = IF c.file = "open" THEN "closed" ELSE "none"
    BY <1>2, <1>4 DEF Conn
  <2>3. conn' = [conn EXCEPT ![h] = d] /\ UNCHANGED <<timerStep, running, written>>
    BY <2>1 DEF NoFace, c
  <2> HIDE DEF d
  <2>4. UNCHANGED main
    BY <1>2, <1>4, <2>1 DEF NoFace, ClosedUse, c
  <2>5. conn'[h] = d /\ conn' \in [Hosts -> Conn]
        /\ \A x \in Hosts : x # h => conn'[x] = conn[x]
    BY <1>3, <2>2, <2>3
  <2>6. \A x : UNCHANGED Unnoted(x)
    BY <2>4 DEF Unnoted
  <2>7. ConnInv(d) /\ BoxInv(h)'
    BY <1>2, <1>3, <2>2 DEF ConnInv, Fetching, BoxInv
  <2>8. written'[h] = IF d.file = "none" THEN << >> ELSE UpTo(d.address)
    BY <1>2, <1>4, <2>2, <2>3, UpToEmpty
  <2>9. HostInv(h)'
    BY <1>3, <1>5, <2>2, <2>3, <2>5, <2>6, <2>7, <2>8 DEF HostInv
  <2>10. Types'
    BY <1>2, <1>3, <2>3, <2>4, <2>5 DEF Types
  <2>11. QED
    BY <1>2, <1>3, <2>3, <2>4, <2>5, <2>6, <2>9, <2>10, OneHost
<1>9. CASE m \notin {Eof, Less}
  <2>1. Block(h, m)
    BY <1>0, <1>9
  <2>2. PICK f \in FileFor(c) :
          /\ IF f = "open" /\ Accepts(c, m)
               THEN /\ conn' = [conn EXCEPT ![h] =
                                  [c EXCEPT !.file = f, !.address = m + 1,
                                            !.stat = "reply", !.retry = 0]]
                    /\ written' = [written EXCEPT ![h] = Append(@, m)]
               ELSE /\ conn' = [conn EXCEPT ![h] = [c EXCEPT !.file = f]]
                    /\ UNCHANGED written
          /\ main' = IF f = "closed" /\ m = c.address THEN [at |-> "crashed"] ELSE main
          /\ UNCHANGED <<count, running>>
    BY <2>1 DEF Block, c
  <2>3. m = c.address /\ m \in Nat /\ m + 1 \in 0..Blocks
    BY <1>2, <1>4, <1>9, FaceAssumption DEF FaceAssumption
  <2>4. UNCHANGED <<main, running, timerStep>> /\ \A x : UNCHANGED Unnoted(x)
    BY <1>6, <2>2 DEF count, Unnoted
  <2>5. CASE f = "open"
    <3> DEFINE d == [c EXCEPT !.file = f, !.address = m + 1, !.stat = "reply", !.retry = 0]
    <3>1. /\ d \in Conn /\ d.stat = "reply" /\ d.address = m + 1 /\ d.viewer = 0
          /\ d.file = "open"
      <4>1. 0 \in 0..FaceMaxRetries + 1
        BY FaceAssumption DEF FaceAssumption
      <4>2. QED
        BY <1>4, <2>3, <2>5, <4>1 DEF Conn
    <3>2. conn' = [conn EXCEPT ![h] = d] /\ written' = [written EXCEPT ![h] = Append(@, m)]
      BY <2>2, <2>3, <2>5 DEF Accepts
    <3> HIDE DEF d
    <3>3. conn'[h] = d /\ conn' \in [Hosts -> Conn]
          /\ \A x \in Hosts : x # h => conn'[x] = conn[x]
      BY <1>3, <3>1, <3>2
    <3>4. /\ written'[h] = UpTo(m + 1) /\ written' \in [Hosts -> Seq(Nat)]
          /\ \A x \in Hosts : x # h => written'[x] = written[x]
      <4>1. Append(written[h], m) = UpTo(m + 1) /\ UpTo(m + 1) \in Seq(Nat)
        <5>1. written[h] = UpTo(m)
          BY <1>2, <1>4, <2>3
        <5>2. Append(UpTo(m), m) = UpTo(m + 1)
          BY <2>3, UpToNext
        <5>3. m + 1 \in Nat
          BY <2>3
        <5>4. QED
          BY <5>1, <5>2, <5>3, UpToNext
      <4>2. QED
        BY <1>3, <3>2, <4>1 DEF Types
    <3>5. ConnInv(d) /\ BoxInv(h)'
      BY <1>2, <1>3, <3>1 DEF ConnInv, Fetching, BoxInv
    <3>6. HostInv(h)'
      BY <1>3, <1>5, <2>4, <3>1, <3>3, <3>4, <3>5 DEF HostInv
    <3>7. Types'
      BY <1>2, <1>3, <2>4, <3>3, <3>4 DEF Types
    <3>8. QED
      BY <1>2, <1>3, <2>4, <3>3, <3>4, <3>6, <3>7, OneHost
  <2>6. CASE f = "none"
    <3>1. c.file = "none"
      BY <1>2, <1>4, <1>6, <2>6
    <3> DEFINE d == [c EXCEPT !.file = f]
    <3>2. /\ d \in Conn /\ d.stat = c.stat /\ d.address = c.address
          /\ d.viewer = c.viewer /\ d.file = c.file
      BY <1>4, <2>6, <3>1 DEF Conn
    <3>3. conn' = [conn EXCEPT ![h] = d] /\ UNCHANGED written
      BY <2>2, <2>6
    <3> HIDE DEF d
    <3>4. conn'[h] = d /\ conn' \in [Hosts -> Conn]
          /\ \A x \in Hosts : x # h => conn'[x] = conn[x]
      BY <1>3, <3>2, <3>3
    <3>5. HostInv(h)'
      BY <1>2, <1>3, <1>4, <2>4, <3>2, <3>3, <3>4, SameFields
    <3>6. Types'
      BY <1>2, <1>3, <2>4, <3>3, <3>4 DEF Types
    <3>7. QED
      BY <1>2, <1>3, <2>4, <3>3, <3>4, <3>5, <3>6, OneHost
  <2>7. QED
    BY <1>6, <2>2, <2>5, <2>6
<1>10. QED
  BY <1>7, <1>8, <1>9

LEMMA NoteViewerStep ==
  ASSUME FileInv, NoteViewer
  PROVE  FileInv'
<1>1. /\ main \in Main /\ main.at = "forked" /\ Types
      /\ conn \in [Hosts -> Conn] /\ main' = Ready
      /\ UNCHANGED <<timerStep, reqs, reps, running, written, litter>>
  BY DEF NoteViewer, count, network, FileInv, Types
<1>2. main.host \in Hosts /\ main.viewer \in Viewers
  BY <1>1 DEF Main, Ready
<1>3a. PICK h \in Hosts : h = main.host
  BY <1>2
<1>4a. PICK v \in Viewers : v = main.viewer
  BY <1>2
<1> DEFINE d == [conn[h] EXCEPT !.viewer = v]
<1>3. conn' = [conn EXCEPT ![h] = d]
  BY <1>3a, <1>4a DEF NoteViewer
<1>4. HostInv(h) /\ Unnoted(h) = {v} /\ conn[h] \in Conn
  BY <1>3a, <1>4a, <1>1 DEF FileInv, Unnoted
<1>5. conn[h].stat = "complete" /\ conn[h].viewer = 0
  BY <1>4 DEF HostInv
<1>6. /\ d \in Conn /\ d.stat = "complete" /\ d.address = conn[h].address
      /\ d.file = conn[h].file /\ d.viewer = v
  BY <1>4, <1>5 DEF Conn
<1>7. \A x \in Hosts : x # h => Unnoted(x) = {}
  BY <1>3a, <1>1 DEF Unnoted
<1> HIDE DEF d
<1>8. /\ main'.at = "ready" /\ main' \in Main /\ \A x : Unnoted(x)' = {}
  BY <1>1 DEF Ready, Main, Unnoted
<1>9. conn'[h] = d /\ conn' \in [Hosts -> Conn]
      /\ \A x \in Hosts : x # h => conn'[x] = conn[x]
  BY <1>1, <1>3, <1>6
<1>10. ConnInv(d)
  BY <1>4, <1>6 DEF HostInv, ConnInv, Fetching
<1>11. BoxInv(h)'
  BY <1>1, <1>4, <1>5, <1>6, <1>9 DEF HostInv, BoxInv
<1>12. HostInv(h)'
  BY <1>1, <1>4, <1>5, <1>6, <1>8, <1>9, <1>10, <1>11 DEF HostInv
<1>13. Types'
  BY <1>1, <1>8, <1>9 DEF Types
<1>14. QED
  BY <1>1, <1>7, <1>8, <1>9, <1>12, <1>13, OneHost

LEMMA ViewerEndsStep ==
  ASSUME FileInv, NEW h \in Hosts, ViewerEnds(h)
  PROVE  FileInv'
<1>1. PICK v \in running[h] :
        /\ running' = [running EXCEPT ![h] = @ \ {v}]
        /\ IF conn[h].viewer = v
             THEN /\ conn' = [conn EXCEPT ![h] = [@ EXCEPT !.viewer = 0, !.file = "none"]]
                  /\ written' = [written EXCEPT ![h] = <<>>]
                  /\ main' = IF ClosedUse(conn[h]) THEN [at |-> "crashed"] ELSE main
             ELSE UNCHANGED <<conn, written, main>>
  BY DEF ViewerEnds
<1>2. /\ main.at # "ended" /\ Types /\ HostInv(h) /\ conn \in [Hosts -> Conn]
      /\ conn[h] \in Conn /\ v \in Viewers /\ v # 0
      /\ UNCHANGED <<timerStep, reqs, reps, litter>>
  BY DEF ViewerEnds, count, network, FileInv, Types, Viewers
<1>3. /\ running' \in [Hosts -> SUBSET Viewers] /\ running'[h] = running[h] \ {v}
      /\ \A x \in Hosts : x # h => running'[x] = running[x]
  BY <1>1, <1>2 DEF Types
<1>4. CASE conn[h].viewer = v
  <2> DEFINE d == [conn[h] EXCEPT !.viewer = 0, !.file = "none"]
  <2>1. conn[h].stat = "complete" /\ conn[h].file # "closed"
    BY <1>2, <1>4 DEF HostInv, ConnInv
  <2>2. /\ d \in Conn /\ d.stat = "complete" /\ d.viewer = 0 /\ d.file = "none"
        /\ d.address = conn[h].address
    BY <1>2, <2>1 DEF Conn
  <2>3. conn' = [conn EXCEPT ![h] = d] /\ written' = [written EXCEPT ![h] = << >>]
    BY <1>1, <1>4
  <2> HIDE DEF d
  <2>4. UNCHANGED main /\ \A x : UNCHANGED Unnoted(x)
    BY <1>1, <1>4, <2>1 DEF ClosedUse, Unnoted
  <2>5. /\ conn'[h] = d /\ conn' \in [Hosts -> Conn]
        /\ \A x \in Hosts : x # h => conn'[x] = conn[x]
    BY <1>2, <2>2, <2>3
  <2>6. /\ written'[h] = << >> /\ written' \in [Hosts -> Seq(Nat)]
        /\ \A x \in Hosts : x # h => written'[x] = written[x]
    BY <1>2, <2>3 DEF Types
  <2>7. ConnInv(d) /\ BoxInv(h)'
    BY <1>2, <2>1, <2>2, <2>5 DEF HostInv, ConnInv, Fetching, BoxInv
  <2>8. HostInv(h)'
    BY <1>2, <1>3, <1>4, <2>2, <2>4, <2>5, <2>6, <2>7 DEF HostInv
  <2>9. Types'
    BY <1>2, <1>3, <2>4, <2>5, <2>6 DEF Types
  <2>10. QED
    BY <1>2, <1>3, <2>4, <2>5, <2>6, <2>8, <2>9, OneHost
<1>5. CASE conn[h].viewer # v
  <2>1. UNCHANGED <<conn, written, main>> /\ \A x : UNCHANGED Unnoted(x)
    BY <1>1, <1>5 DEF Unnoted
  <2>2. HostInv(h)'
    BY <1>2, <1>3, <2>1 DEF HostInv, BoxInv
  <2>3. Types'
    BY <1>2, <1>3, <2>1 DEF Types
  <2>4. QED
    BY <1>2, <1>3, <2>1, <2>2, <2>3, OneHost
<1>6. QED
  BY <1>4, <1>5

LEMMA NetworkStep ==
  ASSUME FileInv, Delay = "tick", NEW h \in Hosts, Network(h)
  PROVE  FileInv'
<1>1. /\ Types /\ HostInv(h) /\ conn[h] \in Conn
      /\ UNCHANGED <<conn, timerStep, main, running, written, litter>>
      /\ \A x : UNCHANGED Unnoted(x)
  BY DEF Network, Serve, Lose, count, FileInv, Types, Unnoted
<1>2. CASE Serve(h)
  <2>0. PICK a \in reqs[h] :
          /\ \E box \in Left(reqs[h], a) : reqs' = [reqs EXCEPT ![h] = box]
          /\ reps' = [reps EXCEPT ![h] = @ \cup {Answer(h, a)}]
    BY <1>2 DEF Serve
  <2>1. PICK box \in Left(reqs[h], a) : reqs' = [reqs EXCEPT ![h] = box]
    BY <2>0
  <2>2. a = conn[h].address /\ reps[h] = {} /\ conn[h].stat = "request" /\ box = {}
    BY <1>1, <2>1 DEF Left, HostInv, BoxInv
  <2>3. /\ Answer(h, a) \in {Less, IF a < Blocks THEN a ELSE Eof}
        /\ Answer(h, a) \in Reply
    BY <1>1, <2>0, FaceAssumption DEF FaceAssumption, Answer, Reply, Types
  <2>4. /\ reqs'[h] = {} /\ reqs' \in [Hosts -> SUBSET (0..Blocks)]
        /\ \A x \in Hosts : x # h => reqs'[x] = reqs[x]
    BY <1>1, <2>1, <2>2 DEF Types
  <2>5. /\ reps'[h] = {Answer(h, a)} /\ reps' \in [Hosts -> SUBSET Reply]
        /\ \A x \in Hosts : x # h => reps'[x] = reps[x]
    BY <1>1, <2>0, <2>2, <2>3 DEF Types
  <2>6. BoxInv(h)'
    BY <1>1, <2>2, <2>3, <2>4, <2>5 DEF BoxInv
  <2>7. HostInv(h)'
    BY <1>1, <2>6 DEF HostInv
  <2>8. Types'
    BY <1>1, <2>4, <2>5 DEF Types
  <2>9. QED
    BY <1>1, <2>4, <2>5, <2>7, <2>8, OneHost
<1>3. CASE Lose(h)
  <2>1. PICK m \in reqs[h] \cup reps[h] :
          /\ reqs' = [reqs EXCEPT ![h] = @ \ {m}]
          /\ reps' = [reps EXCEPT ![h] = @ \ {m}]
    BY <1>3 DEF Lose
  <2>2. /\ reqs'[h] \subseteq reqs[h] /\ reqs' \in [Hosts -> SUBSET (0..Blocks)]
        /\ \A x \in Hosts : x # h => reqs'[x] = reqs[x]
    BY <1>1, <2>1 DEF Types
  <2>3. /\ reps'[h] \subseteq reps[h] /\ reps' \in [Hosts -> SUBSET Reply]
        /\ \A x \in Hosts : x # h => reps'[x] = reps[x]
    BY <1>1, <2>1 DEF Types
  <2>4. HostInv(h)'
    BY <1>1, <2>2, <2>3, SameFields
  <2>5. Types'
    BY <1>1, <2>2, <2>3 DEF Types
  <2>6. QED
    BY <1>1, <2>2, <2>3, <2>4, <2>5, OneHost
<1>4. QED
  BY <1>2, <1>3 DEF Network

LEMMA RestartStep ==
  ASSUME FileInv, NEW h \in Hosts, Restart(h)
  PROVE  FileInv'
<1>1. /\ UNCHANGED <<conn, timerStep, main, reqs, reps, running, written, litter>>
      /\ \A x : UNCHANGED Unnoted(x)
  BY DEF Restart, count, network, Unnoted
<1>2. QED
  BY <1>1, HostKept DEF FileInv, Types

(* exiting() ends the viewers it knows, and only those. *)
LEMMA ExitingStep ==
  ASSUME FileInv, Exiting
  PROVE  FileInv'
<1>1. /\ main' = [at |-> "ended"] /\ main' \in Main /\ main'.at = "ended"
      /\ Types /\ UNCHANGED <<conn, timerStep, reqs, reps, written>>
      /\ running' = [h \in Hosts |-> running[h] \ {conn[h].viewer}]
  BY DEF Exiting, count, network, Main, FileInv, Types
<1>2. Types'
  BY <1>1 DEF Types
<1>3. ASSUME NEW h \in Hosts PROVE HostInv(h)'
  <2>1. HostInv(h) /\ Unnoted(h)' = {} /\ running'[h] \subseteq running[h]
    BY <1>1 DEF FileInv, Unnoted
  <2>2. QED
    BY <1>1, <2>1 DEF HostInv, BoxInv
<1>4. QED
  BY <1>1, <1>2, <1>3 DEF FileInv

LEMMA TickStep ==
  ASSUME FileInv, Delay = "tick", Tick
  PROVE  FileInv'
<1>1. /\ main = Ready /\ main.at = "ready" /\ Types /\ litter = {}
      /\ UNCHANGED reps /\ \A x : Unnoted(x) = {}
  BY ReadyIs DEF Tick, FileInv, Types
<1>2. timerStep \in Nat \ {0} /\ timerStep' \in {FetchStep} \cup SlowSteps
  BY <1>1, FaceAssumption DEF FaceAssumption, Tick, WindTimer, Types
<1>3. \A h \in Hosts : reqs[h] = {} /\ reps[h] = {}
  BY DEF Tick, MayTick
<1>4. \A h \in Hosts : ConnInv(conn[h]) /\ conn[h] \in Conn /\ HostInv(h)
  BY <1>1 DEF FileInv, HostInv, Types
<1>5. UNCHANGED main /\ \A x : Unnoted(x)' = {}
  <2>1. ASSUME NEW h \in Hosts PROVE ~(Closes(conn[h]) /\ ClosedUse(conn[h]))
    BY <1>4 DEF Closes, ClosedUse, Dropped, GivesUp, TimedOut, ConnInv, Fetching
  <2>2. UNCHANGED main
    BY <2>1 DEF Tick
  <2>3. QED
    BY <1>1, <2>2 DEF Unnoted
<1>6. litter' = {}
  <2>1. ASSUME NEW h \in Hosts PROVE ~(Forgets(conn[h]) /\ conn[h].stat # "complete")
    BY <1>4 DEF Forgets, ConnInv
  <2>2. QED
    BY <1>1, <2>1 DEF Tick
<1>7. \A h \in Hosts : conn'[h] = Ticked(conn[h]) /\ ConnInv(Ticked(conn[h]))
  BY <1>2, <1>4, TickedIs DEF Tick
<1>8. Types'
  <2>1. conn' \in [Hosts -> Conn]
    BY <1>7 DEF Tick, ConnInv
  <2>2. reqs' \in [Hosts -> SUBSET (0..Blocks)]
    BY <1>1, <1>4 DEF Tick, Types, Conn
  <2>3. running' \in [Hosts -> SUBSET Viewers]
    BY <1>1 DEF Tick, Types
  <2>4. written' \in [Hosts -> Seq(Nat)]
    BY <1>1 DEF Tick, Types
  <2>5. QED
    BY <1>1, <1>2, <1>5, <2>1, <2>2, <2>3, <2>4 DEF Types
<1>9. ASSUME NEW h \in Hosts PROVE HostInv(h)'
  <2> DEFINE c == conn[h]
             t == Ticked(c)
  <2>1. /\ ConnInv(c) /\ ConnInv(t) /\ conn'[h] = t
        /\ reqs'[h] = IF Asks(c) THEN {c.address} ELSE {}
        /\ reps'[h] = {} /\ running'[h] = running[h] \ Kills(c)
        /\ written'[h] = IF t.file = "none" THEN << >> ELSE written[h]
        /\ c \in Conn
    BY <1>1, <1>3, <1>4, <1>7 DEF Tick
  <2>2. /\ Expired(c) => t = Idle
        /\ ~Expired(c) => /\ t.address = c.address /\ t.viewer = c.viewer
                          /\ t.file = IF GivesUp(c) THEN "none" ELSE c.file
                          /\ c.stat = "complete" => t.stat = "complete"
        /\ Asks(c) => ~Expired(c) /\ t.stat = "request"
    BY <1>2, <2>1, TickedIs
  <2>3. running[h] \subseteq {c.viewer} /\ 0 \notin Viewers /\ running[h] \subseteq Viewers
        /\ \A u, v \in running[h] : u = v
    BY <1>1, <1>4 DEF HostInv, Types, Viewers
  <2>4. written[h] = IF c.file = "none" THEN << >> ELSE UpTo(c.address)
    BY <1>4 DEF HostInv
  <2>5. Idle.file = "none" /\ Idle.viewer = 0
    BY DEF Idle
  <2> HIDE DEF c, t
  <2>6. BoxInv(h)'
    BY <2>1, <2>2 DEF BoxInv
  <2>7. written'[h] = IF t.file = "none" THEN << >> ELSE UpTo(t.address)
    BY <2>1, <2>2, <2>4, <2>5
  <2>8. running'[h] \subseteq {t.viewer} \cap Viewers
    BY <2>1, <2>2, <2>3, <2>5 DEF Kills
  <2>9. QED
    BY <1>5, <2>1, <2>3, <2>6, <2>7, <2>8 DEF HostInv
<1>10. QED
  BY <1>6, <1>8, <1>9 DEF FileInv

LEMMA FileStep == Delay = "tick" /\ FileInv /\ [Next]_vars => FileInv'
<1> SUFFICES ASSUME Delay = "tick", FileInv, [Next]_vars PROVE FileInv'
  OBVIOUS
<1>1. CASE UNCHANGED vars
  <2>1. /\ UNCHANGED <<conn, timerStep, main, reqs, reps, running, written, litter>>
        /\ \A x : UNCHANGED Unnoted(x)
    BY <1>1 DEF vars, Unnoted
  <2>2. QED
    BY <2>1, HostKept DEF FileInv, Types
<1>2. ASSUME NEW h \in Hosts, Speaker(h) PROVE FileInv'
  BY <1>2, SoundStep, ByeStep, ReceiveStep, ViewerEndsStep DEF Speaker
<1>3. QED
  BY <1>1, <1>2, NetworkStep, RestartStep, TickStep, NoteViewerStep, ExitingStep
     DEF Next, Ended

LEMMA FileAlways == ASSUME Delay = "tick" PROVE Spec => []FileInv
<1>1. FileInv /\ [Next]_vars => FileInv'
  BY FileStep
<1>2. QED
  BY <1>1, FileInit, PTL DEF Spec

-----------------------------------------------------------------------------
(* One face of a host is shown at a time: a viewer is forked only when a   *)
(* transfer ends (speaker.c:3240-3292), and a connection has one transfer  *)
(* for its life (speaker.c:2573), so the viewer noted, or the one forked   *)
(* and not noted yet, is the only one.                                     *)
THEOREM OneViewerEach == ASSUME Delay = "tick" PROVE Spec => []OneViewer
<1>1. FileInv => OneViewer
  <2> SUFFICES ASSUME FileInv, NEW h \in Hosts PROVE Cardinality(running[h]) <= 1
    BY DEF OneViewer
  <2>1. \A u, v \in running[h] : u = v
    BY DEF FileInv, HostInv
  <2>2. CASE running[h] = {}
    BY <2>2, FS_EmptySet
  <2>3. CASE running[h] # {}
    <3>1. PICK v : running[h] = {v}
      BY <2>1, <2>3
    <3>2. Cardinality({v}) = 1
      BY FS_Singleton
    <3>3. QED
      BY <3>1, <3>2
  <2>4. QED
    BY <2>2, <2>3
<1>2. QED
  BY <1>1, FileAlways, PTL

(* Blocks are written once each and in order (speaker.c:3210), no file is  *)
(* used after it was closed (speaker.c:3309), and none that is incomplete  *)
(* is forgotten while sfspeaker runs (speaker.c:761-790).                  *)
THEOREM FilesAlwaysTidy == ASSUME Delay = "tick" PROVE Spec => []FilesTidy
<1>1. FileInv => FilesTidy
  <2> SUFFICES ASSUME FileInv PROVE FilesTidy
    OBVIOUS
  <2>1. ASSUME NEW h \in Hosts, NEW i \in 1..Len(written[h]) - 1
        PROVE  written[h][i + 1] = written[h][i] + 1
    <3>1. conn[h].address \in Nat
      BY FaceAssumption DEF FaceAssumption, FileInv, Types, Conn
    <3>2. written[h] = << >> \/ written[h] = UpTo(conn[h].address)
      BY DEF FileInv, HostInv
    <3>3. CASE written[h] = << >>
      BY <3>3
    <3>4. CASE written[h] = UpTo(conn[h].address)
      <4>0. Len(UpTo(conn[h].address)) = conn[h].address
        BY <3>1, UpToNext
      <4>1. i \in 1..conn[h].address /\ i + 1 \in 1..conn[h].address
        BY <2>1, <3>1, <3>4, <4>0
      <4>2. QED
        BY <3>4, <4>1 DEF UpTo
    <3>5. QED
      BY <3>2, <3>3, <3>4
  <2>2. main.at # "crashed"
    BY DEF FileInv, Types, Main, Ready
  <2>3. QED
    BY <2>1, <2>2 DEF FilesTidy, InOrder, FileInv
<1>2. QED
  BY <1>1, FileAlways, PTL

(* A viewer is started on a whole face only: the end of the face is the    *)
(* answer to a request for the block behind its last one, and every block  *)
(* before it is in the file by then (speaker.c:3206-3265).                 *)
THEOREM WholeFaces == ASSUME Delay = "tick" PROVE Spec => WholeFace
<1> DEFINE Shown(h) == running'[h] \ running[h] # {}
                         => written[h] = [i \in 1..Blocks |-> i - 1]
<1>1. ASSUME FileInv, Next, NEW h \in Hosts PROVE Shown(h)
  <2>1. SUFFICES ASSUME running'[h] \ running[h] # {}
                 PROVE  written[h] = UpTo(Blocks)
    BY DEF UpTo
  <2>2. running \in [Hosts -> SUBSET Viewers]
    BY <1>1 DEF FileInv, Types
  <2>3. ~UNCHANGED running
    BY <2>1
  <2>4. ASSUME NEW x \in Hosts PROVE ~(ViewerEnds(x) \/ Tick \/ Exiting)
    BY <2>1, <2>2 DEF ViewerEnds, Tick, Exiting
  <2>5. PICK x \in Hosts : Receive(x)
    BY <1>1, <2>3, <2>4 DEF Next, Speaker, Network, Sound, Bye, Serve, Lose, Restart,
                            NoteViewer, Ended, vars
  <2>6. PICK m \in reps[x] :
          /\ \E box \in Left(reps[x], m) : reps' = [reps EXCEPT ![x] = box]
          /\ IF m = Eof THEN End(x) ELSE IF m = Less THEN NoFace(x) ELSE Block(x, m)
    BY <2>5 DEF Receive
  <2>7. m = Eof /\ End(x)
    BY <2>3, <2>6 DEF NoFace, Block
  <2>8. PICK v \in Viewers : running' = [running EXCEPT ![x] = @ \cup {v}]
    BY <2>3, <2>7 DEF End
  <2>9. x = h
    BY <2>1, <2>2, <2>8
  <2>10. PICK box \in Left(reps[x], m) : reps' = [reps EXCEPT ![x] = box]
    BY <2>6
  <2>11. QED
    BY <1>1, <2>7, <2>9, <2>10, ReplyIs
<1>2. FileInv /\ [Next]_vars => [\A h \in Hosts : Shown(h)]_vars
  BY <1>1
<1>3. QED
  BY <1>2, FileAlways, PTL DEF Spec, WholeFace

-----------------------------------------------------------------------------
(* The pace of the timer. *)

Paced ==
    /\ faceTransferActive = Cardinality(Transferring)
    /\ Transferring # {} => timerStep = FetchStep

LEMMA FewTransfer ==
  ASSUME FileInv
  PROVE  /\ IsFiniteSet(Transferring)
         /\ Cardinality(Transferring) \in Nat
         /\ Cardinality(Transferring) = 0 <=> Transferring = {}
<1>1. IsFiniteSet(Transferring)
  <2>1. Transferring \in SUBSET Hosts
    BY DEF Transferring
  <2>2. QED
    BY <2>1, FaceAssumption, FS_Subset DEF FaceAssumption
<1>2. QED
  BY <1>1, FS_CardinalityType, FS_EmptySet

LEMMA SameCount ==
  ASSUME Paced, UNCHANGED count,
         \A h \in Hosts : conn'[h].stat \in Fetching <=> conn[h].stat \in Fetching
  PROVE  Paced'
<1>1. UNCHANGED Transferring
  BY DEF Transferring
<1>2. QED
  BY <1>1 DEF Paced, count

LEMMA SoundPaced ==
  ASSUME FileInv, Paced, NEW h \in Hosts, NEW offer \in BOOLEAN, Sound(h, offer)
  PROVE  Paced'
<1> DEFINE c == Heard(h)
<1>1. c \in Conn /\ c.stat = conn[h].stat /\ conn \in [Hosts -> Conn]
  BY HeardIs DEF FileInv, Types
<1> HIDE DEF c
<1>2. CASE Wants(c, offer)
  <2>1. /\ conn' = [conn EXCEPT ![h] = [c EXCEPT !.stat = "reply", !.address = 0,
                                                !.retry = 0, !.wait = 0]]
        /\ faceTransferActive' = faceTransferActive + 1
        /\ timerStep' \in IF faceTransferActive + 1 = 1 THEN WindTimer(1) ELSE {timerStep}
    BY <1>2 DEF Sound, c
  <2>2. conn[h].stat = "init" /\ conn'[h].stat = "reply"
        /\ \A x \in Hosts : x # h => conn'[x] = conn[x]
    BY <1>1, <1>2, <2>1 DEF Wants, Conn
  <2>3. h \notin Transferring /\ Transferring' = Transferring \cup {h}
    BY <2>2 DEF Transferring, Fetching
  <2>4. Cardinality(Transferring') = Cardinality(Transferring) + 1
    BY <2>3, FewTransfer, FS_AddElement
  <2>5. timerStep' = FetchStep
    <3>1. CASE faceTransferActive = 0
      BY <2>1, <3>1 DEF WindTimer
    <3>2. CASE faceTransferActive # 0
      <4>1. Transferring # {}
        BY <3>2, FewTransfer DEF Paced
      <4>2. faceTransferActive + 1 # 1
        BY <3>2, FewTransfer DEF Paced
      <4>3. QED
        BY <2>1, <4>1, <4>2 DEF Paced
    <3>3. QED
      BY <3>1, <3>2
  <2>6. QED
    BY <2>1, <2>4, <2>5 DEF Paced
<1>3. CASE ~Wants(c, offer)
  <2>1. conn' = [conn EXCEPT ![h] = [c EXCEPT !.known = TRUE]] /\ UNCHANGED count
    BY <1>3 DEF Sound, c
  <2>2. QED
    BY <1>1, <2>1, SameCount DEF Conn
<1>4. QED
  BY <1>2, <1>3

(* A transfer that is over is counted no more. *)
LEMMA OverPaced ==
  ASSUME FileInv, Paced, NEW h \in Transferring, NEW d, d.stat \notin Fetching,
         conn' = [conn EXCEPT ![h] = d],
         faceTransferActive' = faceTransferActive - 1, UNCHANGED timerStep
  PROVE  Paced'
<1>1. conn \in [Hosts -> Conn] /\ h \in Hosts
  BY DEF FileInv, Types, Transferring
<1>2. Transferring' = Transferring \ {h}
  BY <1>1 DEF Transferring
<1>3. Cardinality(Transferring') = Cardinality(Transferring) - 1
  BY <1>2, FewTransfer, FS_RemoveElement
<1>4. QED
  BY <1>2, <1>3 DEF Paced

LEMMA ReceivePaced ==
  ASSUME FileInv, Paced, Delay = "tick", NEW h \in Hosts, Receive(h)
  PROVE  Paced'
<1> DEFINE c == [Heard(h) EXCEPT !.known = TRUE]
<1>0. PICK m \in reps[h] :
        /\ \E box \in Left(reps[h], m) : reps' = [reps EXCEPT ![h] = box]
        /\ IF m = Eof THEN End(h) ELSE IF m = Less THEN NoFace(h) ELSE Block(h, m)
  BY DEF Receive
<1>1. PICK box \in Left(reps[h], m) : reps' = [reps EXCEPT ![h] = box]
  BY <1>0
<1>2. conn[h].stat = "request"
  BY <1>1, ReplyIs
<1>3. c \in Conn /\ c.stat = "request" /\ conn \in [Hosts -> Conn]
  BY <1>2, HeardIs DEF FileInv, Types
<1>4. h \in Transferring
  BY <1>2 DEF Transferring, Fetching
<1> HIDE DEF c
<1>5. CASE NoFace(h)
  <2> DEFINE d == [c EXCEPT !.stat = "abandoned", !.file = IF @ = "open" THEN "closed" ELSE @]
  <2>1. /\ conn' = [conn EXCEPT ![h] = d] /\ UNCHANGED timerStep
        /\ faceTransferActive' = faceTransferActive - 1
    BY <1>5 DEF NoFace, c
  <2>2. d.stat \notin Fetching
    BY <1>3 DEF Conn, Fetching
  <2>3. QED
    BY <1>4, <2>1, <2>2, OverPaced
<1>6. CASE End(h)
  <2>1. PICK f \in FileFor(c) :
          /\ IF f = "none"
               THEN conn' = [conn EXCEPT ![h] = c] /\ UNCHANGED faceTransferActive
               ELSE /\ conn' = [conn EXCEPT ![h] = [c EXCEPT !.file = f, !.stat = "complete"]]
                    /\ faceTransferActive' = faceTransferActive - 1
          /\ UNCHANGED timerStep
    BY <1>6 DEF End, c
  <2>2. CASE f = "none"
    <3>1. conn' = [conn EXCEPT ![h] = c] /\ UNCHANGED count
      BY <2>1, <2>2 DEF count
    <3>2. QED
      BY <1>2, <1>3, <3>1, SameCount
  <2>3. CASE f # "none"
    <3> DEFINE d == [c EXCEPT !.file = f, !.stat = "complete"]
    <3>1. d.stat \notin Fetching
      BY <1>3 DEF Conn, Fetching
    <3>2. /\ conn' = [conn EXCEPT ![h] = d] /\ UNCHANGED timerStep
          /\ faceTransferActive' = faceTransferActive - 1
      BY <2>1, <2>3
    <3>3. QED
      BY <1>4, <3>1, <3>2, OverPaced
  <2>4. QED
    BY <2>2, <2>3
<1>7. CASE Block(h, m)
  <2>1. PICK f \in FileFor(c) :
          \/ conn' = [conn EXCEPT ![h] = [c EXCEPT !.file = f, !.address = m + 1,
                                                   !.stat = "reply", !.retry = 0]]
          \/ conn' = [conn EXCEPT ![h] = [c EXCEPT !.file = f]]
    BY <1>7 DEF Block, c
  <2>2. UNCHANGED count
    BY <1>7 DEF Block
  <2>3. conn'[h].stat \in Fetching /\ \A x \in Hosts : x # h => conn'[x] = conn[x]
    BY ZenonT(40), <1>3, <2>1 DEF Conn, Fetching
  <2>4. QED
    BY <1>2, <2>2, <2>3, SameCount DEF Fetching
<1>8. QED
  BY <1>0, <1>5, <1>6, <1>7

LEMMA TickPaced ==
  ASSUME FileInv, Paced, Tick
  PROVE  Paced'
<1> DEFINE D == {h \in Hosts : Dropped(conn[h])}
<1>1. main = Ready /\ timerStep \in Nat \ {0} /\ \A h \in Hosts : ConnInv(conn[h])
  BY FaceAssumption DEF FaceAssumption, Tick, FileInv, Types, HostInv
<1>2. \A h \in Hosts : conn'[h].stat \in Fetching
                         <=> conn[h].stat \in Fetching /\ ~Dropped(conn[h])
  BY <1>1, TickedIs DEF Tick
<1>3. \A h \in D : conn[h].stat \in Fetching
  BY DEF Dropped, GivesUp, TimedOut, Fetching
<1>4. Transferring' = Transferring \ D /\ Transferring \cap D = D
  BY <1>2, <1>3 DEF Transferring
<1>5. Cardinality(Transferring') = Cardinality(Transferring) - Cardinality(D)
  <2> HIDE DEF D
  <2>1. QED
    BY <1>4, FewTransfer, FS_Difference
<1>6. faceTransferActive' = Cardinality(Transferring')
  BY <1>5 DEF Tick, Paced
<1>7. ASSUME Transferring' # {} PROVE timerStep' = FetchStep
  <2>1. IsFiniteSet(Transferring')
    BY <1>4, FewTransfer, FS_Difference
  <2>2. faceTransferActive' > 0
    BY <1>6, <1>7, <2>1, FS_EmptySet, FS_CardinalityType
  <2>3. QED
    BY <2>2 DEF Tick, WindTimer
<1>8. QED
  BY <1>6, <1>7 DEF Paced

LEMMA PaceStep ==
  ASSUME Delay = "tick", FileInv, Paced, [Next]_vars PROVE Paced'
<1>0. conn \in [Hosts -> Conn]
  BY DEF FileInv, Types
<1>1. CASE UNCHANGED <<conn, count>>
  BY <1>1, SameCount
<1>2. CASE Tick
  BY <1>2, TickPaced
<1>3. ASSUME NEW h \in Hosts, Speaker(h) PROVE Paced'
  <2>1. CASE Bye(h)
    BY <1>0, <2>1, SameCount DEF Bye, Conn
  <2>2. CASE ViewerEnds(h)
    <3>1. \/ conn' = [conn EXCEPT ![h] = [@ EXCEPT !.viewer = 0, !.file = "none"]]
          \/ UNCHANGED conn
      BY <2>2 DEF ViewerEnds
    <3>2. \A x \in Hosts : conn'[x].stat = conn[x].stat
      <4> DEFINE d == [conn[h] EXCEPT !.viewer = 0, !.file = "none"]
      <4>1. conn[h] \in Conn
        BY <1>0
      <4>2. d.stat = conn[h].stat
        BY <4>1 DEF Conn
      <4>3. conn' = [conn EXCEPT ![h] = d] \/ UNCHANGED conn
        BY <3>1
      <4> HIDE DEF d
      <4>4. QED
        BY <1>0, <4>2, <4>3
    <3>3. QED
      BY <2>2, <3>2, SameCount DEF ViewerEnds
  <2>3. QED
    BY <1>3, <2>1, <2>2, SoundPaced, ReceivePaced DEF Speaker
<1>4. CASE NoteViewer
  <2>1. \A h \in Hosts : conn'[h].stat = conn[h].stat
    BY <1>0, <1>4 DEF NoteViewer, Conn
  <2>2. QED
    BY <1>4, <2>1, SameCount DEF NoteViewer
<1>5. QED
  BY <1>1, <1>2, <1>3, <1>4
     DEF Next, Network, Serve, Lose, Restart, Exiting, Ended, vars, count

(* The count that sets the pace of the timer is the number of transfers in *)
(* progress, however each of them ended, and while there is one the timer  *)
(* runs at FaceFetchInterval (speaker.c:557-563, 813-845, 2579-2582).      *)
THEOREM FetchesAtPace == ASSUME Delay = "tick" PROVE Spec => []FetchPace
<1>1. Init => Paced
  <2>1. SUFFICES ASSUME Init PROVE Transferring = {}
    BY FS_EmptySet DEF Init, Paced
  <2>2. QED
    BY <2>1 DEF Init, Idle, Transferring, Fetching
<1>2. FileInv /\ Paced /\ [Next]_vars => Paced'
  BY PaceStep
<1>3. FileInv /\ Paced => FetchPace
  <2>1. SUFFICES ASSUME FileInv, Paced PROVE TypeOK
    BY DEF FetchPace, Paced
  <2>2. faceTransferActive \in Int
    BY <2>1, FewTransfer DEF Paced
  <2>3. QED
    BY <2>1, <2>2 DEF TypeOK, FileInv, Types, Conn
<1>4. QED
  BY <1>1, <1>2, <1>3, FileAlways, PTL DEF Spec
=============================================================================
