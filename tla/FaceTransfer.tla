---------------------------- MODULE FaceTransfer ----------------------------
(* How sfspeaker (src/speaker.c) fetches the face images of the hosts that   *)
(* offer one: release() asks for a block at each tick of the timer and again *)
(* after FaceTimeout; the other sfspeaker answers without keeping state; the *)
(* blocks go to a temporary file; when the end is reached xv shows it, and   *)
(* the file goes when the viewer ends or the connection is idle.             *)
(*                                                                           *)
(* A face is Blocks blocks, named by their position.  The handling of one    *)
(* datagram is one step, except that SIGCHLD may come between the fork() of  *)
(* the viewer and the assignment of its process number.                      *)
EXTENDS Integers, Sequences, FiniteSets

CONSTANTS
  Hosts,
  Blocks,          \* blocks of every face
  FaceTimeout, FaceMaxRetries, HostTimeout,
  FetchStep,       \* FaceFetchInterval: the unit of the times
  SlowSteps,       \* TickTock, TockTock and JitterTock
  Delay,           \* the time from request to reply: to the next "tick", less
                   \* than FaceTimeout ("timeout"), or "any" and repeatedly
  MayBye,          \* hosts may say BYE
  MaxDrift,        \* bound: how far below zero the count of transfers may fall
  MayFail          \* fork() and the making of a temporary file may fail

ASSUME FaceAssumption ==
  /\ IsFiniteSet(Hosts)
  /\ Blocks \in Nat /\ FaceMaxRetries \in Nat
  /\ FetchStep \in Nat \ {0} /\ SlowSteps \subseteq Nat \ {0} /\ SlowSteps # {}
  /\ FaceTimeout \in Nat \ {0} /\ HostTimeout \in Nat \ {0}
  /\ MaxDrift \in Nat
  /\ Delay \in {"tick", "timeout", "any"}
  /\ MayBye \in BOOLEAN /\ MayFail \in BOOLEAN

VARIABLES
  conn,                \* the connections; one with timeout -1 is idle
  faceTransferActive,  \* the count kept of the transfers
  timerStep,           \* the step of the timer that is running
  main,                \* the main loop: "ready", a viewer just forked, ended
  face,                \* whether the host's sfspeaker has a face to show
  reqs, reps,          \* requests and replies under way, by host
  running,             \* the viewers that run, by host
  written,             \* history: the blocks in the file, in order of writing
  litter               \* history: hosts whose file, incomplete, was not deleted

vars == <<conn, faceTransferActive, timerStep, main, face, reqs, reps, running,
          written, litter>>
network == <<reqs, reps>>
count == <<faceTransferActive, timerStep>>

Viewers == {1, 2}                   \* process numbers of a host's viewers
Eof == -1                           \* the reply to a request past the end
Less == -2                          \* the reply of a host without a face
Reply == (0..Blocks - 1) \cup {Eof, Less}
Fetching == {"request", "reply"}    \* asked for a block, about to ask
Ready == [at |-> "ready"]

Idle == [timeout |-> -1, known |-> FALSE, stat |-> "init", address |-> 0,
         retry |-> 0, wait |-> 0, file |-> "none", viewer |-> 0]

Init ==
  /\ conn = [h \in Hosts |-> Idle]
  /\ faceTransferActive = 0
  /\ timerStep \in SlowSteps
  /\ main = Ready
  /\ face \in [Hosts -> BOOLEAN]
  /\ reqs = [h \in Hosts |-> {}]
  /\ reps = [h \in Hosts |-> {}]
  /\ running = [h \in Hosts |-> {}]
  /\ written = [h \in Hosts |-> <<>>]
  /\ litter = {}

-----------------------------------------------------------------------------
(* A datagram opens the connection of its host, or keeps it open. *)
Heard(h) == [conn[h] EXCEPT !.timeout = 0]

(* windtimer(): the step of the timer, given the count of transfers. *)
WindTimerMany(active) == IF active > 1 THEN {FetchStep} ELSE SlowSteps  \* mutant
WindTimer(active) == IF active > 0 THEN {FetchStep} ELSE SlowSteps

(* A transfer starts with sound that offers the face, once per connection. *)
Wants(c, offer) == offer /\ c.known /\ c.stat = "init"

(* Sound from h, with or without fFaceOffer.  The protocol of a new          *)
(* connection is not known yet, so its first packet starts no transfer.      *)
Sound(h, offer) ==
  /\ main = Ready
  /\ LET c == Heard(h)
     IN IF Wants(c, offer)
          THEN /\ conn' = [conn EXCEPT ![h] =
                             [c EXCEPT !.stat = "reply", !.address = 0,
                                       !.retry = 0, !.wait = 0]]
               /\ faceTransferActive' = faceTransferActive + 1
               /\ timerStep' \in IF faceTransferActive + 1 = 1
                                   THEN WindTimer(1) ELSE {timerStep}
          ELSE /\ conn' = [conn EXCEPT ![h] = [c EXCEPT !.known = TRUE]]
               /\ UNCHANGED count
  /\ UNCHANGED <<main, face, network, running, written, litter>>

(* A BYE lets the connection go idle at the next tick. *)
Bye(h) ==
  /\ main = Ready
  /\ MayBye
  /\ conn' = [conn EXCEPT ![h] = [@ EXCEPT !.timeout = HostTimeout - 1, !.known = FALSE]]
  /\ UNCHANGED <<count, main, face, network, running, written, litter>>

-----------------------------------------------------------------------------
(* release(), for connection c when the timer ran for timerStep. *)
Aged(c) == IF c.timeout < 0 THEN c ELSE [c EXCEPT !.timeout = @ + timerStep]
Expired(c) == Aged(c).timeout >= HostTimeout
TimedOut(c) == c.stat = "request" /\ c.wait + timerStep >= FaceTimeout

GivesUp(c) == ~Expired(c) /\ TimedOut(c) /\ c.retry > FaceMaxRetries

Asks(c) ==
  /\ ~Expired(c)
  /\ c.stat = "reply" \/ (TimedOut(c) /\ ~GivesUp(c))

AskedAnew(c) ==                         \* mutant: retries are not counted
  [Aged(c) EXCEPT !.stat = "request", !.wait = 0, !.retry = 0]
Asked(c) ==
  [Aged(c) EXCEPT !.stat = "request", !.wait = 0,
                  !.retry = IF c.stat = "reply" THEN 0 ELSE @ + 1]

Ticked(c) ==
  IF Expired(c) THEN Idle
  ELSE IF GivesUp(c) THEN [Aged(c) EXCEPT !.stat = "abandoned", !.file = "none"]
  ELSE IF Asks(c) THEN Asked(c)
  ELSE IF c.stat = "request" THEN [Aged(c) EXCEPT !.wait = @ + timerStep]
  ELSE Aged(c)

(* The file of an idle connection goes with the transfer or the viewer; with *)
(* neither it is only forgotten.                                             *)
Forgets(c) ==
  Expired(c) /\ c.file = "open" /\ c.stat \notin Fetching /\ c.viewer = 0

(* fclose() or fwrite() on a file closed before. *)
ClosedUse(c) == c.file = "closed"

Dropped(c) == (Expired(c) /\ c.stat \in Fetching) \/ GivesUp(c)

(* Where release() closes a file that is noted. *)
Closes(c) == Dropped(c) \/ (Expired(c) /\ c.viewer # 0)

(* A viewer is shut down with its connection. *)
KillsNone(c) == {}                      \* mutant
Kills(c) == IF Expired(c) THEN {c.viewer} ELSE {}

(* Whether the timer may run out while a datagram of c is under way. *)
MayTick(c) ==
  \/ Delay = "any"
  \/ Delay = "timeout" /\ ~TimedOut(c)

Tick ==
  /\ main = Ready
  /\ \A h \in Hosts : reqs[h] \cup reps[h] # {} => MayTick(conn[h])
  /\ conn' = [h \in Hosts |-> Ticked(conn[h])]
  /\ reqs' = [h \in Hosts |-> IF Asks(conn[h]) THEN reqs[h] \cup {conn[h].address}
                                               ELSE reqs[h]]
  /\ faceTransferActive' =
       faceTransferActive - Cardinality({h \in Hosts : Dropped(conn[h])})
  /\ timerStep' \in WindTimer(faceTransferActive')
  /\ running' = [h \in Hosts |-> running[h] \ Kills(conn[h])]
  /\ written' = [h \in Hosts |-> IF Ticked(conn[h]).file = "none" THEN <<>> ELSE written[h]]
  /\ litter' = litter \cup {h \in Hosts : Forgets(conn[h]) /\ conn[h].stat # "complete"}
  /\ main' = IF \E h \in Hosts : Closes(conn[h]) /\ ClosedUse(conn[h])
               THEN [at |-> "crashed"] ELSE main
  /\ UNCHANGED <<face, reps>>

-----------------------------------------------------------------------------
(* A datagram under way is taken from the network when it arrives; with any  *)
(* Delay a copy may stay behind, to arrive as a repeated or a late one.      *)
Left(box, m) == IF Delay = "any" THEN {box, box \ {m}} ELSE {box \ {m}}

(* The sfspeaker of host h answers a request for block a. *)
AnswerShort(h, a) ==                    \* mutant: the last block is taken for the end
  IF ~face[h] THEN Less ELSE IF a < Blocks - 1 THEN a ELSE Eof
Answer(h, a) == IF ~face[h] THEN Less ELSE IF a < Blocks THEN a ELSE Eof
Serve(h) ==
  \E a \in reqs[h] :
    /\ \E box \in Left(reqs[h], a) : reqs' = [reqs EXCEPT ![h] = box]
    /\ reps' = [reps EXCEPT ![h] = @ \cup {Answer(h, a)}]
    /\ UNCHANGED <<conn, count, main, face, running, written, litter>>

Lose(h) ==
  /\ \E m \in reqs[h] \cup reps[h] :
       /\ reqs' = [reqs EXCEPT ![h] = @ \ {m}]
       /\ reps' = [reps EXCEPT ![h] = @ \ {m}]
  /\ UNCHANGED <<conn, count, main, face, running, written, litter>>

(* The other user starts sfspeaker anew, with SPEAKFREE_FACE set or not. *)
Restart(h) ==
  /\ face' = [face EXCEPT ![h] = ~@]
  /\ UNCHANGED <<conn, count, main, network, running, written, litter>>

(* The temporary file that c writes to when a reply with contents comes. *)
FileFor(c) ==
  IF c.file # "none" THEN {c.file}
  ELSE IF MayFail THEN {"open", "none"} ELSE {"open"}

Accepts(c, a) == a = c.address

(* Block a: written if it is the one expected, discarded otherwise. *)
Block(h, a) ==
  LET c == [Heard(h) EXCEPT !.known = TRUE] IN
  \E f \in FileFor(c) :
    /\ IF f = "open" /\ Accepts(c, a)
         THEN /\ conn' = [conn EXCEPT ![h] =
                            [c EXCEPT !.file = f, !.address = a + 1,
                                      !.stat = "reply", !.retry = 0]]
              /\ written' = [written EXCEPT ![h] = Append(@, a)]
         ELSE /\ conn' = [conn EXCEPT ![h] = [c EXCEPT !.file = f]]
              /\ UNCHANGED written
    /\ main' = IF f = "closed" /\ a = c.address THEN [at |-> "crashed"] ELSE main
    /\ UNCHANGED <<count, running>>

(* The end: the transfer is over and a viewer is forked. *)
End(h) ==
  LET c == [Heard(h) EXCEPT !.known = TRUE] IN
  \E f \in FileFor(c) :
    /\ IF f = "none"
         THEN /\ conn' = [conn EXCEPT ![h] = c]
              /\ UNCHANGED <<faceTransferActive, running, main>>
         ELSE /\ conn' = [conn EXCEPT ![h] = [c EXCEPT !.file = f, !.stat = "complete"]]
              /\ faceTransferActive' = faceTransferActive - 1
              /\ IF f = "closed"
                   THEN main' = [at |-> "crashed"] /\ UNCHANGED running
                   ELSE \/ \E v \in Viewers \ (running[h] \cup {c.viewer}) :
                             /\ running' = [running EXCEPT ![h] = @ \cup {v}]
                             /\ main' = [at |-> "forked", host |-> h, viewer |-> v]
                        \/ MayFail /\ UNCHANGED <<main, running>>
    /\ UNCHANGED <<timerStep, written>>

(* faceLess: nothing (more) to be had.  The file is closed and deleted, but  *)
(* still noted as face_file.                                                 *)
NoFaceGoesOn(h) ==                      \* mutant: the transfer is not abandoned
  LET c == [Heard(h) EXCEPT !.known = TRUE] IN
  /\ conn' = [conn EXCEPT ![h] = [c EXCEPT !.file = IF @ = "open" THEN "closed" ELSE @]]
  /\ main' = IF ClosedUse(c) THEN [at |-> "crashed"] ELSE main
  /\ UNCHANGED <<count, running, written>>
NoFace(h) ==
  LET c == [Heard(h) EXCEPT !.known = TRUE] IN
  /\ conn' = [conn EXCEPT ![h] =
                [c EXCEPT !.stat = "abandoned",
                          !.file = IF @ = "open" THEN "closed" ELSE @]]
  /\ faceTransferActive' = faceTransferActive - 1
  /\ main' = IF ClosedUse(c) THEN [at |-> "crashed"] ELSE main
  /\ UNCHANGED <<timerStep, running, written>>

Receive(h) ==
  /\ main = Ready
  /\ faceTransferActive > -MaxDrift
  /\ \E m \in reps[h] :
       /\ \E box \in Left(reps[h], m) : reps' = [reps EXCEPT ![h] = box]
       /\ IF m = Eof THEN End(h) ELSE IF m = Less THEN NoFace(h) ELSE Block(h, m)
  /\ UNCHANGED <<face, reqs, litter>>

(* fork() returns: the process number of the viewer is noted. *)
NoteViewer ==
  /\ main.at = "forked"
  /\ conn' = [conn EXCEPT ![main.host].viewer = main.viewer]
  /\ main' = Ready
  /\ UNCHANGED <<count, face, network, running, written, litter>>

(* A viewer ends and childterm() runs: the connection that notes it forgets  *)
(* it, and its file is closed and deleted.                                   *)
ViewerEnds(h) ==
  /\ main.at \in {"ready", "forked"}
  /\ \E v \in running[h] :
       /\ running' = [running EXCEPT ![h] = @ \ {v}]
       /\ IF conn[h].viewer = v
            THEN /\ conn' = [conn EXCEPT ![h] = [@ EXCEPT !.viewer = 0, !.file = "none"]]
                 /\ written' = [written EXCEPT ![h] = <<>>]
                 /\ main' = IF ClosedUse(conn[h]) THEN [at |-> "crashed"] ELSE main
            ELSE UNCHANGED <<conn, written, main>>
  /\ UNCHANGED <<count, face, network, litter>>

(* exiting(): the files of running viewers are deleted. *)
Exiting ==
  /\ main.at \in {"ready", "forked"}
  /\ main' = [at |-> "ended"]
  /\ running' = [h \in Hosts |-> running[h] \ {conn[h].viewer}]
  /\ litter' = litter \cup {h \in Hosts : conn[h].file = "open" /\ conn[h].viewer = 0}
  /\ UNCHANGED <<conn, count, face, network, written>>

Ended == main.at \in {"ended", "crashed"} /\ UNCHANGED vars

Speaker(h) ==
  \/ \E offer \in BOOLEAN : Sound(h, offer)
  \/ Bye(h)
  \/ Receive(h)
  \/ ViewerEnds(h)

Network(h) == Serve(h) \/ Lose(h)

Next ==
  \/ \E h \in Hosts : Speaker(h) \/ Network(h) \/ Restart(h)
  \/ Tick
  \/ NoteViewer
  \/ Exiting
  \/ Ended

(* The timer keeps ticking, datagrams arrive or are lost, fork() returns. *)
Fairness ==
  /\ WF_vars(Tick)
  /\ WF_vars(NoteViewer)
  /\ \A h \in Hosts : WF_vars(Receive(h)) /\ WF_vars(Network(h))

Spec == Init /\ [][Next]_vars /\ Fairness

-----------------------------------------------------------------------------
(* Every variable has its type. *)
TypeOK ==
  /\ conn \in [Hosts -> [timeout : -1..HostTimeout, known : BOOLEAN,
       stat : {"init", "request", "reply", "complete", "abandoned"},
       address : 0..Blocks, retry : 0..FaceMaxRetries + 1, wait : 0..FaceTimeout,
       file : {"none", "open", "closed"}, viewer : {0} \cup Viewers]]
  /\ timerStep \in {FetchStep} \cup SlowSteps
  /\ faceTransferActive \in Int
  /\ running \in [Hosts -> SUBSET Viewers]
  /\ \A h \in Hosts : reqs[h] \subseteq 0..Blocks /\ reps[h] \subseteq Reply

Transferring == {h \in Hosts : conn[h].stat \in Fetching}

(* The count that sets the pace of the timer is the number of transfers in   *)
(* progress, whichever way each of them ended (speaker.c:78, 557-563), and   *)
(* while there is one the timer runs at FaceFetchInterval: "it is            *)
(* transferred in packets at a rate configured by FaceFetchInterval"         *)
(* (log.doc:341-342, speaker.c:2579-2582).                                   *)
FetchPace ==
  /\ TypeOK
  /\ faceTransferActive = Cardinality(Transferring)
  /\ Transferring # {} => timerStep = FetchStep

(* A viewer is only started on a whole face (speaker.c:3206-3265). *)
WholeFace ==
  [][\A h \in Hosts : running'[h] \ running[h] # {}
                        => written[h] = [i \in 1..Blocks |-> i - 1]]_vars

(* One face of a host is shown at a time. *)
OneViewer == \A h \in Hosts : Cardinality(running[h]) <= 1

(* Blocks reach the file once each and in order, though replies are repeated *)
(* and late (speaker.c:3210).                                                *)
InOrder ==
  \A h \in Hosts : \A i \in 1..Len(written[h]) - 1 : written[h][i + 1] = written[h][i] + 1

(* Files are written in order, closed once, used only while they are open    *)
(* (speaker.c:3309) and, if incomplete, deleted when their connection goes   *)
(* idle (speaker.c:761-790).                                                 *)
FilesTidy ==
  /\ InOrder
  /\ main.at # "crashed"
  /\ main.at # "ended" => litter = {}

(* A transfer, once begun, comes to an end: complete, refused, given up or   *)
(* dropped with its connection (speaker.c:813-845).                          *)
Settles ==
  \A h \in Hosts : (conn[h].stat \in Fetching)
                     ~> (conn[h].stat \notin Fetching \/ main.at = "ended")

(* childterm() is there "to delete the face file no longer associated with a *)
(* viewer" (speaker.c:967-971): a viewer noted is one that runs.  Does not    *)
(* hold: see the README.                                                     *)
ViewerAlive ==
  main = Ready => \A h \in Hosts : conn[h].viewer # 0 => conn[h].viewer \in running[h]

(* exiting() is to "clean up before exit" (speaker.c:939-940): no temporary  *)
(* file stays.  Does not hold: see the README.                               *)
CleanExit == main.at = "ended" => litter = {}
=============================================================================
