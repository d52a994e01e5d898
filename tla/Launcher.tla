------------------------------ MODULE Launcher ------------------------------
(* sflaunch (src/launch.c): the parent of one sfspeaker and of one sfmike at *)
(* a time.  It forks sfspeaker, then sfmike for every destination the user   *)
(* names, waits for either to end and shuts the other one down with SIGHUP.  *)
(*                                                                           *)
(* A child may end at any time (the user quits it, it crashes, or execvp()   *)
(* fails and the child exits at once), and ends once it has a SIGHUP:        *)
(* sfspeaker and sfmike both handle that signal with exiting().  A child     *)
(* that ended stays a zombie until wait() returns it.                        *)
EXTENDS Integers, FiniteSets

CONSTANT MaxConnections   \* bound: times the user starts sfmike

ASSUME LauncherAssumption == MaxConnections \in Nat \ {0}

Speaker == 0
Mikes == 1..MaxConnections
Children == {Speaker} \cup Mikes     \* process numbers, never reused
NoPid == -1

VARIABLES
  pc,          \* where the launcher is
  oneconnect,  \* the option: end with the first conversation
  named,       \* a destination was named on the command line (ndest > 0)
  cpspeaker, cpmike,   \* the children known to run, or NoPid
  child,       \* the state of every process
  started,     \* how many sfmikes were started
  stray        \* history: a signal went to a process already waited for

vars == <<pc, oneconnect, named, cpspeaker, cpmike, child, started, stray>>

Init ==
  /\ pc = "fork"
  /\ oneconnect \in BOOLEAN
  /\ named \in BOOLEAN
  /\ cpspeaker = NoPid
  /\ cpmike = NoPid
  /\ child = [p \in Children |-> "none"]
  /\ started = 0
  /\ stray = FALSE

-----------------------------------------------------------------------------
(* State c of the children after kill(p, SIGHUP), and whether the signal was *)
(* stray: kill(-1) signals every process, and the number of a process that   *)
(* was waited for may be some other process's.                               *)
Hup(c, p) == [q \in Children |->
                IF q = p /\ c[q] = "running" THEN "hup" ELSE c[q]]
IsStray(c, p) == p = NoPid \/ c[p] \in {"none", "reaped"}

(* fork() and execvp() of sfspeaker. *)
ForkSpeaker ==
  /\ pc = "fork"
  /\ cpspeaker' = Speaker
  /\ child' = [child EXCEPT ![Speaker] = "running"]
  /\ pc' = IF named THEN "mike" ELSE "prompt"
  /\ UNCHANGED <<oneconnect, named, cpmike, started, stray>>

(* startMike(). *)
StartMike ==
  /\ pc = "mike"
  /\ started < MaxConnections
  /\ started' = started + 1
  /\ cpmike' = started + 1
  /\ child' = [child EXCEPT ![started + 1] = "running"]
  /\ pc' = "wait"
  /\ UNCHANGED <<oneconnect, named, cpspeaker, stray>>

(* fork() fails: the launcher exits, whatever still runs. *)
ForkFails ==
  /\ pc \in {"fork", "mike"}
  /\ pc' = "failed"
  /\ UNCHANGED <<oneconnect, named, cpspeaker, cpmike, child, started, stray>>

(* newConnection(): the user names a destination ... *)
Answer ==
  /\ pc = "prompt"
  /\ started < MaxConnections
  /\ pc' = "mike"
  /\ UNCHANGED <<oneconnect, named, cpspeaker, cpmike, child, started, stray>>

(* ... or leaves it blank (or ends the input): sfspeaker is shut down unless *)
(* it has ended.                                                             *)
Decline ==
  /\ pc = "prompt"
  /\ pc' = "wait"
  /\ IF cpspeaker # NoPid
       THEN /\ child' = Hup(child, cpspeaker)
            /\ stray' = (stray \/ IsStray(child, cpspeaker))
       ELSE UNCHANGED <<child, stray>>
  /\ UNCHANGED <<oneconnect, named, cpspeaker, cpmike, started>>

MikeGoneKept(p) ==    \* mutant: cpmike keeps the number of the sfmike that ended
  /\ pc' = IF oneconnect THEN "wait" ELSE "prompt"
  /\ child' = [child EXCEPT ![p] = "reaped"]
  /\ UNCHANGED <<stray, cpspeaker, cpmike>>
MikeGoneQuiet(p) ==   \* mutant: sfspeaker is not told that the last sfmike ended
  /\ cpmike' = NoPid
  /\ pc' = IF oneconnect THEN "wait" ELSE "prompt"
  /\ child' = [child EXCEPT ![p] = "reaped"]
  /\ UNCHANGED <<stray, cpspeaker>>

(* wait() returns sfmike: ask for another destination, unless oneconnect.    *)
MikeGone(p) ==
  /\ cpmike' = NoPid
  /\ LET reaped == [child EXCEPT ![p] = "reaped"] IN
     IF ~oneconnect
       THEN /\ pc' = "prompt"
            /\ child' = reaped
            /\ UNCHANGED stray
       ELSE /\ pc' = "wait"
            /\ IF cpspeaker # NoPid
                 THEN /\ child' = Hup(reaped, cpspeaker)
                      /\ stray' = (stray \/ IsStray(reaped, cpspeaker))
                 ELSE /\ child' = reaped
                      /\ UNCHANGED stray
  /\ UNCHANGED cpspeaker

(* wait() returns sfspeaker: shut a running sfmike down as well. *)
SpeakerGone(p) ==
  /\ cpspeaker' = NoPid
  /\ LET reaped == [child EXCEPT ![p] = "reaped"] IN
     IF cpmike # NoPid
       THEN /\ child' = Hup(reaped, cpmike)
            /\ stray' = (stray \/ IsStray(reaped, cpmike))
       ELSE /\ child' = reaped
            /\ UNCHANGED stray
  /\ pc' = "wait"
  /\ UNCHANGED cpmike

Wait ==
  /\ pc = "wait"
  /\ \E p \in Children :
       /\ child[p] = "zombie"
       /\ IF p = cpmike THEN MikeGone(p) ELSE SpeakerGone(p)
  /\ UNCHANGED <<oneconnect, named, started>>

FinishEither ==   \* mutant: && for ||
  /\ pc = "wait"
  /\ NoPid \in {cpmike, cpspeaker}
  /\ pc' = "done"
  /\ UNCHANGED <<oneconnect, named, cpspeaker, cpmike, child, started, stray>>

(* Nothing left to wait for: the audio device is closed and the launcher ends. *)
Finish ==
  /\ pc = "wait"
  /\ cpmike = NoPid
  /\ cpspeaker = NoPid
  /\ pc' = "done"
  /\ UNCHANGED <<oneconnect, named, cpspeaker, cpmike, child, started, stray>>

-----------------------------------------------------------------------------
(* The children, by what the launcher sees of them. *)
Exit(p) ==
  /\ child[p] = "running"
  /\ child' = [child EXCEPT ![p] = "zombie"]
  /\ UNCHANGED <<pc, oneconnect, named, cpspeaker, cpmike, started, stray>>

HupExit(p) ==
  /\ child[p] = "hup"
  /\ child' = [child EXCEPT ![p] = "zombie"]
  /\ UNCHANGED <<pc, oneconnect, named, cpspeaker, cpmike, started, stray>>

Ended == pc \in {"done", "failed"} /\ UNCHANGED vars

Launch == ForkSpeaker \/ StartMike \/ Answer \/ Decline \/ Wait \/ Finish

Next ==
  \/ Launch
  \/ ForkFails
  \/ \E p \in Children : Exit(p) \/ HupExit(p)
  \/ Ended

(* The launcher runs whenever it can and a signalled child does end; the user *)
(* need never answer, and a child need never end by itself.                   *)
Fairness ==
  /\ WF_vars(Wait)
  /\ WF_vars(Finish)
  /\ \A p \in Children : WF_vars(HupExit(p))

Spec == Init /\ [][Next]_vars /\ Fairness

-----------------------------------------------------------------------------
Alive(p) == child[p] \in {"running", "hup"}

(* The variables have these types; a launcher that still works knows exactly *)
(* the children that it has not waited for yet.                              *)
TypeOK ==
  /\ pc \in {"fork", "mike", "prompt", "wait", "done", "failed"}
  /\ oneconnect \in BOOLEAN
  /\ named \in BOOLEAN
  /\ cpspeaker \in {NoPid, Speaker}
  /\ cpmike \in {NoPid} \cup Mikes
  /\ child \in [Children -> {"none", "running", "hup", "zombie", "reaped"}]
  /\ started \in 0..MaxConnections
  /\ stray \in BOOLEAN

(* A launcher that ends normally, closing the audio device, leaves neither a *)
(* child that runs nor a zombie (launch.c:369-373, 428-434).                 *)
NoOrphan == pc = "done" => \A p \in Children : child[p] \in {"none", "reaped"}

(* No SIGHUP goes to a process that was already waited for, nor to every     *)
(* process by kill(-1), in whichever order the children end (launch.c:378,   *)
(* 408, 415).                                                                *)
NoStrayKill == ~stray

(* Only one sfmike is connected at a time: the next is started once wait()   *)
(* has returned the one before (launch.c:402-406).                           *)
OneMike == \A p, q \in Mikes : Alive(p) /\ Alive(q) => p = q

(* Once the user wants no further connection the launcher ends, sfspeaker    *)
(* being told to (launch.c:402-409).                                         *)
Quits == (pc = "wait" /\ cpmike = NoPid) ~> (pc = "done")

(* Once sfspeaker ended by itself the sfmike then connected is shut down     *)
(* (launch.c:410-415).                                                       *)
MikeShutDown ==
  \A p \in Mikes : (child[Speaker] = "zombie" /\ cpmike = p) ~> (child[p] = "reaped")

(* The launcher shuts down what it started, and itself. *)
ShutsDown == Quits /\ MikeShutDown

(* What launch.c:396-400 says of a speaker that dies, "we also shut down     *)
(* sfmike, since that makes it easier for the user to restart the whole      *)
(* stack": no sfmike is started by a launcher that knows sfspeaker ended.    *)
(* Does not hold: see the README.                                            *)
WholeStack == [][cpmike' # cpmike /\ cpmike' # NoPid => cpspeaker # NoPid]_vars

-----------------------------------------------------------------------------
(* The inductive invariant: a number the launcher keeps is that of a child   *)
(* not waited for, and every other child has not started or was waited for.  *)
Outstanding(p) == child[p] \in {"running", "hup", "zombie"}
Held == {cpspeaker, cpmike} \ {NoPid}
KeptInv ==
  /\ Held = {p \in Children : Outstanding(p)}
  /\ \A p \in Children : p > started => child[p] = "none"
  /\ pc \in {"mike", "prompt", "fork"} => cpmike = NoPid
  /\ pc = "done" => cpmike = NoPid /\ cpspeaker = NoPid
  /\ pc = "fork" => child[Speaker] = "none"
  /\ stray = FALSE
=============================================================================
