-------------------------------- MODULE Echo --------------------------------
(***************************************************************************)
(* The echo server, sfecho (src/echo.c).  One process: a main loop that    *)
(* receives datagrams and queues each to be sent back Echo_Time later, and *)
(* the SIGALRM handler release() that sends what is due, forgets idle      *)
(* hosts, refreshes the Look Who's Listening entry and re-arms the         *)
(* interval timer.  The two share the packet queue and the connection      *)
(* chain and are kept apart by the flags crit and clash: a handler that    *)
(* finds crit set only raises clash, and the main loop calls release()     *)
(* itself when it leaves the critical section with clash raised.           *)
(*                                                                         *)
(* The model keeps every shared variable and splits both sides into the    *)
(* steps a signal can fall between.  Payloads, ports and the diagnostics   *)
(* (compression modes, host names) are left out.                           *)
(***************************************************************************)
EXTENDS Integers, Sequences

CONSTANTS
    Host,           \* Internet addresses that send to the server
    EchoTime,       \* Echo_Time: how long a packet is held
    Epsilon,        \* Timer_Epsilon: a packet this close to its time is sent
    Latency,        \* Timer_Latency: how much before its time the timer is set
    TickTock,       \* timer period while some host is active
    TockTock,       \* timer period while no host is; also the clash delay
    HostTimeout,    \* hosttimeout: silence after which a host is idle
    LwlRetransmit,  \* LWL_RETRANSMIT
    Publish,        \* SPEAKFREE_LWL_TELL names a server (sdes # NULL)
    MayDrop,        \* -Z: debug_packet_drop > 0
    ShuffleDepth,   \* -Z: debug_packet_shuffle_depth, 0 when not shuffling
    MayFail,        \* malloc() may return NULL
    Reentrant,      \* SIGALRM may strike inside a release() that main called
    Prompt,         \* the process never lags the clock (see Tick)
    MaxPackets,     \* bound: datagrams received
    MaxTime         \* bound: the clock

ASSUME EchoAssumption ==
    /\ EchoTime \in Nat /\ Epsilon \in Nat /\ Latency \in Nat
    /\ TickTock \in Nat \ {0} /\ TockTock \in Nat \ {0}
    /\ HostTimeout \in Nat /\ LwlRetransmit \in Nat \ {0}
    /\ TickTock <= TockTock             \* 10 s and 60 s, echo.c:75
    /\ Latency < Epsilon               \* the #if at echo.c:338
    /\ EchoTime > 0
    /\ ShuffleDepth \in Nat /\ MaxPackets \in Nat /\ MaxTime \in Nat

ASSUME EchoFlags ==
    {Publish, MayDrop, MayFail, Reentrant, Prompt} \subseteq BOOLEAN

VARIABLES
    now,       \* gettimeofday() relative to timebase
    alarm,     \* when ITIMER_REAL expires, or Off
    crit,      \* queue critical section lock
    clash,     \* critical section clash retry flag
    conn,      \* connection chain: host |-> [timeout, bye]
    queue,     \* qph .. qptail
    pc,        \* where the main loop is
    pkt,       \* the datagram the main loop holds (from, sb, pktime)
    rel,       \* the activations of release(): called by main, by SIGALRM
    sdes,      \* whether an LWL entry is being published (sdes # NULL)
    lwltimer,  \* when the next LWL update is due
    received,  \* history: datagrams received so far, which number them
    echoed,    \* history: packets sent back, in order
    gone,      \* history: hosts whose last datagram handled was a BYE
    published  \* history: when the LWL server last heard from us

vars == <<now, alarm, crit, clash, conn, queue, pc, pkt, rel, sdes, lwltimer,
          received, echoed, gone, published>>
lwlVars == <<sdes, lwltimer, published>>

Off == -1              \* the timer is disarmed
Caller == {"main", "signal"}

Packet == [id: 0..MaxPackets, host: Host, when: Nat, live: BOOLEAN]
Datagram == [id: 0..MaxPackets, host: Host, bye: BOOLEAN, when: Nat]
Reply == [id: 0..MaxPackets, host: Host]
Connection == [timeout: Nat, bye: BOOLEAN]
Activation == [at: {"out", "due", "unlink", "hosts", "arm"}, td: Nat]

(* setitimer() with a zero value disarms the timer, and one before zero is *)
(* refused.                                                                *)
Ularm(step) == IF step > 0 THEN now + step ELSE Off

DueTooEarly(p, td) == p.when - td <= Epsilon    \* mutant
Due(p, td) == p.when - td < Epsilon

NoConnection == [h \in {} |-> [timeout |-> 0, bye |-> FALSE]]
Outside == [at |-> "out", td |-> 0]
Active(who) == rel[who].at # "out"

(* The main loop is suspended while the signal handler runs. *)
MainRuns == ~Active("signal") /\ pc # "crashed"

Init ==
    /\ now = 0
    /\ alarm = TockTock
    /\ crit = FALSE /\ clash = FALSE
    /\ conn = NoConnection /\ queue = <<>>
    /\ pc = "select"
    /\ \E h \in Host : pkt = [id |-> 0, host |-> h, bye |-> FALSE, when |-> 0]
    /\ rel = [who \in Caller |-> Outside]
    /\ sdes = Publish /\ lwltimer = LwlRetransmit
    /\ received = 0 /\ echoed = <<>> /\ gone = {} /\ published = 0

-----------------------------------------------------------------------------
(* The main loop. *)

(* select() and recvfrom() return a datagram; its echo time is fixed here, *)
(* before the critical section.  With -Z the packet may be thrown away.    *)
Receive(h, bye) ==
    /\ pc = "select" /\ MainRuns
    /\ received < MaxPackets
    /\ received' = received + 1
    /\ pkt' = [id |-> received + 1, host |-> h, bye |-> bye,
               when |-> now + EchoTime]
    /\ \/ pc' = "received"
       \/ MayDrop /\ UNCHANGED pc
    /\ UNCHANGED <<now, alarm, crit, clash, conn, queue, rel, echoed,
                   gone, lwlVars>>

EnterUnlocked ==    \* mutant: forgets to raise crit
    /\ pc = "received" /\ MainRuns
    /\ pc' = "connect"
    /\ UNCHANGED <<now, alarm, crit, clash, conn, queue, pkt, rel, received,
                   echoed, gone, lwlVars>>

EnterCritical ==
    /\ pc = "received" /\ MainRuns
    /\ crit' = TRUE
    /\ pc' = "connect"
    /\ UNCHANGED <<now, alarm, clash, conn, queue, pkt, rel, received,
                   echoed, gone, lwlVars>>

(* Find the sender's connection or make one; its timeout starts at the     *)
(* echo time and a former BYE is forgotten.  If there is no memory for a   *)
(* new one the datagram is ignored.                                        *)
Connect ==
    /\ pc = "connect" /\ MainRuns
    /\ \/ /\ conn' = [h \in DOMAIN conn \cup {pkt.host} |->
                        IF h = pkt.host
                        THEN [timeout |-> pkt.when, bye |-> FALSE]
                        ELSE conn[h]]
          /\ pc' = "serve"
          /\ UNCHANGED gone
       \/ /\ MayFail /\ pkt.host \notin DOMAIN conn
          /\ pc' = "leave"
          /\ gone' = IF pkt.bye THEN gone \cup {pkt.host}
                                ELSE gone \ {pkt.host}
          /\ UNCHANGED conn
    /\ UNCHANGED <<now, alarm, crit, clash, queue, pkt, rel, received,
                   echoed, lwlVars>>

ServeByeNoPurge ==    \* mutant: what is queued stays
    /\ pc = "serve" /\ MainRuns
    /\ pkt.bye
    /\ conn' = [conn EXCEPT ![pkt.host] = [timeout |-> pkt.when, bye |-> TRUE]]
    /\ gone' = gone \cup {pkt.host}
    /\ pc' = "leave"
    /\ UNCHANGED <<now, alarm, crit, clash, queue, pkt, rel, received, echoed,
                   lwlVars>>

(* A BYE is not echoed, and empties every packet queued to its sender. *)
ServeBye ==
    /\ pc = "serve" /\ MainRuns
    /\ pkt.bye
    /\ conn' = [conn EXCEPT ![pkt.host].bye = TRUE]
    /\ queue' = [i \in DOMAIN queue |->
                   [queue[i] EXCEPT !.live = @ /\ queue[i].host # pkt.host]]
    /\ gone' = gone \cup {pkt.host}
    /\ pc' = "leave"
    /\ UNCHANGED <<now, alarm, crit, clash, pkt, rel, received, echoed,
                   lwlVars>>

(* Any other datagram joins the queue; the timer is set only if the queue  *)
(* was empty.  Without memory the packet is lost.                          *)
ServeEcho ==
    /\ pc = "serve" /\ MainRuns
    /\ ~pkt.bye
    /\ \/ /\ queue' = Append(queue, [id |-> pkt.id, host |-> pkt.host,
                                     when |-> pkt.when, live |-> TRUE])
          /\ alarm' = IF queue = <<>> THEN Ularm(EchoTime) ELSE alarm
       \/ MayFail /\ UNCHANGED <<queue, alarm>>
    /\ gone' = gone \ {pkt.host}
    /\ pc' = "leave"
    /\ UNCHANGED <<now, crit, clash, conn, pkt, rel, received, echoed,
                   lwlVars>>

LeaveCritical ==
    /\ pc = "leave" /\ MainRuns
    /\ crit' = FALSE
    /\ pc' = "retry"
    /\ UNCHANGED <<now, alarm, clash, conn, queue, pkt, rel, received,
                   echoed, gone, lwlVars>>

RetryNever ==    \* mutant: leaves without looking at clash
    /\ pc = "retry" /\ MainRuns
    /\ pc' = "select"
    /\ UNCHANGED <<now, alarm, crit, clash, conn, queue, pkt, rel, received,
                   echoed, gone, lwlVars>>

(* if (clash) release();  the flag is never lowered, here or elsewhere. *)
Retry ==
    /\ pc = "retry" /\ MainRuns
    /\ IF clash
       THEN /\ rel' = [rel EXCEPT !["main"] = [at |-> "due", td |-> now]]
            /\ pc' = "release"
       ELSE /\ pc' = "select"
            /\ UNCHANGED rel
    /\ UNCHANGED <<now, alarm, crit, clash, conn, queue, pkt, received,
                   echoed, gone, lwlVars>>

-----------------------------------------------------------------------------
(* release(), run by the signal handler or by the main loop. *)

(* The timer expires.  SIGALRM is blocked while its handler runs. *)
Sigalrm ==
    /\ alarm # Off /\ alarm <= now
    /\ MainRuns
    /\ Reentrant \/ ~Active("main")
    /\ IF crit
       THEN /\ clash' = TRUE
            /\ alarm' = Ularm(TockTock)
            /\ UNCHANGED rel
       ELSE /\ rel' = [rel EXCEPT !["signal"] = [at |-> "due", td |-> now]]
            /\ alarm' = Off
            /\ UNCHANGED clash
    /\ UNCHANGED <<now, crit, conn, queue, pc, pkt, received, echoed,
                   gone, lwlVars>>

(* Whose turn it is: the handler suspends a release() that main called. *)
Runs(who) == Active(who) /\ (who = "main" => MainRuns)

(* Mutants of Shuffled: times move with the packets; the pushed packet     *)
(* lost and the other linked twice.                                        *)
ShuffledWithTimes(n) ==
    [i \in DOMAIN queue |-> CASE i = 1 -> queue[n + 1]
                              [] i = n + 1 -> queue[1]
                              [] OTHER -> queue[i]]
ShuffledTwice(n) ==
    [i \in DOMAIN queue |-> IF i = 1 THEN [queue[n + 1] EXCEPT
                                            !.when = queue[1].when]
                                    ELSE queue[i]]

(* The queue after the packet at depth n + 1 is brought to the head and    *)
(* the head pushed to its place, each taking the other's time.             *)
Shuffled(n) ==
    [i \in DOMAIN queue |->
       CASE i = 1     -> [queue[n + 1] EXCEPT !.when = queue[1].when]
         [] i = n + 1 -> [queue[1] EXCEPT !.when = queue[n + 1].when]
         [] OTHER     -> queue[i]]

(* One turn of the while loop up to the sendto(): perhaps shuffle, then    *)
(* send the head unless a BYE emptied it.                                  *)
SendDue(who) ==
    /\ rel[who].at = "due" /\ Runs(who)
    /\ queue # <<>> /\ Due(queue[1], rel[who].td)
    /\ \E n \in 0..ShuffleDepth :
         /\ n < Len(queue)
         /\ queue' = IF n = 0 THEN queue ELSE Shuffled(n)
    /\ echoed' = IF queue'[1].live
                 THEN Append(echoed, [id |-> queue'[1].id,
                                      host |-> queue'[1].host])
                 ELSE echoed
    /\ rel' = [rel EXCEPT ![who].at = "unlink"]
    /\ UNCHANGED <<now, alarm, crit, clash, conn, pc, pkt, received,
                   gone, lwlVars>>

(* The rest of the turn: unlink and free the head.  Another activation may *)
(* have emptied the queue meanwhile, and then qp->next is read at NULL.    *)
Unlink(who) ==
    /\ rel[who].at = "unlink" /\ Runs(who)
    /\ IF queue # <<>>
       THEN /\ queue' = Tail(queue)
            /\ rel' = [rel EXCEPT ![who].at = "due"]
            /\ UNCHANGED pc
       ELSE /\ pc' = "crashed"
            /\ UNCHANGED <<queue, rel>>
    /\ UNCHANGED <<now, alarm, crit, clash, conn, pkt, received, echoed,
                   gone, lwlVars>>

NothingDue(who) ==
    /\ rel[who].at = "due" /\ Runs(who)
    /\ queue # <<>> => ~Due(queue[1], rel[who].td)
    /\ rel' = [rel EXCEPT ![who].at = "hosts"]
    /\ UNCHANGED <<now, alarm, crit, clash, conn, queue, pc, pkt,
                   received, echoed, gone, lwlVars>>

(* Unlink the hosts that said BYE or fell silent, then publish if it is    *)
(* time to.  A socket() that fails turns publishing off for good.          *)
StillActive(h, td) == ~conn[h].bye /\ td < conn[h].timeout + HostTimeout

SweepHosts(who) ==
    LET td == rel[who].td
    IN  /\ rel[who].at = "hosts" /\ Runs(who)
        /\ conn' = [h \in {g \in DOMAIN conn : StillActive(g, td)} |-> conn[h]]
        /\ IF sdes /\ td >= lwltimer
           THEN /\ lwltimer' = td + LwlRetransmit
                /\ \/ published' = now /\ UNCHANGED sdes
                   \/ MayFail /\ sdes' = FALSE /\ UNCHANGED published
           ELSE UNCHANGED lwlVars
        /\ rel' = [rel EXCEPT ![who].at = "arm"]
        /\ UNCHANGED <<now, alarm, crit, clash, queue, pc, pkt,
                       received, echoed, gone>>

(* Set the timer for the head of the queue, or for the next sweep, and     *)
(* return to whoever called.                                               *)
TimerStep(td) ==
    IF queue # <<>> THEN (queue[1].when - td) - Latency
    ELSE IF DOMAIN conn # {} THEN TickTock ELSE TockTock

Rearm(who) ==
    /\ rel[who].at = "arm" /\ Runs(who)
    /\ alarm' = Ularm(TimerStep(rel[who].td))
    /\ rel' = [rel EXCEPT ![who] = Outside]
    /\ pc' = IF who = "main" THEN "select" ELSE pc
    /\ UNCHANGED <<now, crit, clash, conn, queue, pkt, received, echoed,
                   gone, lwlVars>>

Release(who) == \/ SendDue(who)
                \/ Unlink(who)
                \/ NothingDue(who)
                \/ SweepHosts(who)
                \/ Rearm(who)

-----------------------------------------------------------------------------
(* The clock.  A prompt process does what it has to do at each instant     *)
(* before the next one: time passes only while it waits in select() with   *)
(* no expired timer.  Otherwise it may fall behind by any amount, as it    *)
(* does in gethostbyaddr() or on a loaded machine.                         *)
Tick ==
    /\ now < MaxTime
    /\ pc # "crashed"
    /\ Prompt => /\ pc = "select"
                 /\ \A who \in Caller : ~Active(who)
                 /\ ~(alarm # Off /\ alarm <= now)
    /\ now' = now + 1
    /\ UNCHANGED <<alarm, crit, clash, conn, queue, pc, pkt, rel,
                   received, echoed, gone, lwlVars>>

MainLoop == \/ \E h \in Host, bye \in BOOLEAN : Receive(h, bye)
            \/ EnterCritical
            \/ Connect
            \/ ServeBye
            \/ ServeEcho
            \/ LeaveCritical
            \/ Retry

Next == \/ MainLoop
        \/ Sigalrm
        \/ \E who \in Caller : Release(who)
        \/ Tick

Spec == Init /\ [][Next]_vars

-----------------------------------------------------------------------------
(* Every variable has its type. *)
TypeOK ==
    /\ now \in Nat
    /\ alarm \in Nat \cup {Off}
    /\ crit \in BOOLEAN /\ clash \in BOOLEAN
    /\ DOMAIN conn \subseteq Host
    /\ conn \in [DOMAIN conn -> Connection]
    /\ queue \in Seq(Packet)
    /\ pc \in {"select", "received", "connect", "serve", "leave", "retry",
               "release", "crashed"}
    /\ pkt \in Datagram
    /\ rel \in [Caller -> Activation]
    /\ sdes \in BOOLEAN /\ lwltimer \in Nat /\ published \in Nat
    /\ received \in 0..MaxPackets
    /\ echoed \in Seq(Reply)
    /\ gone \subseteq Host

(* The queue is in time order, whatever was shuffled: the check the source *)
(* compiles in under SHUFFLE_DEBUG (echo.c:437-450).                       *)
QueueOrdered ==
    \A i, j \in DOMAIN queue : i < j => queue[i].when <= queue[j].when

(* A packet waiting to be echoed keeps its sender's connection alive: the  *)
(* sweep never forgets a host that still has something in the queue, so a  *)
(* later BYE from that host always finds the connection to purge through.  *)
QueuedHostsKnown ==
    \A i \in DOMAIN queue :
        queue[i].live => /\ queue[i].host \in DOMAIN conn
                         /\ ~conn[queue[i].host].bye
                         /\ queue[i].when <= conn[queue[i].host].timeout

(* Once a host's BYE has been handled nothing is sent to it until it sends *)
(* again: "they'll reopen the connection on the other end" (echo.c:897).   *)
NoEchoAfterBye ==
    [][echoed' # echoed => echoed'[Len(echoed')].host \notin gone]_vars

(* No datagram is sent back twice. *)
EchoedOnce ==
    \A i, j \in DOMAIN echoed : i # j => echoed[i].id # echoed[j].id

(* The one-shot timer on which everything rests is never lost: outside its *)
(* own handler it is always armed, with a step that is never zero.         *)
TimerAlive == Active("signal") \/ alarm # Off

(* The queue has one user at a time: no release() runs while the main loop *)
(* is in the critical section, and never two of them at once.              *)
QueueLocked ==
    /\ crit => \A who \in Caller : ~Active(who)
    /\ ~(Active("main") /\ Active("signal"))

(* For a prompt process: no packet is late.  A signal that found the       *)
(* critical section taken costs nothing, thanks to the retry.              *)
Timely == \A i \in DOMAIN queue : queue[i].live => now <= queue[i].when

(* For a prompt process: a host is forgotten soon after its timeout.  The  *)
(* timer may just have been put off by a packet that found the queue empty,*)
(* and with a short -i the slow timer may outlast the timeout.             *)
Idle == IF HostTimeout + TickTock > TockTock THEN HostTimeout + TickTock
                                            ELSE TockTock
SweptInTime ==
    \A h \in DOMAIN conn : now < conn[h].timeout + Idle + EchoTime

(* For a prompt process: while the server publishes itself, its LWL entry  *)
(* is refreshed before the LWL server would drop it.                       *)
ListingFresh ==
    sdes => now < published + LwlRetransmit + TockTock + EchoTime

(* For a prompt process: no packet, no idle host and no listing waits      *)
(* longer than it should, whatever the timer was put off by.               *)
OnTime == Timely /\ SweptInTime /\ ListingFresh
-----------------------------------------------------------------------------
(* The delay line the queue stands for: its live packets, without the head *)
(* that has been sent but not yet unlinked.                                *)
Sent == IF \E who \in Caller : rel[who].at = "unlink" THEN 1 ELSE 0

Line == {[id |-> queue[i].id, host |-> queue[i].host, due |-> queue[i].when] :
           i \in {j \in DOMAIN queue : j > Sent /\ queue[j].live}}

Delay == INSTANCE DelayLine WITH line <- Line, Slack <- Epsilon

(* Without shuffling the server is a delay line: first in first out, never *)
(* early, never twice, and silent to hosts that left.                      *)
IsDelayLine == Delay!Spec
-----------------------------------------------------------------------------
(* The inductive invariant of a server whose release() is never re-entered, *)
(* in parts.                                                                *)
Serving == {"received", "connect", "serve"}

(* Who is where: crit is set exactly inside the critical section, and each *)
(* release() has the queue to itself.                                      *)
LockInv ==
    /\ pc # "crashed"
    /\ crit <=> pc \in {"connect", "serve", "leave"}
    /\ Active("main") <=> pc = "release"
    /\ Active("signal") => ~crit /\ ~Active("main")

(* Times in the queue ascend and none is later than a packet received now  *)
(* would get.                                                              *)
TimeInv ==
    /\ QueueOrdered
    /\ pkt.when <= now + EchoTime
    /\ pc \in Serving =>
         \A i \in DOMAIN queue : queue[i].when <= pkt.when
    /\ \A i \in DOMAIN queue : queue[i].when <= now + EchoTime

(* What a release() in progress has established. *)
ReleaseInv ==
    \A who \in Caller :
        /\ rel[who].td <= now
        /\ rel[who].at = "unlink" => queue # <<>>
        /\ rel[who].at \in {"hosts", "arm"} /\ queue # <<>> =>
             ~Due(queue[1], rel[who].td)

(* Numbers ascend along what was echoed, what is still to be echoed and    *)
(* what is being received.                                                 *)
OrderInv ==
    /\ pkt.id <= received
    /\ \A i \in DOMAIN queue : queue[i].id <= received
    /\ \A k \in DOMAIN echoed : echoed[k].id <= received
    /\ pc \in Serving =>
         /\ 1 <= pkt.id
         /\ \A i \in DOMAIN queue : queue[i].id < pkt.id
         /\ \A k \in DOMAIN echoed : echoed[k].id < pkt.id
    /\ \A i, j \in DOMAIN queue : i < j => queue[i].id < queue[j].id
    /\ \A k \in DOMAIN echoed, i \in DOMAIN queue :
         i > Sent => echoed[k].id < queue[i].id
    /\ \A k, l \in DOMAIN echoed : k < l => echoed[k].id < echoed[l].id

(* The connection just found or made is intact when the datagram is served. *)
ServeInv ==
    pc = "serve" => /\ pkt.host \in DOMAIN conn
                    /\ conn[pkt.host] = [timeout |-> pkt.when, bye |-> FALSE]

(* Nothing is queued for a host that has left. *)
Purged == \A i \in DOMAIN queue : queue[i].live => queue[i].host \notin gone

EchoInv ==
    /\ LockInv
    /\ TimeInv
    /\ ReleaseInv
    /\ TimerAlive
    /\ ServeInv
    /\ ShuffleDepth = 0 => QueuedHostsKnown /\ OrderInv
    /\ ShuffleDepth = 0 \/ ~MayFail => Purged
=============================================================================
