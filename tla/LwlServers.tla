----------------------------- MODULE LwlServers -----------------------------
(***************************************************************************)
(* The Look Who's Listening servers, sflwld (src/lwld.c), built with       *)
(* THREADS, and the speakers that publish themselves on them               *)
(* (sendLwlMessage in src/speaker.c).                                      *)
(*                                                                         *)
(* A speaker announces itself (an RTCP SDES) to the servers of its list    *)
(* when it starts and every LWL_RETRANSMIT after that, and takes its leave *)
(* (a BYE) when it exits; each message has a TCP connection of its own.  A *)
(* server keeps a chain of entries, passes what it hears from a speaker,   *)
(* but not what another server passed on, to the servers of its forward    *)
(* list through one queue and one thread each, and forgets silent entries. *)
(* Everything it knows is lost when it stops.                              *)
(*                                                                         *)
(* Every accepted connection has its own thread: connections are served in *)
(* any order, within one instant of the clock, and servicePacket() is one  *)
(* step (LwlThreads takes it apart).  Timers are on time: the clock waits  *)
(* for what is due.  The name is the canonical name without the asterisk   *)
(* that hides it; addresses, ports, the other items and the HTML pages     *)
(* (made as those of Reflect) are left out.                                *)
(***************************************************************************)
EXTENDS Integers, Sequences, FiniteSets, SequencesExt, Chains

CONSTANTS
    User, Server,
    Ssrc,            \* session source descriptors
    Draws,           \* user |-> those it may draw at random when it starts
    Tells,           \* user |-> SPEAKFREE_LWL_TELL, a sequence of servers
    Forwards,        \* server |-> the servers of its -f list
    Retransmit,      \* LWL_RETRANSMIT
    StrikeOut,       \* LWL_STRIKEOUT
    TimeoutTime, TockTock, ForwarderSleep, ForwarderMaxQ,
    MaxTime,         \* bound: the clock
    MaxStarts,       \* bound: starts of speakers
    MaxCrashes       \* bound: servers that stop

(* Two users never draw the same 32 bits, though one may draw them twice.  *)
(* A forwarder sleeps 30 s, a speaker refreshes every 300 s and a server   *)
(* forgets after 900 s.                                                    *)
ASSUME LwlAssumption ==
    /\ Draws \in [User -> (SUBSET Ssrc) \ {{}}]
    /\ \A u, v \in User : u # v => Draws[u] \cap Draws[v] = {}
    /\ Tells \in [User -> Seq(Server)]
    /\ Forwards \in [Server -> SUBSET Server]
    /\ {Retransmit, StrikeOut, TockTock, ForwarderSleep} \subseteq Nat \ {0}
    /\ {TimeoutTime, ForwarderMaxQ, MaxTime, MaxStarts, MaxCrashes}
         \subseteq Nat
    /\ ForwarderSleep < Retransmit
    /\ Retransmit + ForwarderSleep <= TimeoutTime

VARIABLES
    now,
    user,       \* user |-> [up, ssrc, bye, due: lwltimer runs out, since]
    strikes,    \* user |-> server |-> lwl_strikes; at StrikeOut lwl_ports is -1
    srv,        \* server |-> [up, since, sweep: when timeout_thread wakes]
    conn,       \* server |-> the chain of entries
    queue,      \* server |-> server |-> messages to forward
    wake,       \* server |-> server |-> when that forwarder wakes at the latest
    dropped,    \* history: server |-> server |-> when a message did not fit its
                \* queue last
    net,        \* the connections not served yet
    starts, crashes     \* history: for the bounds

userVars == <<user, strikes, starts>>
serverVars == <<srv, conn, queue, wake, dropped, crashes>>
vars == <<now, userVars, serverVars, net>>

Kind == {"SDES", "BYE"}

(* hops is history: how often it was passed on.  The 0x40 bit of the       *)
(* packet is up just when hops > 0.                                        *)
Message == [kind: Kind, name: User, ssrc: Ssrc, hops: Nat]
Connection == [to: Server, msg: Message]
Entry == [name: User, ssrc: Ssrc, ltime: Nat]

Larger(a, b) == IF a > b THEN a ELSE b

-----------------------------------------------------------------------------
(* Speakers. *)

Told(u) == {s \in Range(Tells[u]) : strikes[u][s] < StrikeOut}

(* A server that is not there refuses the connection.  A refusal is a      *)
(* strike, StrikeOut of them in a row are the end; a delivered SDES clears *)
(* them, a BYE leaves them.                                                *)
Call(u, kind, x, hits) ==
    LET told == {s \in Range(Tells[u]) : hits[s] < StrikeOut}
    IN  /\ net' = net \cup
             {[to |-> s,
               msg |-> [kind |-> kind, name |-> u, ssrc |-> x,
                        hops |-> 0]] : s \in {t \in told : srv[t].up}}
        /\ strikes' = [strikes EXCEPT ![u] = [s \in Server |->
             CASE s \in told /\ ~srv[s].up -> hits[s] + 1
               [] s \in told /\ srv[s].up /\ kind = "SDES" -> 0
               [] OTHER -> hits[s]]]

Start(u) ==
    /\ ~user[u].up /\ starts < MaxStarts
    /\ starts' = starts + 1
    /\ \E x \in Draws[u] :
         /\ user' = [user EXCEPT ![u] = [up |-> TRUE, ssrc |-> x, bye |-> FALSE,
                       due |-> now + Retransmit, since |-> now]]
         /\ Call(u, "SDES", x, [s \in Server |-> 0])
    /\ UNCHANGED <<now, serverVars>>

Refresh(u) ==
    /\ user[u].up /\ user[u].due <= now
    /\ user' = [user EXCEPT ![u].due = now + Retransmit]
    /\ Call(u, "SDES", user[u].ssrc, strikes[u])
    /\ UNCHANGED <<now, starts, serverVars>>

Exit(u) ==
    /\ user[u].up
    /\ user' = [user EXCEPT ![u].up = FALSE, ![u].bye = TRUE, ![u].since = now]
    /\ Call(u, "BYE", user[u].ssrc, strikes[u])
    /\ UNCHANGED <<now, starts, serverVars>>

(* A machine that is switched off, or a process that is killed. *)
Vanish(u) ==
    /\ user[u].up
    /\ user' = [user EXCEPT ![u] = [up |-> FALSE, ssrc |-> @.ssrc,
                  bye |-> FALSE, due |-> 0, since |-> 0]]
    /\ UNCHANGED <<now, strikes, starts, net, serverVars>>

-----------------------------------------------------------------------------
(* A service thread. *)

IsForwarded(m) == m.hops > 0

(* An announcement replaces the entry of its name where it stands, or goes *)
(* to the head of the chain; a farewell takes out the first entry with its *)
(* session source.                                                         *)
AnnouncedBySource(chain, m) ==    \* mutant: identity by SSRC, as for BYE
    LET e == [name |-> m.name, ssrc |-> m.ssrc, ltime |-> now]
        k == SelectInSeq(chain, LAMBDA o : o.ssrc = m.ssrc)
    IN  IF k = 0 THEN <<e>> \o chain ELSE ReplaceAt(chain, k, e)
Announced(chain, m) ==
    LET e == [name |-> m.name, ssrc |-> m.ssrc, ltime |-> now]
        k == SelectInSeq(chain, LAMBDA o : o.name = m.name)
    IN  IF k = 0 THEN <<e>> \o chain ELSE ReplaceAt(chain, k, e)

DismissedButHead(chain, m) ==    \* mutant: conn itself is not changed
    LET k == SelectInSeq(chain, LAMBDA o : o.ssrc = m.ssrc)
    IN  IF k <= 1 THEN chain ELSE RemoveAt(chain, k)
Dismissed(chain, m) ==
    LET k == SelectInSeq(chain, LAMBDA o : o.ssrc = m.ssrc)
    IN  IF k = 0 THEN chain ELSE RemoveAt(chain, k)

(* forwardLwlMessage(): the test comes before the queue is locked. *)
QueuedAlways(q, m) == Append(q, m)    \* mutant
Queued(q, m) == IF Len(q) > ForwarderMaxQ THEN q ELSE Append(q, m)

Relay(s, to, m) ==
    /\ queue' = [queue EXCEPT ![s] =
         [t \in Server |-> IF t \in to THEN Queued(@[t], m) ELSE @[t]]]
    /\ wake' = [wake EXCEPT ![s] =
         [t \in Server |-> IF t \in to /\ queue[s][t] = <<>>
                           THEN now + ForwarderSleep ELSE @[t]]]
    /\ dropped' = [dropped EXCEPT ![s] =
         [t \in Server |-> IF t \in to /\ Queued(queue[s][t], m) = queue[s][t]
                           THEN now ELSE @[t]]]

Handle(s, m, to) ==
    /\ conn' = [conn EXCEPT ![s] = IF m.kind = "SDES" THEN Announced(@, m)
                                                     ELSE Dismissed(@, m)]
    /\ Relay(s, to, m)
    /\ UNCHANGED <<now, userVars, srv, crashes>>

ServeAll(c) ==    \* mutant: what was forwarded is forwarded again
    /\ c \in net /\ net' = net \ {c}
    /\ Handle(c.to, c.msg, Forwards[c.to])
Serve(c) ==
    /\ c \in net /\ net' = net \ {c}
    /\ Handle(c.to, c.msg, IF IsForwarded(c.msg) THEN {} ELSE Forwards[c.to])

-----------------------------------------------------------------------------
(* The other threads of a server. *)

(* forwarder_thread(): while its queue is not empty and the other server   *)
(* answers, the head is passed on; otherwise it sleeps for ForwarderSleep  *)
(* and tries again.  When its sleep began is left open.                    *)
Pass(s, t) ==
    /\ srv[s].up /\ srv[t].up /\ queue[s][t] # <<>>
    /\ net' = net \cup {[to |-> t,
                         msg |-> [Head(queue[s][t]) EXCEPT !.hops = @ + 1]]}
    /\ queue' = [queue EXCEPT ![s][t] = Tail(@)]
    /\ wake' = [wake EXCEPT ![s][t] = IF Tail(queue[s][t]) = <<>> THEN 0 ELSE @]
    /\ UNCHANGED <<now, userVars, srv, conn, dropped, crashes>>

PassDue(s, t) ==
    /\ srv[t].up /\ queue[s][t] # <<>>
    /\ Larger(wake[s][t], srv[t].since + ForwarderSleep) <= now

(* release(), from timeout_thread(). *)
FreshRefresh(e) == now - e.ltime < TimeoutTime - TockTock    \* mutant
Fresh(e) == now - e.ltime <= TimeoutTime

Sweep(s) ==
    /\ srv[s].up /\ srv[s].sweep <= now
    /\ srv' = [srv EXCEPT ![s].sweep = now + TockTock]
    /\ conn' = [conn EXCEPT ![s] = Kept(@, {e \in Range(@) : Fresh(e)})]
    /\ UNCHANGED <<now, userVars, queue, wake, dropped, crashes, net>>

Names(chain) == {e.name : e \in Range(chain)}

(* The memory of the process is lost, and the connections nobody served.   *)
Crash(s) ==
    /\ srv[s].up /\ crashes < MaxCrashes
    /\ crashes' = crashes + 1
    /\ srv' = [srv EXCEPT ![s] = [up |-> FALSE, since |-> 0, sweep |-> 0]]
    /\ wake' = [wake EXCEPT ![s] = [t \in Server |-> 0]]
    /\ conn' = [conn EXCEPT ![s] = <<>>]
    /\ queue' = [queue EXCEPT ![s] = [t \in Server |-> <<>>]]
    /\ dropped' = [dropped EXCEPT ![s] = [t \in Server |-> 0]]
    /\ net' = {c \in net : c.to # s}
    /\ UNCHANGED <<now, userVars>>

Restart(s) ==
    /\ ~srv[s].up
    /\ srv' = [srv EXCEPT ![s] = [up |-> TRUE, since |-> now,
                                  sweep |-> now + TockTock]]
    /\ UNCHANGED <<now, userVars, conn, queue, wake, dropped, crashes, net>>

Awake(s) == srv[s].sweep <= now \/ \E t \in Forwards[s] : PassDue(s, t)

Tick ==
    /\ now < MaxTime
    /\ \A u \in User : user[u].up => now < user[u].due
    /\ \A s \in Server : srv[s].up => ~Awake(s)
    /\ net = {}
    /\ now' = now + 1
    /\ UNCHANGED <<userVars, serverVars, net>>

Init ==
    /\ now = 0
    /\ user \in [User -> {[up |-> FALSE, ssrc |-> x, bye |-> FALSE, due |-> 0,
                           since |-> 0] : x \in UNION Range(Draws)}]
    /\ \A u \in User : user[u].ssrc = CHOOSE x \in Draws[u] : TRUE
    /\ strikes = [u \in User |-> [s \in Server |-> 0]]
    /\ srv = [s \in Server |-> [up |-> TRUE, since |-> 0, sweep |-> TockTock]]
    /\ conn = [s \in Server |-> <<>>]
    /\ queue = [s \in Server |-> [t \in Server |-> <<>>]]
    /\ wake = [s \in Server |-> [t \in Server |-> 0]]
    /\ dropped = [s \in Server |-> [t \in Server |-> 0]]
    /\ net = {} /\ starts = 0 /\ crashes = 0

Speaker(u) == Start(u) \/ Refresh(u) \/ Exit(u) \/ Vanish(u)

Sflwld(s) == \/ Sweep(s) \/ Crash(s) \/ Restart(s)
             \/ \E t \in Forwards[s] : Pass(s, t)

Next == \/ \E u \in User : Speaker(u)
        \/ \E s \in Server : Sflwld(s)
        \/ \E c \in net : Serve(c)
        \/ Tick

Spec == Init /\ [][Next]_vars

-----------------------------------------------------------------------------
(* Every variable has its type. *)
TypeOK ==
    /\ now \in Nat
    /\ user \in [User -> [up: BOOLEAN, ssrc: Ssrc, bye: BOOLEAN, due: Nat,
                          since: Nat]]
    /\ strikes \in [User -> [Server -> 0..StrikeOut]]
    /\ srv \in [Server -> [up: BOOLEAN, since: Nat, sweep: Nat]]
    /\ conn \in [Server -> Seq(Entry)]
    /\ queue \in [Server -> [Server -> Seq(Message)]]
    /\ wake \in [Server -> [Server -> Nat]]
    /\ dropped \in [Server -> [Server -> Nat]]
    /\ net \subseteq Connection
    /\ starts \in Nat /\ crashes \in Nat

(* Each server is a directory of the names it has heard. *)
D == INSTANCE Directory WITH Name <- User, Source <- Ssrc,
       Patience <- TimeoutTime, listing <- [s \in Server |-> Range(conn[s])]
IsDirectory == D!Spec

(* "Packets forwarded from other hosts are never, themselves, forwarded"   *)
(* (log.doc:1547): with mutual forwarding no message travels in a loop.    *)
NoLoop == \A c \in net : c.msg.hops <= 1

(* From when on a speaker's announcements reach a server that it tells,    *)
(* behind the last late BYE of a former session; and one to which that     *)
(* forwards, behind the last that did not fit the queue.                   *)
BothUp(u, s) == Larger(user[u].since, srv[s].since)
Reached(u, s) ==
    IF \E o \in Range(Tells[u]) : s \in Forwards[o]
    THEN BothUp(u, s) + ForwarderSleep ELSE BothUp(u, s)
ReachedBehind(u, s, t) ==
    Larger(Larger(BothUp(u, s), srv[t].since) + ForwarderSleep, dropped[s][t])

(* A speaker that runs is listed by a server it tells, from the first      *)
(* refresh after both are up, whatever older messages of its own, restarts *)
(* with a new or the old SSRC, or BYEs arrive late; and by the servers     *)
(* that one forwards to, when they have been up long enough and no message *)
(* for them had to be discarded.                                           *)
KeptListed ==
    \A u \in User, s \in Server :
      user[u].up /\ srv[s].up /\ s \in Told(u) =>
        /\ now > Reached(u, s) + Retransmit => u \in Names(conn[s])
        /\ \A t \in Forwards[s] :
             /\ srv[t].up
             /\ now > ReachedBehind(u, s, t) + Retransmit + ForwarderSleep
             => u \in Names(conn[t])

(* A speaker that said BYE, and had not announced itself just before, has  *)
(* no entry of that session with a server it told (an older announcement   *)
(* of a former session may outlive it until it times out).                 *)
ByeHeard ==
    \A u \in User, s \in Server :
      /\ ~user[u].up /\ user[u].bye /\ s \in Told(u)
      /\ ~\E o \in Range(Tells[u]) : s \in Forwards[o]
      /\ srv[s].since < user[u].since
      /\ user[u].due - Retransmit < user[u].since
      /\ now > user[u].since
      => ~\E e \in Range(conn[s]) : e.name = u /\ e.ssrc = user[u].ssrc

(* Who went away "without having the courtesy to say good-bye" (lwld.c:    *)
(* 776) is dropped: no entry is older than the time-out and one sweep; and *)
(* every variable has its type.                                            *)
StaleGone ==
    /\ TypeOK
    /\ \A s \in Server : \A e \in Range(conn[s]) :
         now <= e.ltime + TimeoutTime + TockTock

(* Who is gone is not listed for long, whether it said so or not.          *)
GoneUnlisted == ByeHeard /\ StaleGone

(* A queue that holds ForwarderMaxQ messages takes one more (the test of   *)
(* forwardLwlMessage() is >), whatever the other server does.              *)
QueueBounded ==
    \A s, t \in Server : Len(queue[s][t]) <= ForwarderMaxQ + 1
=============================================================================
