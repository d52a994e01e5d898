------------------------------ MODULE Reflect ------------------------------
(***************************************************************************)
(* The conference reflector, sfreflect (src/reflect.c).  A main loop       *)
(* receives datagrams from the members of a conference and sends each      *)
(* sound datagram on to all the other members; the SIGALRM handler         *)
(* release() forgets the members that left or fell silent, refreshes the   *)
(* Look Who's Listening entry, sends every member a heartbeat and keeps    *)
(* the HTML page of members up to date.                                    *)
(*                                                                         *)
(* The chain of connections is shared.  The flag crit keeps release() away *)
(* from it only while the main loop looks the sender up and digests a      *)
(* control message; the main loop reads its head before and walks it after *)
(* that.  Connections are therefore modelled as heap cells: a pointer to a *)
(* cell that release() has freed is a dangling one, and a step that        *)
(* follows it leaves the program in the state "undefined", where the model *)
(* stops.                                                                  *)
(*                                                                         *)
(* The handler is one step, since nothing interrupts it; a release() that  *)
(* the main loop calls is walked cell by cell, since SIGALRM does.  Sound, *)
(* ports, host names and the words of a chat are left out, and so is the   *)
(* monitor host, which has no effect on the state.                         *)
(***************************************************************************)
EXTENDS Integers, Sequences, FiniteSets, SequencesExt, Chains

CONSTANTS
    Host,           \* Internet addresses
    Local,          \* those that are this machine: loopback, local_site
    Datagram,       \* what hosts send: [kind, proto], see Form
    TickTock,       \* timer period while some host is active
    TockTock,       \* timer period while no host is; also the clash delay
    HostTimeout,    \* hosttimeout
    LwlRetransmit,  \* LWL_RETRANSMIT
    HtmlTime,       \* htmlTime: least time between two pages
    Publish,        \* SPEAKFREE_LWL_TELL names a server (sdes # NULL)
    MayFail,        \* malloc() and socket() may fail
    Prompt,         \* the process never lags the clock
    MaxPackets,     \* bound: datagrams received
    MaxTime         \* bound: the clock

Protocol == {"SPEAKFREE", "VAT", "RTP", "CRYPT", "UNKNOWN"}

(* Data: sound, anything else Speak Freely sends on the data port (faces,  *)
(* keys), tagged as its own, or untagged.  Control: an identification      *)
(* (VAT ID or IDLIST, SDES), a BYE or DONE, a text chat, and what is none  *)
(* of these.                                                               *)
Data == {"sound", "special", "untagged"}
Control == {"id", "bye", "chat", "bad"}
Form == [kind: Data, proto: {"SPEAKFREE"}]
        \cup [kind: Control, proto: {"SPEAKFREE", "RTP", "VAT"}]

ASSUME ReflectAssumption ==
    /\ Local \subseteq Host
    /\ Datagram \subseteq Form
    /\ TickTock \in Nat \ {0} /\ TockTock \in Nat \ {0}
    /\ HostTimeout \in Nat /\ LwlRetransmit \in Nat /\ HtmlTime \in Nat
    /\ {Publish, MayFail, Prompt} \subseteq BOOLEAN
    /\ MaxPackets \in Nat /\ MaxTime \in Nat

VARIABLES
    now,         \* time(), in seconds since the server started
    alarm,       \* when alarm() expires
    crit,        \* queue critical section lock
    clash,       \* critical section clash retry flag
    con,         \* the allocated connections: cell |-> Connection
    conn,        \* the chain: a sequence of cells
    actives,     \* hosts found active by the last release()
    pc,          \* where the main loop is
    pkt,         \* its datagram (from, form, pkrtime)
    rc,          \* its pointer into the chain
    c,           \* its pointer to the sender's connection
    rchat,       \* whether it holds a chat to forward
    rel,         \* the release() it called, if any
    sdes, lwltimer,
    htmlChange, htmlLast,
    page,        \* the members the HTML page lists
    received,    \* history: datagrams received so far; numbers the cells
    out,         \* history: hosts the present datagram was sent on to
    gone,        \* history: hosts that left and have not come back
    published    \* history: when the LWL server last heard from us

lwlVars == <<sdes, lwltimer, published>>
htmlVars == <<htmlChange, htmlLast, page>>
mainVars == <<pkt, rc, c, rchat, received, out, gone>>
vars == <<now, alarm, crit, clash, con, conn, actives, pc, rel, mainVars,
          lwlVars, htmlVars>>

Nil == 0
Cell == 1..MaxPackets
Connection == [host: Host, timeout: Nat \cup {-1}, bye: BOOLEAN, protocol: Protocol,
               named: BOOLEAN]
Outside == [at |-> "out", ptr |-> Nil, prev |-> Nil, td |-> 0]

First(chain) == IF chain = <<>> THEN Nil ELSE chain[1]
NextCell(i) == LET k == CHOOSE k \in DOMAIN conn : conn[k] = i
               IN  IF k = Len(conn) THEN Nil ELSE conn[k + 1]

(* A NULL pointer is tested for everywhere; one to a freed cell nowhere.   *)
Dangling(i) == i # Nil /\ i \notin DOMAIN con
Undefined == /\ pc' = "undefined"
             /\ UNCHANGED <<now, alarm, crit, clash, con, conn, actives, rel,
                            mainVars, lwlVars, htmlVars>>

(* The page lists every connection that has not said BYE. *)
Listing(cells) == {[host |-> cells[i].host, named |-> cells[i].named] :
                     i \in {j \in DOMAIN cells : ~cells[j].bye}}

(* updHTML(): rewrite the page if something changed and the last one is    *)
(* old enough.                                                             *)
UpdHTML(change, cells) ==
    IF change /\ (HtmlTime <= 0 \/ now - htmlLast > HtmlTime)
    THEN htmlLast' = now /\ htmlChange' = FALSE /\ page' = Listing(cells)
    ELSE htmlChange' = change /\ UNCHANGED <<htmlLast, page>>

(* The refresh of the LWL entry in release(); a socket() that fails ends   *)
(* publishing for good.                                                    *)
UpdLWL(td) ==
    IF sdes /\ td >= lwltimer
    THEN /\ lwltimer' = td + LwlRetransmit
         /\ \/ published' = now /\ UNCHANGED sdes
            \/ MayFail /\ sdes' = FALSE /\ UNCHANGED published
    ELSE UNCHANGED lwlVars

Step(n) == IF n > 0 THEN TickTock ELSE TockTock

StillActive(i, td) == ~con[i].bye /\ td < con[i].timeout + HostTimeout

Init ==
    /\ now = 0 /\ alarm = TockTock
    /\ crit = FALSE /\ clash = FALSE
    /\ con = [i \in {} |-> 0] /\ conn = <<>> /\ actives = 0
    /\ pc = "top"
    /\ \E h \in Host, form \in Datagram :
         pkt = [from |-> h, form |-> form, time |-> 0]
    /\ rc = Nil /\ c = Nil /\ rchat = FALSE
    /\ rel = Outside
    /\ sdes = Publish /\ lwltimer = LwlRetransmit /\ published = 0
    /\ htmlChange = TRUE /\ htmlLast = -(HtmlTime + 1) /\ page = {}
    /\ received = 0 /\ out = <<>> /\ gone = {}

-----------------------------------------------------------------------------
(* The main loop. *)

(* The head of the chain is read here, before the wait. *)
Top ==
    /\ pc = "top"
    /\ rc' = First(conn) /\ rchat' = FALSE /\ c' = Nil
    /\ out' = <<>>
    /\ pc' = "select"
    /\ UNCHANGED <<now, alarm, crit, clash, con, conn, actives, rel, pkt,
                   received, gone, lwlVars, htmlVars>>

Receive(h, form) ==
    /\ pc = "select"
    /\ received < MaxPackets
    /\ received' = received + 1
    /\ pkt' = [from |-> h, form |-> form, time |-> now]
    /\ pc' = "received"
    /\ UNCHANGED <<now, alarm, crit, clash, con, conn, actives, rel, rc, c,
                   rchat, out, gone, lwlVars, htmlVars>>

EnterCritical ==
    /\ pc = "received"
    /\ crit' = TRUE
    /\ pc' = "connect"
    /\ UNCHANGED <<now, alarm, clash, con, conn, actives, rel, mainVars,
                   lwlVars, htmlVars>>

Known == {i \in DOMAIN con : con[i].host = pkt.from}

(* Find or make the sender's connection.  A new host, or one that said     *)
(* BYE, restarts the fast timer if none was active.                        *)
Connect ==
    /\ pc = "connect"
    /\ \/ \E i \in IF Known = {} THEN {received} ELSE Known :
            LET old == IF Known = {}
                       THEN [host |-> pkt.from, timeout |-> -1, bye |-> FALSE,
                             protocol |-> "SPEAKFREE", named |-> FALSE]
                       ELSE con[i]
                newconn == old.timeout = -1
                this == [old EXCEPT !.timeout = pkt.time, !.bye = FALSE]
            IN  /\ c' = i
                /\ con' = [j \in DOMAIN con \cup {i} |->
                             IF j = i THEN this ELSE con[j]]
                /\ conn' = IF Known = {} THEN <<i>> \o conn ELSE conn
                /\ alarm' = IF newconn /\ actives = 0 THEN now + TickTock
                                                     ELSE alarm
                /\ IF newconn \/ old.bye THEN UpdHTML(TRUE, con')
                                         ELSE UNCHANGED htmlVars
                /\ gone' = gone \ {pkt.from}
                /\ pc' = IF pkt.form.kind \in Control THEN "control"
                                                      ELSE "leave"
       \/ /\ MayFail /\ Known = {}
          /\ pc' = "leave"
          /\ UNCHANGED <<alarm, con, conn, c, gone, htmlVars>>
    /\ UNCHANGED <<now, crit, clash, actives, rel, pkt, rc, rchat, received,
                   out, lwlVars>>

(* What a control message does to its sender's connection.  A DONE counts  *)
(* only from a host known to speak VAT.  A leaving host's timeout is       *)
(* marked -1.  Whatever is not recognised may be encrypted.                *)
IsBye == /\ pkt.form.kind = "bye"
         /\ pkt.form.proto = "VAT" => con[c].protocol = "VAT"
IsChat == pkt.form.kind = "chat" /\ pkt.form.proto # "VAT"

(* The sender's connection after a control datagram.                       *)
DigestedAs(timeout) ==
    CASE IsBye -> [con[c] EXCEPT !.protocol = "UNKNOWN", !.timeout = timeout,
                                 !.bye = TRUE, !.named = FALSE]
      [] pkt.form.kind = "id" -> [con[c] EXCEPT !.protocol = pkt.form.proto,
                                                !.named = TRUE]
      [] IsChat -> [con[c] EXCEPT !.protocol = pkt.form.proto]
      [] OTHER -> [con[c] EXCEPT !.protocol = "CRYPT"]
Digested == DigestedAs(-1)

DigestQuietly ==    \* mutant: a BYE is not a change
    /\ pc = "control"
    /\ con' = [con EXCEPT ![c] = Digested]
    /\ gone' = IF IsBye THEN gone \cup {pkt.from} ELSE gone
    /\ rchat' = IsChat
    /\ pc' = "leave"
    /\ UNCHANGED <<now, alarm, crit, clash, conn, actives, rel, pkt, rc, c,
                   received, out, lwlVars, htmlVars>>

DigestControl ==
    /\ pc = "control"
    /\ con' = [con EXCEPT ![c] = Digested]
    /\ IF IsBye \/ con'[c].named # con[c].named
       THEN UpdHTML(TRUE, con')
       ELSE UNCHANGED htmlVars
    /\ gone' = IF IsBye THEN gone \cup {pkt.from} ELSE gone
    /\ \/ rchat' = IsChat
       \/ MayFail /\ IsChat /\ rchat' = FALSE
    /\ pc' = "leave"
    /\ UNCHANGED <<now, alarm, crit, clash, conn, actives, rel, pkt, rc, c,
                   received, out, lwlVars>>

(* Data goes straight on; a control message, or one that found no memory,  *)
(* looks at clash first.                                                   *)
LeaveCritical ==
    /\ pc = "leave"
    /\ crit' = FALSE
    /\ pc' = IF c # Nil /\ pkt.form.kind \in Data THEN "filter" ELSE "retry"
    /\ UNCHANGED <<now, alarm, clash, con, conn, actives, rel, mainVars,
                   lwlVars, htmlVars>>

(* Only chats are forwarded of what comes on the control port. *)
Resume == IF rchat THEN "filter" ELSE "top"

(* if (clash) release();  the flag is never lowered. *)
Retry ==
    /\ pc = "retry"
    /\ IF clash
       THEN /\ rel' = [at |-> "sweep", ptr |-> First(conn), prev |-> Nil,
                       td |-> now]
            /\ actives' = 0
            /\ pc' = "release"
       ELSE /\ pc' = Resume
            /\ UNCHANGED <<rel, actives>>
    /\ UNCHANGED <<now, alarm, crit, clash, con, conn, mainVars, lwlVars,
                   htmlVars>>

(* Fall back to Speak Freely protocol on a tagged datagram, and discard    *)
(* what is no sound; clash is not looked at then.                          *)
Tagged == rchat \/ pkt.form.kind # "untagged"

Filter ==
    /\ pc = "filter"
    /\ IF Dangling(c)
       THEN Undefined
       ELSE /\ con' = [con EXCEPT ![c].protocol =
                         IF Tagged /\ @ \in {"VAT", "CRYPT"} THEN "SPEAKFREE"
                                                             ELSE @]
            /\ \/ /\ con'[c].protocol = "SPEAKFREE" /\ ~rchat
                  /\ pkt.form.kind # "sound"
                  /\ pc' = "top"
               \/ /\ con'[c].protocol = "SPEAKFREE" /\ ~rchat
                     => pkt.form.kind # "special"
                  /\ pc' = "walk"
            /\ UNCHANGED <<now, alarm, crit, clash, conn, actives, rel,
                           mainVars, lwlVars, htmlVars>>

(* Mutants of Walk: the sender included; leavers. *)
WalkTo(wanted(_)) ==
    /\ pc = "walk"
    /\ ~Dangling(rc)
    /\ IF rc = Nil
       THEN pc' = "walked" /\ UNCHANGED <<rc, out>>
       ELSE /\ out' = IF wanted(rc) THEN Append(out, con[rc].host) ELSE out
            /\ rc' = NextCell(rc)
            /\ UNCHANGED pc
    /\ UNCHANGED <<now, alarm, crit, clash, con, conn, actives, rel,
                   pkt, c, rchat, received, gone, lwlVars, htmlVars>>
WalkSender == WalkTo(LAMBDA i : ~con[i].bye /\ con[i].host \notin Local)
WalkGone == WalkTo(LAMBDA i : i # c /\ con[i].host \notin Local)

(* The reflecting loop, one connection at a time, from the rc read at Top. *)
Walk ==
    /\ pc = "walk"
    /\ IF Dangling(rc)
       THEN Undefined
       ELSE /\ IF rc = Nil
               THEN pc' = "walked" /\ UNCHANGED <<rc, out>>
               ELSE /\ out' = IF rc # c /\ ~con[rc].bye
                                 /\ con[rc].host \notin Local
                              THEN Append(out, con[rc].host) ELSE out
                    /\ rc' = NextCell(rc)
                    /\ UNCHANGED pc
            /\ UNCHANGED <<now, alarm, crit, clash, con, conn, actives, rel,
                           pkt, c, rchat, received, gone, lwlVars, htmlVars>>

(* The copy for the monitor host and the bookkeeping on the sender. *)
Finish ==
    /\ pc = "walked"
    /\ IF Dangling(c)
       THEN Undefined
       ELSE /\ crit' = FALSE /\ rchat' = FALSE
            /\ pc' = "retry"
            /\ UNCHANGED <<now, alarm, clash, con, conn, actives, rel, pkt,
                           rc, c, received, out, gone, lwlVars, htmlVars>>

-----------------------------------------------------------------------------
(* The release() that the main loop calls. *)

Unlinked(i) == [j \in DOMAIN con \ {i} |-> con[j]]

(* One connection of the sweep: it stays or is unlinked and freed.         *)
Sweep ==
    /\ pc = "release" /\ rel.at = "sweep" /\ rel.ptr # Nil
    /\ IF \/ Dangling(rel.ptr)
          \/ ~StillActive(rel.ptr, rel.td) /\ Dangling(rel.prev)
       THEN Undefined
       ELSE /\ rel' = [rel EXCEPT !.ptr = NextCell(rel.ptr),
                                  !.prev = IF StillActive(rel.ptr, rel.td)
                                           THEN rel.ptr ELSE @]
            /\ IF StillActive(rel.ptr, rel.td)
               THEN /\ actives' = actives + 1
                    /\ UNCHANGED <<con, conn, htmlChange>>
               ELSE /\ con' = Unlinked(rel.ptr)
                    /\ conn' = Kept(conn, DOMAIN con \ {rel.ptr})
                    /\ htmlChange' = TRUE
                    /\ UNCHANGED actives
            /\ UNCHANGED <<now, alarm, crit, clash, pc, mainVars, lwlVars,
                           htmlLast, page>>

Swept ==
    /\ pc = "release" /\ rel.at = "sweep" /\ rel.ptr = Nil
    /\ UpdLWL(rel.td)
    /\ rel' = [rel EXCEPT !.at = "beat",
                          !.ptr = IF actives > 0 THEN First(conn) ELSE Nil]
    /\ UNCHANGED <<now, alarm, crit, clash, con, conn, actives, pc,
                   mainVars, htmlVars>>

Heartbeat ==
    /\ pc = "release" /\ rel.at = "beat" /\ rel.ptr # Nil
    /\ IF Dangling(rel.ptr)
       THEN Undefined
       ELSE /\ rel' = [rel EXCEPT !.ptr = NextCell(rel.ptr)]
            /\ UNCHANGED <<now, alarm, crit, clash, con, conn, actives, pc,
                           mainVars, lwlVars, htmlVars>>

Rearm ==
    /\ pc = "release" /\ rel.at = "beat" /\ rel.ptr = Nil
    /\ alarm' = now + Step(actives)
    /\ UpdHTML(htmlChange, con)
    /\ rel' = Outside
    /\ pc' = Resume
    /\ UNCHANGED <<now, crit, clash, con, conn, actives, mainVars, lwlVars>>

-----------------------------------------------------------------------------
(* SIGALRM.  In the critical section the handler only notes the clash,     *)
(* though it does rewrite the page.  A select() it interrupts fails and    *)
(* sends the main loop back to the top; if the main loop has not reached   *)
(* the system call yet, it goes on.                                        *)
Clash ==
    /\ clash' = TRUE
    /\ alarm' = now + TockTock
    /\ UpdHTML(htmlChange, con)
    /\ UNCHANGED <<con, conn, actives, lwlVars>>

(* Mutants of Release: the head is freed but stays the head; no page. *)
ReleaseKeepsHead ==
    LET still == {i \in DOMAIN con : StillActive(i, now)}
    IN  /\ con' = [i \in still |-> con[i]]
        /\ conn' = Kept(conn, still \cup {First(conn)})
        /\ actives' = Cardinality(still)
        /\ UpdLWL(now)
        /\ alarm' = now + Step(actives')
        /\ UpdHTML(htmlChange \/ still # DOMAIN con, con')
        /\ UNCHANGED clash
ReleaseNoPage ==
    LET still == {i \in DOMAIN con : StillActive(i, now)}
    IN  /\ con' = [i \in still |-> con[i]]
        /\ conn' = Kept(conn, still)
        /\ actives' = Cardinality(still)
        /\ UpdLWL(now)
        /\ alarm' = now + Step(actives')
        /\ htmlChange' = (htmlChange \/ still # DOMAIN con)
        /\ UNCHANGED <<clash, htmlLast, page>>

Release ==
    LET still == {i \in DOMAIN con : StillActive(i, now)}
    IN  /\ con' = [i \in still |-> con[i]]
        /\ conn' = Kept(conn, still)
        /\ actives' = Cardinality(still)
        /\ UpdLWL(now)
        /\ alarm' = now + Step(actives')
        /\ UpdHTML(htmlChange \/ still # DOMAIN con, con')
        /\ UNCHANGED clash

Sigalrm ==
    /\ pc # "undefined"
    /\ alarm <= now
    /\ IF crit THEN Clash ELSE Release
    /\ pc' \in IF pc = "select" THEN {"select", "top"} ELSE {pc}
    /\ UNCHANGED <<now, crit, rel, mainVars>>

Tick ==
    /\ now < MaxTime
    /\ pc # "undefined"
    /\ Prompt => pc = "select" /\ now < alarm
    /\ now' = now + 1
    /\ UNCHANGED <<alarm, crit, clash, con, conn, actives, pc, rel, mainVars,
                   lwlVars, htmlVars>>

MainLoop == \/ Top
            \/ \E h \in Host, form \in Datagram : Receive(h, form)
            \/ EnterCritical
            \/ Connect
            \/ DigestControl
            \/ LeaveCritical
            \/ Retry
            \/ Filter
            \/ Walk
            \/ Finish

MainRelease == Sweep \/ Swept \/ Heartbeat \/ Rearm

Next == MainLoop \/ MainRelease \/ Sigalrm \/ Tick

Spec == Init /\ [][Next]_vars

-----------------------------------------------------------------------------
(* Every variable has its type. *)
TypeOK ==
    /\ now \in Nat /\ alarm \in Nat
    /\ {crit, clash, rchat, sdes, htmlChange} \subseteq BOOLEAN
    /\ DOMAIN con \subseteq Cell
    /\ con \in [DOMAIN con -> Connection]
    /\ conn \in Seq(Cell)
    /\ actives \in Nat
    /\ pc \in {"top", "select", "received", "connect", "control", "leave",
               "retry", "release", "filter", "walk", "walked", "undefined"}
    /\ pkt \in [from: Host, form: Form, time: Nat]
    /\ rc \in Cell \cup {Nil} /\ c \in Cell \cup {Nil}
    /\ rel \in [at: {"out", "sweep", "beat"}, ptr: Cell \cup {Nil},
                prev: Cell \cup {Nil}, td: Nat]
    /\ lwltimer \in Nat /\ published \in Nat /\ htmlLast \in Int
    /\ page \subseteq [host: Host, named: BOOLEAN]
    /\ received \in 0..MaxPackets
    /\ out \in Seq(Host)
    /\ gone \subseteq Host

(* The chain holds exactly the allocated connections, each once, and no    *)
(* host has two: the sweeps of both release()s and the insertion at the    *)
(* head never lose, double or leak one.                                    *)
ChainIntact ==
    /\ TypeOK
    /\ IsInjective(conn)
    /\ Range(conn) = DOMAIN con
    /\ \A i, j \in DOMAIN con : con[i].host = con[j].host => i = j

(* What is reflected reaches every other member still connected, once, and *)
(* neither its sender nor this machine, whatever release() does meanwhile. *)
ReflectedToAll ==
    pc = "walked" =>
        /\ \A i \in DOMAIN con :
             i # c /\ ~con[i].bye /\ con[i].host \notin Local =>
                 con[i].host \in Range(out)
        /\ IsInjective(out)
        /\ Range(out) \cap (Local \cup {pkt.from}) = {}

(* "Packets are not to sent to hosts which have sent us a BYE packet and   *)
(* not affirmatively re-connected" (reflect.c:1338).                       *)
NothingToGone ==
    [][Len(out') > Len(out) => out'[Len(out')] \notin gone]_vars

(* When no change is pending the page lists just the present members: no   *)
(* path that adds, drops, names or silences one forgets to say so.         *)
PageCurrent == ~htmlChange => page = Listing(con)

(* The longest the timer is set for at once. *)
Longest == IF TickTock > TockTock THEN TickTock ELSE TockTock

(* For a prompt process: a pending change reaches the page in bounded time *)
(* though pages are rationed, whatever puts the timer off: a new host that *)
(* does so is a change itself, and so is written if it may be.  A release()*)
(* of the main loop notes changes before it comes to the page.             *)
PageFresh ==
    htmlChange /\ pc \notin {"release", "undefined"} =>
        now <= (IF htmlLast < 0 THEN 0 ELSE htmlLast) + HtmlTime + Longest

(* For a prompt process: while the reflector publishes itself, its entry   *)
(* is refreshed in a time bounded by the datagrams received: each can put  *)
(* the timer off once, as a new host when none is active or by a clash.    *)
ListingFresh ==
    sdes => now <= published + LwlRetransmit + Longest * (received + 1)

(* Neither the page nor the LWL entry is left to go stale, and a datagram  *)
(* of this machine's own is not reflected to it.                           *)
OnTime == PageFresh /\ ListingFresh /\ ReflectedToAll

(* The main loop follows no pointer to a freed connection: what the        *)
(* "connection list critical section lock" (reflect.c:974) is there for.   *)
(* Does not hold: see the README.                                          *)
NoDangling == pc # "undefined"

(* "If this is not a sound packet (show your face packet, PGP key, etc.)   *)
(* discard it" (reflect.c:1314).  Does not hold: see the README.            *)
SpecialsDiscarded == pc = "walk" /\ ~rchat => pkt.form.kind # "special"

(* "make sure the timer loop is running at the faster rate we used when    *)
(* one or more connections are active" (reflect.c:1017).  Does not hold.   *)
FastWhileActive ==
    pc = "select" /\ (\E i \in DOMAIN con : ~con[i].bye) =>
        alarm <= now + TickTock
=============================================================================
