--------------------------- MODULE ReflectProofs ---------------------------
(***************************************************************************)
(* Proofs about Reflect for any hosts, datagrams, times and bounds.  The   *)
(* first two parts need no chain: what they say of the connections holds   *)
(* of the allocated ones, wherever the pointers of the main loop lead.     *)
(***************************************************************************)
EXTENDS Reflect, ChainsProofs, FiniteSetTheorems

(* A host has one connection, a host that left has none that is alive, and *)
(* between the look-up of the sender and the end of the critical section   *)
(* its connection is not freed.                                            *)
MemberInv ==
    /\ con \in [DOMAIN con -> Connection]
    /\ pkt \in [from: Host, form: Form, time: Nat] /\ now \in Nat
    /\ out \in Seq(Host)
    /\ \A i, j \in DOMAIN con : con[i].host = con[j].host => i = j
    /\ pc \in {"connect", "control", "leave"} => crit
    /\ pc = "control" => c \in DOMAIN con /\ con[c].host = pkt.from
    /\ \A i \in DOMAIN con : con[i].host \in gone => con[i].bye

LEMMA MemberInit == Init => MemberInv
<1> SUFFICES ASSUME Init PROVE MemberInv
  OBVIOUS
<1>1. con \in [DOMAIN con -> Connection] /\ DOMAIN con = {}
  BY DEF Init
<1>2. pkt \in [from: Host, form: Form, time: Nat]
  BY ReflectAssumption DEF ReflectAssumption, Init
<1>3. now \in Nat /\ out \in Seq(Host) /\ pc = "top"
  BY DEF Init
<1>4. QED
  BY <1>1, <1>2, <1>3 DEF MemberInv

(* What a control datagram makes of its sender's connection.               *)
LEMMA DigestedIs ==
  ASSUME MemberInv, c \in DOMAIN con
  PROVE  /\ Digested \in Connection /\ Digested.host = con[c].host
         /\ con[c].bye => Digested.bye
         /\ IsBye => Digested.bye
         /\ ~IsBye => Digested.bye = con[c].bye
<1>1. con[c] \in Connection /\ pkt.form \in Form
  BY DEF MemberInv
<1>2. pkt.form.proto \in Protocol
  BY <1>1 DEF Form, Protocol
<1>3. CASE IsBye
  BY <1>1, <1>3 DEF Digested, DigestedAs, Connection, Protocol, IsBye, IsChat
<1>4. CASE ~IsBye /\ pkt.form.kind = "id"
  BY <1>1, <1>2, <1>4 DEF Digested, DigestedAs, Connection
<1>5. CASE ~IsBye /\ pkt.form.kind # "id" /\ IsChat
  BY <1>1, <1>2, <1>5 DEF Digested, DigestedAs, Connection
<1>6. CASE ~IsBye /\ pkt.form.kind # "id" /\ ~IsChat
  BY <1>1, <1>6 DEF Digested, DigestedAs, Connection, Protocol
<1>7. QED
  BY <1>3, <1>4, <1>5, <1>6

(* The connections that remain are as they were. *)
LEMMA MemberFewer ==
  ASSUME MemberInv, NEW S, S \subseteq DOMAIN con, con' = [i \in S |-> con[i]],
         UNCHANGED <<pkt, now, out, gone, crit, c>>,
         pc' # "control", pc' \in {"connect", "leave"} => crit
  PROVE  MemberInv'
<1>1. DOMAIN con' = S /\ \A i \in S : con'[i] = con[i]
  OBVIOUS
<1>2. con' \in [DOMAIN con' -> Connection]
  BY <1>1 DEF MemberInv
<1>3. QED
  BY <1>1, <1>2 DEF MemberInv

LEMMA MemberStep == MemberInv /\ [Next]_vars => MemberInv'
<1> SUFFICES ASSUME MemberInv, [Next]_vars PROVE MemberInv'
  OBVIOUS
<1>1. CASE Top
  BY <1>1 DEF Top, MemberInv
<1>2. ASSUME NEW h \in Host, NEW form \in Datagram, Receive(h, form) PROVE MemberInv'
  BY <1>2, ReflectAssumption DEF ReflectAssumption, Receive, MemberInv
<1>3. CASE EnterCritical
  BY <1>3 DEF EnterCritical, mainVars, MemberInv
<1>4. CASE Connect
  <2>0. UNCHANGED <<pkt, now, out, crit>> /\ crit
    BY <1>4 DEF Connect, MemberInv
  <2>1. CASE UNCHANGED <<con, gone>> /\ pc' = "leave"
    BY <2>0, <2>1 DEF MemberInv
  <2>2. ASSUME NEW i, NEW this \in Connection,
               Known = {} \/ i \in Known,
               con' = [j \in DOMAIN con \cup {i} |-> IF j = i THEN this ELSE con[j]],
               c' = i, this.host = pkt.from, gone' = gone \ {pkt.from},
               pc' \in {"control", "leave"}
        PROVE  MemberInv'
    <3>1. DOMAIN con' = DOMAIN con \cup {i}
          /\ \A j \in DOMAIN con' : con'[j] = IF j = i THEN this ELSE con[j]
      BY <2>2
    <3>2. con' \in [DOMAIN con' -> Connection]
      BY <2>2, <3>1 DEF MemberInv
    <3>3. \A j \in DOMAIN con : j # i => con[j].host # pkt.from
      BY <2>2 DEF Known, MemberInv
    <3>4. \A j, k \in DOMAIN con' : con'[j].host = con'[k].host => j = k
      BY <2>2, <3>1, <3>3 DEF MemberInv
    <3>5. \A j \in DOMAIN con' : con'[j].host \in gone' => con'[j].bye
      BY <2>2, <3>1, <3>3 DEF MemberInv
    <3>6. QED
      BY <2>0, <2>2, <3>1, <3>2, <3>4, <3>5 DEF MemberInv
  <2>3. ASSUME NEW old \in Connection, old.host = pkt.from
        PROVE  /\ [old EXCEPT !.timeout = pkt.time, !.bye = FALSE] \in Connection
               /\ [old EXCEPT !.timeout = pkt.time, !.bye = FALSE].host = pkt.from
    BY <2>3 DEF MemberInv, Connection
  <2>4. /\ [host |-> pkt.from, timeout |-> -1, bye |-> FALSE,
            protocol |-> "SPEAKFREE", named |-> FALSE] \in Connection
        /\ \A i \in Known : con[i] \in Connection /\ con[i].host = pkt.from
    BY DEF Known, MemberInv, Connection, Protocol
  <2>5. ASSUME NEW i \in IF Known = {} THEN {received} ELSE Known,
               c' = i,
               con' = [j \in DOMAIN con \cup {i} |-> IF j = i
                         THEN [(IF Known = {}
                                THEN [host |-> pkt.from, timeout |-> -1, bye |-> FALSE,
                                      protocol |-> "SPEAKFREE", named |-> FALSE]
                                ELSE con[i]) EXCEPT !.timeout = pkt.time, !.bye = FALSE]
                         ELSE con[j]],
               gone' = gone \ {pkt.from}, pc' \in {"control", "leave"}
        PROVE  MemberInv'
    <3> DEFINE old == IF Known = {}
                      THEN [host |-> pkt.from, timeout |-> -1, bye |-> FALSE,
                            protocol |-> "SPEAKFREE", named |-> FALSE]
                      ELSE con[i]
               this == [old EXCEPT !.timeout = pkt.time, !.bye = FALSE]
    <3>1. old \in Connection /\ old.host = pkt.from /\ (Known = {} \/ i \in Known)
      BY <2>4, <2>5
    <3>2. con' = [j \in DOMAIN con \cup {i} |-> IF j = i THEN this ELSE con[j]]
      BY <2>5
    <3> HIDE DEF old
    <3>3. this \in Connection /\ this.host = pkt.from
      BY <2>3, <3>1
    <3> HIDE DEF this
    <3>4. QED
      BY <2>2, <2>5, <3>1, <3>2, <3>3
  <2>6. QED
    BY <1>4, <2>1, <2>5, Zenon DEF Connect
<1>5. CASE DigestControl
  <2>1. /\ c \in DOMAIN con /\ con[c].host = pkt.from
        /\ con' = [con EXCEPT ![c] = Digested]
        /\ gone' = IF IsBye THEN gone \cup {pkt.from} ELSE gone
        /\ pc' = "leave" /\ crit /\ UNCHANGED <<pkt, now, out, crit>>
    BY <1>5 DEF DigestControl, MemberInv
  <2>2. DOMAIN con' = DOMAIN con
        /\ \A i \in DOMAIN con : con'[i] = IF i = c THEN Digested ELSE con[i]
    BY <2>1
  <2>3. con' \in [DOMAIN con' -> Connection]
    BY <2>1, <2>2, DigestedIs DEF MemberInv
  <2>4. \A i \in DOMAIN con : con'[i].host = con[i].host
    BY <2>1, <2>2, DigestedIs
  <2>5. \A i \in DOMAIN con' : con'[i].host \in gone' => con'[i].bye
    BY <2>1, <2>2, <2>4, DigestedIs DEF MemberInv
  <2>6. QED
    BY <2>1, <2>2, <2>3, <2>4, <2>5 DEF MemberInv
<1>6. CASE LeaveCritical \/ Retry
  BY <1>6 DEF LeaveCritical, Retry, Resume, mainVars, MemberInv
<1>7. CASE Filter
  <2>1. CASE Undefined
    BY <2>1 DEF Undefined, mainVars, MemberInv
  <2>2. ASSUME NEW p \in Protocol, con' = [con EXCEPT ![c].protocol = p],
               pc' \in {"top", "walk"}, UNCHANGED <<pkt, now, out, gone, crit, c>>
        PROVE  MemberInv'
    <3>1. DOMAIN con' = DOMAIN con
          /\ \A i \in DOMAIN con : /\ con'[i] \in Connection
                                   /\ con'[i].host = con[i].host
                                   /\ con'[i].bye = con[i].bye
      BY <2>2 DEF MemberInv, Connection
    <3>2. con' \in [DOMAIN con' -> Connection]
      BY <2>2, <3>1
    <3>3. QED
      BY <2>2, <3>1, <3>2 DEF MemberInv
  <2>3. ASSUME ~Dangling(c) PROVE MemberInv'
    <3>1. CASE c \in DOMAIN con
      <4>1. con[c].protocol \in Protocol /\ "SPEAKFREE" \in Protocol
        BY <3>1 DEF MemberInv, Connection, Protocol
      <4>2. QED
        BY <1>7, <2>2, <2>3, <4>1 DEF Filter, mainVars
    <3>2. CASE c \notin DOMAIN con
      <4>1. con' = con
        BY <1>7, <2>3, <3>2 DEF Filter, MemberInv
      <4>2. QED
        BY <1>7, <2>3, <4>1 DEF Filter, mainVars, MemberInv
    <3>3. QED
      BY <3>1, <3>2
  <2>4. QED
    BY <1>7, <2>1, <2>3 DEF Filter
<1>8. CASE Walk
  <2>1. CASE Undefined
    BY <2>1 DEF Undefined, mainVars, MemberInv
  <2>2. CASE ~Dangling(rc) /\ rc = Nil
    BY <1>8, <2>2 DEF Walk, MemberInv
  <2>3. CASE ~Dangling(rc) /\ rc # Nil
    <3>1. con[rc].host \in Host
      BY <2>3 DEF Dangling, MemberInv, Connection
    <3>2. out' \in {out, Append(out, con[rc].host)}
          /\ UNCHANGED <<pc, now, crit, con, pkt, c, gone>>
      BY <1>8, <2>3 DEF Walk
    <3>3. out' \in Seq(Host)
      BY <3>1, <3>2 DEF MemberInv
    <3>4. QED
      BY <3>2, <3>3 DEF MemberInv
  <2>4. QED
    BY <1>8, <2>1, <2>2, <2>3 DEF Walk
<1>9. CASE Finish
  BY <1>9 DEF Finish, Undefined, mainVars, MemberInv
<1>10. CASE Sweep
  <2>1. CASE Undefined
    BY <2>1 DEF Undefined, mainVars, MemberInv
  <2>2. CASE UNCHANGED <<con, crit, now, pc, mainVars>>
    BY <2>2 DEF mainVars, MemberInv
  <2>3. CASE con' = Unlinked(rel.ptr) /\ UNCHANGED <<crit, now, pc, mainVars>>
    BY <1>10, <2>3, MemberFewer DEF Sweep, Unlinked, mainVars
  <2>4. QED
    BY <1>10, <2>1, <2>2, <2>3 DEF Sweep
<1>11. CASE Swept \/ Heartbeat
  BY <1>11 DEF Swept, Heartbeat, Undefined, mainVars, MemberInv
<1>12. CASE Rearm
  BY <1>12 DEF Rearm, Resume, mainVars, MemberInv
<1>13. CASE Sigalrm
  <2>1. pc' \in {pc, "top"} /\ UNCHANGED <<now, crit, mainVars>>
    BY <1>13 DEF Sigalrm
  <2>2. CASE crit
    BY <1>13, <2>1, <2>2 DEF Sigalrm, Clash, mainVars, MemberInv
  <2>3. CASE ~crit
    <3>1. pc \notin {"connect", "control", "leave"}
      BY <2>3 DEF MemberInv
    <3>2. con' = [i \in {j \in DOMAIN con : StillActive(j, now)} |-> con[i]]
      BY <1>13, <2>3 DEF Sigalrm, Release
    <3>3. QED
      BY <2>1, <3>1, <3>2, MemberFewer DEF mainVars
  <2>4. QED
    BY <2>2, <2>3
<1>14. CASE Tick
  BY <1>14 DEF Tick, mainVars, MemberInv
<1>15. CASE UNCHANGED vars
  BY <1>15 DEF vars, mainVars, MemberInv
<1>16. QED
  BY <1>1, <1>2, <1>3, <1>4, <1>5, <1>6, <1>7, <1>8, <1>9, <1>10, <1>11,
     <1>12, <1>13, <1>14, <1>15 DEF Next, MainLoop, MainRelease

(* What the main loop reflects goes to connections that are alive.         *)
LEMMA WalkSends ==
  ASSUME MemberInv, [Next]_vars, Len(out') > Len(out)
  PROVE  out'[Len(out')] \notin gone
<1>1. out \in Seq(Host) /\ Len(out) \in Nat
  BY DEF MemberInv
<1>2. CASE Walk /\ out' # out
  <2>1. /\ rc \in DOMAIN con /\ ~con[rc].bye
        /\ out' = Append(out, con[rc].host)
    BY <1>2 DEF Walk, Undefined, mainVars, Dangling
  <2>2. con[rc].host \in Host /\ con[rc].host \notin gone
    BY <2>1 DEF MemberInv, Connection
  <2>3. out'[Len(out')] = con[rc].host
    BY <1>1, <2>1, <2>2
  <2>4. QED
    BY <2>2, <2>3
<1>3. CASE Top
  BY <1>1, <1>3 DEF Top
<1>4. CASE UNCHANGED out
  BY <1>1, <1>4
<1>5. out' = out \/ Top \/ (Walk /\ out' # out)
  BY DEF Next, MainLoop, MainRelease, Receive, EnterCritical, Connect,
         DigestControl, LeaveCritical, Retry, Filter, Finish, Undefined,
         Sweep, Swept, Heartbeat, Rearm, Sigalrm, Tick, mainVars, vars
<1>6. QED
  BY <1>2, <1>3, <1>4, <1>5

LEMMA MemberAlways == Spec => []MemberInv
  BY MemberInit, MemberStep, PTL DEF Spec

(* Whatever release() frees under the main loop's pointers, no datagram    *)
(* goes to a host that said BYE and did not come back (reflect.c 1335-1381 *)
(* against 480-622 and 1049-1285).                                         *)
THEOREM NothingSentToGone == Spec => NothingToGone
<1>1. MemberInv /\ [Next]_vars
        => [Len(out') > Len(out) => out'[Len(out')] \notin gone]_vars
  BY WalkSends
<1>2. QED
  BY <1>1, MemberAlways, PTL DEF Spec, NothingToGone

-----------------------------------------------------------------------------
(* The page of members. *)

PageInv == PageCurrent /\ htmlChange \in BOOLEAN

(* updHTML() with the change flag up, or with nothing to tell.             *)
LEMMA PageWritten ==
  ASSUME PageInv, NEW ch \in BOOLEAN, UpdHTML(ch, con'),
         ~ch => ~htmlChange /\ Listing(con') = Listing(con)
  PROVE  PageInv'
<1>1. CASE ch /\ (HtmlTime <= 0 \/ now - htmlLast > HtmlTime)
  BY <1>1 DEF UpdHTML, PageInv, PageCurrent
<1>2. CASE ~(ch /\ (HtmlTime <= 0 \/ now - htmlLast > HtmlTime))
  BY <1>2 DEF UpdHTML, PageInv, PageCurrent
<1>3. QED
  BY <1>1, <1>2

LEMMA PageKept ==
  ASSUME PageInv, UNCHANGED htmlVars, Listing(con') = Listing(con)
  PROVE  PageInv'
  BY DEF PageInv, PageCurrent, htmlVars

(* Connections that differ in nothing the page shows give the same page.   *)
LEMMA SameListing ==
  ASSUME DOMAIN con' = DOMAIN con,
         \A i \in DOMAIN con : /\ con'[i].bye = con[i].bye
                               /\ con'[i].host = con[i].host
                               /\ con'[i].named = con[i].named
  PROVE  Listing(con') = Listing(con)
  BY DEF Listing

LEMMA PageStep == MemberInv /\ PageInv /\ [Next]_vars => PageInv'
<1> SUFFICES ASSUME MemberInv, PageInv, [Next]_vars PROVE PageInv'
  OBVIOUS
<1>1. ASSUME UNCHANGED <<con, htmlVars>> PROVE PageInv'
  <2>1. Listing(con') = Listing(con)
    BY <1>1
  <2>2. QED
    BY <1>1, <2>1, PageKept
<1>2. CASE Undefined
  BY <1>1, <1>2 DEF Undefined
<1>3. CASE Connect
  <2>1. CASE UNCHANGED <<con, htmlVars>>
    BY <1>1, <2>1
  <2>2. CASE UpdHTML(TRUE, con')
    BY <2>2, PageWritten
  <2>3. ASSUME NEW i \in Known, UNCHANGED htmlVars, ~con[i].bye,
               con' = [j \in DOMAIN con \cup {i} |-> IF j = i
                         THEN [con[i] EXCEPT !.timeout = pkt.time, !.bye = FALSE]
                         ELSE con[j]]
        PROVE  PageInv'
    <3>1. i \in DOMAIN con /\ con[i] \in Connection
      BY DEF Known, MemberInv
    <3>2. [con[i] EXCEPT !.timeout = pkt.time, !.bye = FALSE].bye = con[i].bye
      BY <2>3, <3>1 DEF Connection
    <3>3. /\ [con[i] EXCEPT !.timeout = pkt.time, !.bye = FALSE].host = con[i].host
          /\ [con[i] EXCEPT !.timeout = pkt.time, !.bye = FALSE].named = con[i].named
      BY <3>1 DEF Connection
    <3>4. Listing(con') = Listing(con)
      BY <2>3, <3>1, <3>2, <3>3, SameListing
    <3>5. QED
      BY <2>3, <3>4, PageKept
  <2>4. ASSUME NEW i \in IF Known = {} THEN {received} ELSE Known,
               LET old == IF Known = {}
                          THEN [host |-> pkt.from, timeout |-> -1, bye |-> FALSE,
                                protocol |-> "SPEAKFREE", named |-> FALSE]
                          ELSE con[i]
                   this == [old EXCEPT !.timeout = pkt.time, !.bye = FALSE]
               IN  /\ con' = [j \in DOMAIN con \cup {i} |->
                                IF j = i THEN this ELSE con[j]]
                   /\ IF old.timeout = -1 \/ old.bye THEN UpdHTML(TRUE, con')
                                                     ELSE UNCHANGED htmlVars
        PROVE  PageInv'
    <3>1. CASE Known = {}
      BY <2>2, <2>4, <3>1
    <3>2. CASE Known # {}
      BY <2>2, <2>3, <2>4, <3>2
    <3>3. QED
      BY <3>1, <3>2
  <2>5. QED
    BY <1>3, <2>1, <2>4, Zenon DEF Connect
<1>4. CASE DigestControl
  <2>1. /\ c \in DOMAIN con /\ con' = [con EXCEPT ![c] = Digested]
        /\ con[c] \in Connection /\ pkt.form \in Form
    BY <1>4 DEF DigestControl, MemberInv
  <2>2. CASE UpdHTML(TRUE, con')
    BY <2>2, PageWritten
  <2>3. CASE ~IsBye /\ con'[c].named = con[c].named /\ UNCHANGED htmlVars
    <3>1. Digested.host = con[c].host /\ Digested.bye = con[c].bye
      BY <2>1, <2>3, DigestedIs
    <3>2. Listing(con') = Listing(con)
      BY <2>1, <2>3, <3>1, SameListing
    <3>3. QED
      BY <2>3, <3>2, PageKept
  <2>4. QED
    BY <1>4, <2>2, <2>3 DEF DigestControl
<1>5. CASE Filter /\ ~Undefined
  <2>1. DOMAIN con' = DOMAIN con /\ UNCHANGED htmlVars
        /\ \A i \in DOMAIN con : /\ con'[i].bye = con[i].bye
                                 /\ con'[i].host = con[i].host
                                 /\ con'[i].named = con[i].named
    BY <1>5 DEF Filter, MemberInv, Connection
  <2>2. QED
    BY <2>1, PageKept, SameListing
<1>6. CASE Sweep /\ ~Undefined
  <2>1. CASE htmlChange' = TRUE
    BY <2>1 DEF PageInv, PageCurrent
  <2>2. CASE UNCHANGED <<con, htmlVars>>
    BY <1>1, <2>2
  <2>3. QED
    BY <1>6, <2>1, <2>2 DEF Sweep, htmlVars
<1>7. CASE Rearm
  <2>1. UpdHTML(htmlChange, con') /\ Listing(con') = Listing(con)
    BY <1>7 DEF Rearm
  <2>2. QED
    BY <2>1, PageWritten DEF PageInv
<1>8. CASE Sigalrm /\ crit
  <2>1. UpdHTML(htmlChange, con') /\ Listing(con') = Listing(con)
    BY <1>8 DEF Sigalrm, Clash
  <2>2. QED
    BY <2>1, PageWritten DEF PageInv
<1>9. CASE Sigalrm /\ ~crit
  <2> DEFINE still == {i \in DOMAIN con : StillActive(i, now)}
             ch == htmlChange \/ still # DOMAIN con
  <2>1. con' = [i \in still |-> con[i]] /\ UpdHTML(ch, con')
    BY <1>9 DEF Sigalrm, Release
  <2>2. ch \in BOOLEAN /\ (~ch => ~htmlChange /\ still = DOMAIN con)
    BY DEF PageInv
  <2>3. still = DOMAIN con => Listing(con') = Listing(con)
    BY <2>1, SameListing
  <2> HIDE DEF ch, still
  <2>4. QED
    BY <2>1, <2>2, <2>3, PageWritten
<1>10. CASE UNCHANGED <<con, htmlVars>>
  BY <1>1, <1>10
<1>11. QED
  <2>1. \/ Undefined \/ Connect \/ DigestControl \/ (Filter /\ ~Undefined)
        \/ (Sweep /\ ~Undefined) \/ Rearm \/ Sigalrm
        \/ UNCHANGED <<con, htmlVars>>
    BY DEF Next, MainLoop, MainRelease, Top, Receive, EnterCritical,
           LeaveCritical, Retry, Walk, Finish, Swept, Heartbeat, Tick, vars
  <2>2. QED
    BY <1>2, <1>3, <1>4, <1>5, <1>6, <1>7, <1>8, <1>9, <1>10, <2>1

(* Every path that adds, drops, names or silences a member, in the main    *)
(* loop and in either release(), rewrites the page or leaves a change      *)
(* pending (reflect.c 433-464, 480-622, 983-1042, 1049-1285).               *)
THEOREM PageAlwaysCurrent == Spec => []PageCurrent
<1>1. Init => PageInv
  BY DEF Init, PageInv, PageCurrent
<1>2. PageInv => PageCurrent
  BY DEF PageInv
<1>3. QED
  BY <1>1, <1>2, PageStep, MemberAlways, PTL DEF Spec

-----------------------------------------------------------------------------
(* The chain, and what is reflected along it. *)

(* The chain and the allocated connections agree, and the cell that the    *)
(* next connection gets is a new one.                                      *)
ChainInv ==
    /\ TypeOK
    /\ IsInjective(conn) /\ Range(conn) = DOMAIN con
    /\ DOMAIN con \subseteq 1..received
    /\ pc \in {"received", "connect"} => received > 0 /\ received \notin DOMAIN con

(* Connections the reflecting loop has still to come to, and those it need *)
(* not come to any more.                                                   *)
Ahead(i) == Before(conn, rc, i)
Served(i) == con[i].bye \/ con[i].host \in Local \cup Range(out)

Unsent == c = Nil /\ rchat = FALSE /\ out = << >>

(* Before the sender is looked up the loop will start at the head, unless  *)
(* that is freed.                                                          *)
HeadInv ==
    pc \in {"select", "received", "connect"} =>
      /\ Unsent /\ rc \in 0..received
      /\ pc # "select" => rc # received
      /\ Dangling(rc) \/ \A i \in DOMAIN con : Ahead(i)

Reflecting ==
    \/ pc \in {"control", "leave", "filter", "walk"}
    \/ pc \in {"retry", "release"} /\ rchat

(* After it, every other connection is ahead or served, unless the loop    *)
(* has lost its way.                                                       *)
WalkInv ==
    /\ Reflecting =>
         /\ pc # "leave" \/ rchat => c # Nil
         /\ pc # "walk" => out = << >>
         /\ c # Nil => \A i \in DOMAIN con : con[i].host = pkt.from => i = c
         /\ Dangling(rc) \/ \A i \in DOMAIN con : i = c \/ Ahead(i) \/ Served(i)
         /\ \A i \in DOMAIN con : Ahead(i) => con[i].host \notin Range(out)
         /\ IsInjective(out) /\ Range(out) \cap (Local \cup {pkt.from}) = {}
    /\ ReflectedToAll

ReflectInv == MemberInv /\ ChainInv /\ HeadInv /\ WalkInv

LEMMA ReflectConstants ==
  /\ TickTock \in Nat /\ TockTock \in Nat /\ LwlRetransmit \in Nat /\ HtmlTime \in Nat
  /\ MaxPackets \in Nat /\ Publish \in BOOLEAN /\ Datagram \subseteq Form
BY ReflectAssumption DEF ReflectAssumption

LEMMA FirstIs ==
  ASSUME NEW S, NEW s \in Seq(S)
  PROVE  /\ s = << >> => First(s) = Nil
         /\ s # << >> => First(s) = s[1] /\ First(s) \in Range(s) /\ First(s) \in S
         /\ First(s) \in S \cup {Nil}
<1>1. CASE s = << >>
  BY <1>1 DEF First
<1>2. CASE s # << >>
  <2>1. 1 \in DOMAIN s /\ s[1] \in S
    BY <1>2
  <2>2. QED
    BY <1>2, <2>1 DEF First, Range
<1>3. QED
  BY <1>1, <1>2

(* The cell after x, in terms of the order of the chain.                   *)
LEMMA NextCellIs ==
  ASSUME ChainInv, NEW x \in DOMAIN con
  PROVE  /\ NextCell(x) \in Cell \cup {Nil}
         /\ \A i \in DOMAIN con : Before(conn, NextCell(x), i) <=> i # x /\ Before(conn, x, i)
<1>1. conn \in Seq(Cell) /\ IsInjective(conn) /\ Range(conn) = DOMAIN con
  BY DEF ChainInv, TypeOK
<1> DEFINE n == Len(conn)
           p == CHOOSE k \in DOMAIN conn : conn[k] = x
<1>2. n \in Nat /\ DOMAIN conn = 1..n /\ \A k \in 1..n : conn[k] \in Cell
  BY <1>1
<1>3. p \in 1..n /\ conn[p] = x
  BY <1>1, <1>2 DEF Range
<1>4. NextCell(x) = IF p = n THEN Nil ELSE conn[p + 1]
  BY DEF NextCell
<1>5. \A k, l \in 1..n : conn[k] = conn[l] => k = l
  BY <1>1, <1>2 DEF IsInjective
<1>6. \A k \in 1..n : conn[k] # Nil
  BY <1>2 DEF Cell, Nil
<1> HIDE DEF n, p
<1>7. CASE p = n
  <2>1. NextCell(x) = Nil
    BY <1>4, <1>7
  <2>2. \A i : ~Before(conn, Nil, i)
    BY <1>2, <1>6 DEF Before
  <2>3. ASSUME NEW i, Before(conn, x, i) PROVE i = x
    <3>1. PICK k, l \in 1..n : k <= l /\ conn[k] = x /\ conn[l] = i
      BY <1>2, <2>3 DEF Before
    <3>2. k = p
      BY <1>3, <1>5, <3>1
    <3>3. l = p
      BY <1>2, <1>7, <3>1, <3>2
    <3>4. QED
      BY <1>3, <3>1, <3>3
  <2>4. QED
    BY <2>1, <2>2, <2>3
<1>8. CASE p # n
  <2>1. p + 1 \in 1..n /\ NextCell(x) = conn[p + 1]
    BY <1>2, <1>3, <1>4, <1>8
  <2>2. ASSUME NEW i, Before(conn, conn[p + 1], i) PROVE i # x /\ Before(conn, x, i)
    <3>1. PICK k, l \in 1..n : k <= l /\ conn[k] = conn[p + 1] /\ conn[l] = i
      BY <1>2, <2>2 DEF Before
    <3>2. k = p + 1
      BY <1>5, <2>1, <3>1
    <3>3. p <= l /\ l # p
      BY <1>2, <1>3, <3>1, <3>2
    <3>4. i # x
      BY <1>3, <1>5, <3>1, <3>3
    <3>5. QED
      BY <1>2, <1>3, <3>1, <3>3, <3>4 DEF Before
  <2>3. ASSUME NEW i, i # x, Before(conn, x, i) PROVE Before(conn, conn[p + 1], i)
    <3>1. PICK k, l \in 1..n : k <= l /\ conn[k] = x /\ conn[l] = i
      BY <1>2, <2>3 DEF Before
    <3>2. k = p /\ l # p
      BY <1>3, <1>5, <2>3, <3>1
    <3>3. p + 1 <= l
      BY <1>2, <1>3, <3>1, <3>2
    <3>4. QED
      BY <1>2, <2>1, <3>1, <3>3 DEF Before
  <2>4. QED
    BY <1>2, <2>1, <2>2, <2>3
<1>9. QED
  BY <1>7, <1>8

LEMMA UpdHTMLIs ==
  ASSUME now \in Nat, HtmlTime \in Nat, htmlLast \in Int, page \subseteq [host: Host, named: BOOLEAN],
         NEW ch \in BOOLEAN, NEW cells, cells \in [DOMAIN cells -> Connection], UpdHTML(ch, cells)
  PROVE  /\ htmlChange' \in BOOLEAN /\ htmlLast' \in Int
         /\ page' \subseteq [host: Host, named: BOOLEAN]
<1>1. Listing(cells) \subseteq [host: Host, named: BOOLEAN]
  BY DEF Listing, Connection
<1>2. CASE UNCHANGED <<htmlLast, page>> /\ htmlChange' = ch
  BY <1>2
<1>3. CASE htmlLast' = now /\ htmlChange' = FALSE /\ page' = Listing(cells)
  <2>1. now \in Int
    OBVIOUS
  <2>2. QED
    BY <1>1, <1>3, <2>1
<1>4. QED
  BY <1>2, <1>3 DEF UpdHTML

LEMMA UpdLWLIs ==
  ASSUME now \in Nat, sdes \in BOOLEAN, lwltimer \in Nat, published \in Nat,
         NEW td \in Nat, UpdLWL(td)
  PROVE  sdes' \in BOOLEAN /\ lwltimer' \in Nat /\ published' \in Nat
<1>1. td + LwlRetransmit \in Nat
  BY ReflectConstants
<1>2. CASE sdes /\ td >= lwltimer
  <2>1. /\ lwltimer' = td + LwlRetransmit
        /\ \/ published' = now /\ UNCHANGED sdes
           \/ sdes' = FALSE /\ UNCHANGED published
    BY <1>2 DEF UpdLWL
  <2>2. QED
    BY <1>1, <2>1
<1>3. CASE ~(sdes /\ td >= lwltimer)
  BY <1>3 DEF UpdLWL, lwlVars
<1>4. QED
  BY <1>2, <1>3

LEMMA ChainInit == Init => ChainInv
<1> SUFFICES ASSUME Init PROVE ChainInv
  OBVIOUS
<1>1. con = [i \in {} |-> 0] /\ conn = << >> /\ pc = "top" /\ received = 0
  BY DEF Init
<1>2. DOMAIN con = {} /\ Range(conn) = {} /\ IsInjective(conn) /\ con \in [DOMAIN con -> Connection]
  BY <1>1 DEF Range, IsInjective
<1>3. /\ now \in Nat /\ alarm \in Nat /\ lwltimer \in Nat /\ published \in Nat
      /\ htmlLast \in Int /\ actives \in Nat /\ received \in 0..MaxPackets
  BY ReflectConstants DEF Init
<1>4. {crit, clash, rchat, sdes, htmlChange} \subseteq BOOLEAN
  BY ReflectConstants DEF Init
<1>5. pkt \in [from: Host, form: Form, time: Nat] /\ out \in Seq(Host)
  BY MemberInit DEF MemberInv
<1>6. /\ rc \in Cell \cup {Nil} /\ c \in Cell \cup {Nil}
      /\ rel \in [at: {"out", "sweep", "beat"}, ptr: Cell \cup {Nil}, prev: Cell \cup {Nil}, td: Nat]
  BY DEF Init, Outside
<1>7. page \subseteq [host: Host, named: BOOLEAN] /\ gone \subseteq Host /\ conn \in Seq(Cell)
  BY DEF Init
<1>8. TypeOK
  BY <1>1, <1>2, <1>3, <1>4, <1>5, <1>6, <1>7 DEF TypeOK
<1>9. QED
  BY <1>1, <1>2, <1>8 DEF ChainInv

(* What remains to be seen of the chain's types and numbers when           *)
(* MemberInv' is known.                                                    *)
LEMMA ChainParts ==
  ASSUME MemberInv', alarm' \in Nat, {crit', clash', rchat', sdes', htmlChange'} \subseteq BOOLEAN,
         conn' \in Seq(Cell), IsInjective(conn'), Range(conn') = DOMAIN con',
         DOMAIN con' \subseteq 1..received', received' \in 0..MaxPackets, actives' \in Nat,
         pc' \in {"top", "select", "received", "connect", "control", "leave",
                 "retry", "release", "filter", "walk", "walked", "undefined"},
         rc' \in Cell \cup {Nil}, c' \in Cell \cup {Nil},
         rel' \in [at: {"out", "sweep", "beat"}, ptr: Cell \cup {Nil},
                  prev: Cell \cup {Nil}, td: Nat],
         lwltimer' \in Nat, published' \in Nat, htmlLast' \in Int,
         page' \subseteq [host: Host, named: BOOLEAN], gone' \subseteq Host,
         pc' \in {"received", "connect"} => received' > 0 /\ received' \notin DOMAIN con'
  PROVE  ChainInv'
<1>1. 1..received' \subseteq Cell
  BY ReflectConstants DEF Cell
<1>2. /\ now' \in Nat /\ con' \in [DOMAIN con' -> Connection] /\ out' \in Seq(Host)
      /\ pkt' \in [from: Host, form: Form, time: Nat]
  BY DEF MemberInv
<1>3. DOMAIN con' \subseteq Cell
  BY <1>1
<1>4. TypeOK'
  BY <1>2, <1>3 DEF TypeOK
<1>5. QED
  BY <1>4 DEF ChainInv

(* A sweep that frees all but S.                                           *)
LEMMA ChainFewer ==
  ASSUME ChainInv, NEW S, S \subseteq DOMAIN con, con' = [i \in S |-> con[i]],
         conn' = Kept(conn, S)
  PROVE  conn' \in Seq(Cell) /\ IsInjective(conn') /\ Range(conn') = DOMAIN con' /\ DOMAIN con' = S
<1>1. conn \in Seq(Cell) /\ IsInjective(conn) /\ Range(conn) = DOMAIN con
  BY DEF ChainInv, TypeOK
<1>2. conn' \in Seq(Cell) /\ IsInjective(conn') /\ Range(conn') = Range(conn) \cap S
  BY <1>1, KeptRange
<1>3. QED
  BY <1>1, <1>2

LEMMA ChainStep == MemberInv /\ ChainInv /\ [Next]_vars => ChainInv'
<1> SUFFICES ASSUME MemberInv, ChainInv, [Next]_vars PROVE ChainInv'
  OBVIOUS
<1>0. MemberInv'
  BY MemberStep
<1>a. /\ now \in Nat /\ alarm \in Nat /\ htmlLast \in Int /\ page \subseteq [host: Host, named: BOOLEAN]
      /\ con \in [DOMAIN con -> Connection] /\ conn \in Seq(Cell)
      /\ sdes \in BOOLEAN /\ htmlChange \in BOOLEAN /\ lwltimer \in Nat /\ published \in Nat
      /\ rel \in [at: {"out", "sweep", "beat"}, ptr: Cell \cup {Nil},
                 prev: Cell \cup {Nil}, td: Nat]
      /\ actives \in Nat /\ TickTock \in Nat /\ TockTock \in Nat /\ HtmlTime \in Nat
  BY ReflectConstants DEF ChainInv, TypeOK
<1>b. /\ now' \in Nat /\ con' \in [DOMAIN con' -> Connection] /\ out' \in Seq(Host)
      /\ pkt' \in [from: Host, form: Form, time: Nat]
  BY <1>0 DEF MemberInv
<1>1. CASE Top
  <2>1. rc' \in Cell \cup {Nil}
    BY <1>1, <1>a, FirstIs DEF Top
  <2>2. /\ UNCHANGED <<now, alarm, crit, clash, con, conn, actives, rel, pkt, received, gone,
                     sdes, lwltimer, published, htmlChange, htmlLast, page>>
        /\ c' = Nil /\ rchat' = FALSE /\ pc' = "select"
    BY <1>1 DEF Top, lwlVars, htmlVars
  <2>3. QED
    BY <1>0, <2>1, <2>2, ChainParts DEF ChainInv, TypeOK
<1>2. ASSUME NEW h \in Host, NEW form \in Datagram, Receive(h, form) PROVE ChainInv'
  <2>1. /\ received' = received + 1 /\ received < MaxPackets /\ pc' = "received"
        /\ UNCHANGED <<now, alarm, crit, clash, con, conn, actives, rel, rc, c, rchat, out, gone,
                       sdes, lwltimer, published, htmlChange, htmlLast, page>>
    BY <1>2 DEF Receive, lwlVars, htmlVars
  <2>2. /\ received' \in 0..MaxPackets /\ received' > 0 /\ 1..received \subseteq 1..received'
        /\ received' \notin 1..received
    BY <2>1, ReflectConstants DEF ChainInv, TypeOK
  <2>3. QED
    BY <1>0, <2>1, <2>2, ChainParts DEF ChainInv, TypeOK
<1>3. CASE EnterCritical
  BY <1>3 DEF EnterCritical, mainVars, lwlVars, htmlVars, ChainInv, TypeOK
<1>4. CASE Connect
  <2>1. /\ UNCHANGED <<now, crit, clash, actives, rel, pkt, rc, rchat, received, out, sdes, lwltimer, published>>
        /\ pc' \in {"control", "leave"} /\ pc = "connect"
    BY <1>4 DEF Connect, lwlVars
  <2>2. CASE UNCHANGED <<alarm, con, conn, c, gone, htmlVars>>
    BY <1>0, <2>1, <2>2, ChainParts DEF htmlVars, ChainInv, TypeOK
  <2>3. ASSUME NEW i \in IF Known = {} THEN {received} ELSE Known,
               c' = i, DOMAIN con' = DOMAIN con \cup {i},
               conn' = IF Known = {} THEN <<i>> \o conn ELSE conn,
               alarm' \in {now + TickTock, alarm},
               UpdHTML(TRUE, con') \/ UNCHANGED htmlVars,
               gone' = gone \ {pkt.from}
        PROVE  ChainInv'
    <3>1. received \in 1..MaxPackets /\ received \notin DOMAIN con /\ received \in Cell
      BY <2>1, ReflectConstants DEF ChainInv, TypeOK, Cell
    <3>2. i \in Cell /\ i \in 1..received
      BY <2>3, <3>1 DEF Known, ChainInv, TypeOK
    <3>3. conn' \in Seq(Cell) /\ IsInjective(conn') /\ Range(conn') = DOMAIN con'
      <4>1. CASE Known = {}
        <5>1. i = received /\ i \notin Range(conn) /\ conn' = <<i>> \o conn
          BY <2>3, <3>1, <4>1 DEF ChainInv
        <5>2. QED
          BY <1>a, <2>3, <3>2, <5>1, PutInFront DEF ChainInv
      <4>2. CASE Known # {}
        BY <1>a, <2>3, <4>2 DEF Known, ChainInv
      <4>3. QED
        BY <4>1, <4>2
    <3>4. htmlChange' \in BOOLEAN /\ htmlLast' \in Int /\ page' \subseteq [host: Host, named: BOOLEAN]
      <4>1. CASE UpdHTML(TRUE, con')
        BY <1>a, <1>b, <4>1, UpdHTMLIs
      <4>2. CASE UNCHANGED htmlVars
        BY <1>a, <4>2 DEF htmlVars
      <4>3. QED
        BY <2>3, <4>1, <4>2
    <3>5. alarm' \in Nat /\ gone' \subseteq Host /\ DOMAIN con' \subseteq 1..received'
      BY <1>a, <2>1, <2>3, <3>2 DEF ChainInv, TypeOK
    <3>6. QED
      BY <1>0, <2>1, <2>3, <3>2, <3>3, <3>4, <3>5, ChainParts DEF ChainInv, TypeOK
  <2>4. QED
    BY <1>4, <2>2, <2>3 DEF Connect
<1>5. CASE DigestControl
  <2>1. /\ DOMAIN con' = DOMAIN con /\ pc' = "leave"
        /\ UNCHANGED <<now, alarm, crit, clash, conn, actives, rel, pkt, rc, c, received, out,
                       sdes, lwltimer, published>>
        /\ UpdHTML(TRUE, con') \/ UNCHANGED htmlVars
        /\ gone' \in {gone, gone \cup {pkt.from}} /\ rchat' \in {FALSE, IsChat}
    BY <1>5 DEF DigestControl, lwlVars
  <2>2. htmlChange' \in BOOLEAN /\ htmlLast' \in Int /\ page' \subseteq [host: Host, named: BOOLEAN]
    <3>1. CASE UpdHTML(TRUE, con')
      BY <1>a, <1>b, <3>1, UpdHTMLIs
    <3>2. CASE UNCHANGED htmlVars
      BY <1>a, <3>2 DEF htmlVars
    <3>3. QED
      BY <2>1, <3>1, <3>2
  <2>3. rchat' \in BOOLEAN /\ gone' \subseteq Host
    BY <2>1 DEF IsChat, ChainInv, TypeOK
  <2>4. QED
    BY <1>0, <2>1, <2>2, <2>3, ChainParts DEF ChainInv, TypeOK
<1>6. CASE LeaveCritical
  BY <1>6 DEF LeaveCritical, mainVars, lwlVars, htmlVars, ChainInv, TypeOK
<1>7. CASE Retry
  <2>1. /\ UNCHANGED <<now, alarm, crit, clash, con, conn, pkt, rc, c, rchat, received, out, gone,
                       sdes, lwltimer, published, htmlChange, htmlLast, page>>
        /\ pc' \in {"release", "filter", "top"} /\ actives' \in {0, actives}
        /\ rel' \in {rel, [at |-> "sweep", ptr |-> First(conn), prev |-> Nil, td |-> now]}
    BY <1>7 DEF Retry, Resume, mainVars, lwlVars, htmlVars
  <2>2. First(conn) \in Cell \cup {Nil}
    BY <1>a, FirstIs
  <2>3. rel' \in [at: {"out", "sweep", "beat"}, ptr: Cell \cup {Nil}, prev: Cell \cup {Nil}, td: Nat]
    BY <1>a, <2>1, <2>2
  <2>4. QED
    BY <1>0, <1>a, <2>1, <2>3, ChainParts DEF ChainInv, TypeOK
<1>8. CASE Filter
  <2>1. CASE Undefined
    BY <2>1 DEF Undefined, mainVars, lwlVars, htmlVars, ChainInv, TypeOK
  <2>2. CASE ~Undefined
    <3>1. /\ DOMAIN con' = DOMAIN con /\ pc' \in {"top", "walk"}
          /\ UNCHANGED <<now, alarm, crit, clash, conn, actives, rel, pkt, rc, c, rchat, received, out, gone,
                       sdes, lwltimer, published, htmlChange, htmlLast, page>>
      BY <1>8, <2>2 DEF Filter, mainVars, lwlVars, htmlVars
    <3>2. QED
      BY <1>0, <3>1, ChainParts DEF ChainInv, TypeOK
  <2>3. QED
    BY <2>1, <2>2
<1>9. CASE Walk
  <2>1. CASE Undefined
    BY <2>1 DEF Undefined, mainVars, lwlVars, htmlVars, ChainInv, TypeOK
  <2>2. CASE ~Undefined
    <3>1. ~Dangling(rc)
      BY <1>9, <2>2 DEF Walk
    <3>2. /\ UNCHANGED <<now, alarm, crit, clash, con, conn, actives, rel, pkt, c, rchat, received, gone,
                       sdes, lwltimer, published, htmlChange, htmlLast, page>>
          /\ pc' \in {"walk", "walked"}
          /\ rc = Nil => UNCHANGED rc
          /\ rc # Nil => rc' = NextCell(rc)
      BY <1>9, <3>1 DEF Walk, lwlVars, htmlVars
    <3>3. rc' \in Cell \cup {Nil}
      BY <3>1, <3>2, NextCellIs DEF Dangling
    <3>4. QED
      BY <1>0, <3>2, <3>3, ChainParts DEF ChainInv, TypeOK
  <2>3. QED
    BY <2>1, <2>2
<1>10. CASE Finish
  BY <1>10 DEF Finish, Undefined, mainVars, lwlVars, htmlVars, ChainInv, TypeOK
<1>11. CASE Sweep
  <2>1. CASE Undefined
    BY <2>1 DEF Undefined, mainVars, lwlVars, htmlVars, ChainInv, TypeOK
  <2>2. CASE ~Undefined
    <3> DEFINE p == rel.ptr
    <3>1. ~Dangling(p) /\ p # Nil /\ p \in DOMAIN con
      BY <1>11, <2>2 DEF Sweep, Dangling
    <3>2. /\ UNCHANGED <<now, alarm, crit, clash, pc, pkt, rc, c, rchat, received, out, gone,
                       sdes, lwltimer, published, htmlLast, page>>
          /\ rel' = [rel EXCEPT !.ptr = NextCell(p),
                               !.prev = IF StillActive(p, rel.td) THEN p ELSE rel.prev]
          /\ \/ actives' = actives + 1 /\ UNCHANGED <<con, conn, htmlChange>>
             \/ /\ con' = Unlinked(p) /\ conn' = Kept(conn, DOMAIN con \ {p})
                /\ htmlChange' = TRUE /\ UNCHANGED actives
      BY <1>11, <2>2 DEF Sweep, mainVars, lwlVars
    <3>3. rel' \in [at: {"out", "sweep", "beat"}, ptr: Cell \cup {Nil}, prev: Cell \cup {Nil}, td: Nat]
      <4>1. NextCell(p) \in Cell \cup {Nil} /\ p \in Cell
        BY <3>1, NextCellIs DEF ChainInv, TypeOK
      <4>2. QED
        BY <1>a, <3>2, <4>1
    <3>4. /\ conn' \in Seq(Cell) /\ IsInjective(conn') /\ Range(conn') = DOMAIN con'
          /\ DOMAIN con' \subseteq DOMAIN con
      <4>1. CASE con' = Unlinked(p) /\ conn' = Kept(conn, DOMAIN con \ {p})
        BY <4>1, ChainFewer DEF Unlinked
      <4>2. CASE UNCHANGED <<con, conn>>
        BY <4>2 DEF ChainInv, TypeOK
      <4>3. QED
        BY <3>2, <4>1, <4>2
    <3>5. actives' \in Nat /\ htmlChange' \in BOOLEAN
      <4>1. actives' = actives + 1 \/ actives' = actives
        BY <3>2
      <4>2. htmlChange' = htmlChange \/ htmlChange' = TRUE
        BY <3>2
      <4>3. actives \in Nat /\ actives + 1 \in Nat
        BY <1>a
      <4>4. actives' \in Nat
        BY <4>1, <4>3
      <4>5. htmlChange' \in BOOLEAN
        BY <1>a, <4>2
      <4>6. QED
        BY <4>4, <4>5
    <3>6. QED
      BY <1>0, <3>2, <3>3, <3>4, <3>5, ChainParts DEF ChainInv, TypeOK
  <2>3. QED
    BY <2>1, <2>2
<1>12. CASE Swept
  <2>1. /\ UNCHANGED <<now, alarm, crit, clash, con, conn, actives, pc, pkt, rc, c, rchat, received, out, gone,
                     htmlChange, htmlLast, page>>
        /\ UpdLWL(rel.td)
        /\ rel' = [rel EXCEPT !.at = "beat", !.ptr = IF actives > 0 THEN First(conn) ELSE Nil]
    BY <1>12 DEF Swept, mainVars, htmlVars
  <2>2. sdes' \in BOOLEAN /\ lwltimer' \in Nat /\ published' \in Nat
    BY <1>a, <2>1, UpdLWLIs
  <2>3. rel' \in [at: {"out", "sweep", "beat"}, ptr: Cell \cup {Nil}, prev: Cell \cup {Nil}, td: Nat]
    <3>1. First(conn) \in Cell \cup {Nil}
      BY <1>a, FirstIs
    <3>2. QED
      BY <1>a, <2>1, <3>1
  <2>4. QED
    BY <1>0, <2>1, <2>2, <2>3, ChainParts DEF ChainInv, TypeOK
<1>13. CASE Heartbeat
  <2>1. CASE Undefined
    BY <2>1 DEF Undefined, mainVars, lwlVars, htmlVars, ChainInv, TypeOK
  <2>2. CASE ~Undefined
    <3>1. rel.ptr \in DOMAIN con
      BY <1>13, <2>2 DEF Heartbeat, Dangling
    <3>2. /\ UNCHANGED <<now, alarm, crit, clash, con, conn, actives, pc, pkt, rc, c, rchat, received, out, gone,
                       sdes, lwltimer, published, htmlChange, htmlLast, page>>
          /\ rel' = [rel EXCEPT !.ptr = NextCell(rel.ptr)]
      BY <1>13, <2>2 DEF Heartbeat, mainVars, lwlVars, htmlVars
    <3>3. rel' \in [at: {"out", "sweep", "beat"}, ptr: Cell \cup {Nil}, prev: Cell \cup {Nil}, td: Nat]
      BY <1>a, <3>1, <3>2, NextCellIs
    <3>4. QED
      BY <1>0, <3>2, <3>3, ChainParts DEF ChainInv, TypeOK
  <2>3. QED
    BY <2>1, <2>2
<1>14. CASE Rearm
  <2>1. /\ UNCHANGED <<now, crit, clash, con, conn, actives, pkt, rc, c, rchat, received, out, gone,
                     sdes, lwltimer, published>>
        /\ alarm' = now + Step(actives) /\ UpdHTML(htmlChange, con)
        /\ rel' = Outside /\ pc' \in {"filter", "top"}
    BY <1>14 DEF Rearm, Resume, mainVars, lwlVars
  <2>2. htmlChange' \in BOOLEAN /\ htmlLast' \in Int /\ page' \subseteq [host: Host, named: BOOLEAN]
    BY <1>a, <2>1, UpdHTMLIs
  <2>3. alarm' \in Nat
    BY <1>a, <2>1 DEF Step
  <2>4. rel' \in [at: {"out", "sweep", "beat"}, ptr: Cell \cup {Nil}, prev: Cell \cup {Nil}, td: Nat]
    BY <2>1 DEF Outside
  <2>5. QED
    BY <1>0, <2>1, <2>2, <2>3, <2>4, ChainParts DEF ChainInv, TypeOK
<1>15. CASE Sigalrm
  <2>1. /\ UNCHANGED <<now, crit, rel, pkt, rc, c, rchat, received, out, gone>>
        /\ pc' \in IF pc = "select" THEN {"select", "top"} ELSE {pc}
        /\ IF crit THEN Clash ELSE Release
    BY <1>15 DEF Sigalrm, mainVars
  <2>2. CASE crit
    <3>1. /\ clash' = TRUE /\ alarm' = now + TockTock /\ UpdHTML(htmlChange, con)
          /\ UNCHANGED <<con, conn, actives, sdes, lwltimer, published>>
      BY <2>1, <2>2 DEF Clash, lwlVars
    <3>2. htmlChange' \in BOOLEAN /\ htmlLast' \in Int /\ page' \subseteq [host: Host, named: BOOLEAN]
      BY <1>a, <3>1, UpdHTMLIs
    <3>3. alarm' \in Nat
      BY <1>a, <3>1
    <3>4. QED
      BY <1>0, <2>1, <3>1, <3>2, <3>3, ChainParts DEF ChainInv, TypeOK
  <2>3. CASE ~crit
    <3> DEFINE still == {i \in DOMAIN con : StillActive(i, now)}
    <3>1. /\ con' = [i \in still |-> con[i]] /\ conn' = Kept(conn, still)
          /\ actives' = Cardinality(still) /\ UpdLWL(now) /\ alarm' = now + Step(actives')
          /\ UpdHTML(htmlChange \/ still # DOMAIN con, con') /\ UNCHANGED clash
      BY <2>1, <2>3 DEF Release
    <3>2. still \subseteq DOMAIN con
      OBVIOUS
    <3>3. IsFiniteSet(still)
      <4>1. IsFiniteSet(1..received)
        <5>1. 1 \in Int /\ received \in Int
          BY ReflectConstants DEF ChainInv, TypeOK
        <5>2. QED
          BY <5>1, FS_Interval
      <4>2. still \subseteq 1..received
        BY <3>2 DEF ChainInv
      <4>3. QED
        BY <4>1, <4>2, FS_Subset
    <3>4. actives' \in Nat
      BY <3>1, <3>3, FS_CardinalityType
    <3> HIDE DEF still
    <3>5. /\ conn' \in Seq(Cell) /\ IsInjective(conn') /\ Range(conn') = DOMAIN con'
          /\ DOMAIN con' \subseteq DOMAIN con
      BY <3>1, <3>2, ChainFewer
    <3>6. alarm' \in Nat
      BY <1>a, <3>1 DEF Step
    <3>7. sdes' \in BOOLEAN /\ lwltimer' \in Nat /\ published' \in Nat
      BY <1>a, <3>1, UpdLWLIs
    <3>8. htmlChange' \in BOOLEAN /\ htmlLast' \in Int /\ page' \subseteq [host: Host, named: BOOLEAN]
      <4>1. (htmlChange \/ still # DOMAIN con) \in BOOLEAN
        BY <1>a
      <4>2. QED
        BY <1>a, <1>b, <3>1, <4>1, UpdHTMLIs
    <3>9. pc' = pc \/ pc' \in {"select", "top"}
      BY <2>1
    <3>10. {crit', clash', rchat', sdes', htmlChange'} \subseteq BOOLEAN
      BY <2>1, <3>1, <3>7, <3>8 DEF ChainInv, TypeOK
    <3>11. /\ rc' \in Cell \cup {Nil} /\ c' \in Cell \cup {Nil} /\ gone' \subseteq Host
           /\ rel' \in [at: {"out", "sweep", "beat"}, ptr: Cell \cup {Nil}, prev: Cell \cup {Nil}, td: Nat]
           /\ received' \in 0..MaxPackets /\ DOMAIN con' \subseteq 1..received'
      BY <2>1, <3>5 DEF ChainInv, TypeOK
    <3>12. pc' \in {"top", "select", "received", "connect", "control", "leave",
                   "retry", "release", "filter", "walk", "walked", "undefined"}
      BY <3>9 DEF ChainInv, TypeOK
    <3>13. pc' \in {"received", "connect"} => received' > 0 /\ received' \notin DOMAIN con'
      BY <2>1, <3>5, <3>9 DEF ChainInv
    <3>14. QED
      BY <1>0, <3>4, <3>5, <3>6, <3>7, <3>8, <3>10, <3>11, <3>12, <3>13, ChainParts
  <2>4. QED
    BY <2>2, <2>3
<1>16. CASE Tick
  BY <1>b, <1>16 DEF Tick, mainVars, lwlVars, htmlVars, ChainInv, TypeOK
<1>17. CASE UNCHANGED vars
  BY <1>17 DEF vars, mainVars, lwlVars, htmlVars, ChainInv, TypeOK
<1>18. QED
  BY <1>1, <1>2, <1>3, <1>4, <1>5, <1>6, <1>7, <1>8, <1>9, <1>10, <1>11, <1>12,
     <1>13, <1>14, <1>15, <1>16, <1>17 DEF Next, MainLoop, MainRelease

LEMMA AheadIs ==
  ASSUME ChainInv
  PROVE  /\ \A i : Ahead(i) => rc \in DOMAIN con /\ i \in DOMAIN con
         /\ rc \in DOMAIN con => Ahead(rc)
         /\ Nil \notin DOMAIN con
<1>1. conn \in Seq(Cell) /\ Range(conn) = DOMAIN con
  BY DEF ChainInv, TypeOK
<1>2. \A k \in DOMAIN conn : conn[k] \in Cell /\ k <= k /\ conn[k] \in DOMAIN con
  BY <1>1 DEF Range
<1>3. rc \in DOMAIN con => \E k \in DOMAIN conn : conn[k] = rc
  BY <1>1 DEF Range
<1>4. Nil \notin Cell
  BY DEF Nil, Cell
<1>5. QED
  BY <1>1, <1>2, <1>3, <1>4 DEF Ahead, Before, Range

LEMMA WalkFewer ==
  ASSUME ReflectInv, NEW S, S \subseteq DOMAIN con, con' = [i \in S |-> con[i]],
         conn' = Kept(conn, S), UNCHANGED <<pkt, rc, c, rchat, received, out>>,
         pc' = pc \/ (pc = "select" /\ pc' = "top")
  PROVE  HeadInv' /\ WalkInv'
<1>1. ChainInv /\ HeadInv /\ WalkInv /\ conn \in Seq(Cell)
  BY DEF ReflectInv, ChainInv, TypeOK
<1>2. DOMAIN con' = S /\ \A i \in S : con'[i] = con[i]
  OBVIOUS
<1>3. conn' \in Seq(Cell) /\ Range(conn') = S
  BY <1>1, <1>2, ChainFewer
<1>4. rc \in S => \A i \in S : Ahead(i)' <=> Ahead(i)
  <2> SUFFICES ASSUME rc \in S, NEW i \in S PROVE Ahead(i)' <=> Ahead(i)
    OBVIOUS
  <2>1. Before(Kept(conn, S), rc, i) <=> Before(conn, rc, i)
    BY <1>1, KeptOrder
  <2>2. QED
    BY <2>1 DEF Ahead
<1>5. rc \notin S => \A i : ~Ahead(i)'
  BY <1>3 DEF Ahead, Before, Range
<1>6. rc = Nil => \A i : ~Ahead(i)
  BY <1>1, AheadIs
<1>7. rc # Nil /\ rc \notin S => Dangling(rc)'
  BY <1>2 DEF Dangling
<1>8. Dangling(rc) => Dangling(rc)'
  BY <1>2 DEF Dangling
<1>9. HeadInv'
  <2> SUFFICES ASSUME pc' \in {"select", "received", "connect"}, ~Dangling(rc)'
               PROVE  \A i \in DOMAIN con' : Ahead(i)'
    BY <1>1 DEF HeadInv, Unsent
  <2>1. \A i \in DOMAIN con : Ahead(i)
    BY <1>1, <1>8 DEF HeadInv
  <2>2. QED
    BY <1>2, <1>4, <1>6, <1>7, <2>1
<1>10. WalkInv'
  <2>1. \A i \in S : Served(i)' <=> Served(i)
    BY <1>2 DEF Served
  <2>2. ReflectedToAll'
    BY <1>1, <1>2 DEF WalkInv, ReflectedToAll
  <2>3. ASSUME Reflecting'
        PROVE  /\ pc' # "leave" \/ rchat' => c' # Nil
               /\ pc' # "walk" => out' = << >>
               /\ c' # Nil => \A i \in DOMAIN con' : con'[i].host = pkt'.from => i = c'
               /\ \A i \in DOMAIN con' : Ahead(i)' => con'[i].host \notin Range(out')
               /\ IsInjective(out') /\ Range(out') \cap (Local \cup {pkt'.from}) = {}
               /\ Dangling(rc)' \/ \A i \in DOMAIN con' : i = c' \/ Ahead(i)' \/ Served(i)'
    <3>1. Reflecting /\ pc' = pc
      BY <2>3 DEF Reflecting
    <3>2. /\ pc # "leave" \/ rchat => c # Nil
          /\ pc # "walk" => out = << >>
          /\ c # Nil => \A i \in DOMAIN con : con[i].host = pkt.from => i = c
          /\ Dangling(rc) \/ \A i \in DOMAIN con : i = c \/ Ahead(i) \/ Served(i)
          /\ \A i \in DOMAIN con : Ahead(i) => con[i].host \notin Range(out)
          /\ IsInjective(out) /\ Range(out) \cap (Local \cup {pkt.from}) = {}
      BY <1>1, <3>1 DEF WalkInv
    <3>3. \A i \in S : Ahead(i)' => con[i].host \notin Range(out)
      BY <1>4, <1>5, <3>2
    <3>4. Dangling(rc)' \/ \A i \in S : i = c \/ Ahead(i)' \/ Served(i)'
      BY <1>4, <1>6, <1>7, <1>8, <2>1, <3>2
    <3>5. QED
      BY <1>2, <3>1, <3>2, <3>3, <3>4
  <2>4. QED
    BY <2>2, <2>3 DEF WalkInv
<1>11. QED
  BY <1>9, <1>10

(* Nothing of what HeadInv and WalkInv are about changes.                  *)
LEMMA WalkSame ==
  ASSUME ReflectInv, DOMAIN con' = DOMAIN con,
         \A i \in DOMAIN con : con'[i].host = con[i].host /\ (i # c => con'[i].bye = con[i].bye),
         UNCHANGED <<conn, pkt, rc, c, received, out>>,
         \/ pc' = pc /\ UNCHANGED rchat
         \/ Reflecting /\ Reflecting' /\ pc # "walk" /\ (pc' # "leave" \/ rchat' => c # Nil)
         \/ pc' \notin {"select", "received", "connect", "walked"} /\ ~Reflecting'
  PROVE  HeadInv' /\ WalkInv'
<1>1. ChainInv /\ HeadInv /\ WalkInv
  BY DEF ReflectInv
<1>2. \A i : (Ahead(i)' <=> Ahead(i)) /\ (i \in DOMAIN con /\ i # c => (Served(i)' <=> Served(i)))
  BY DEF Ahead, Served
<1>3. Dangling(rc)' <=> Dangling(rc)
  BY DEF Dangling
<1>4. HeadInv'
  <2> SUFFICES ASSUME pc' \in {"select", "received", "connect"}
               PROVE  /\ Unsent' /\ rc' \in 0..received'
                      /\ pc' # "select" => rc' # received'
                      /\ Dangling(rc)' \/ \A i \in DOMAIN con' : Ahead(i)'
    BY DEF HeadInv
  <2>1. pc' = pc /\ UNCHANGED rchat
    BY DEF Reflecting
  <2>2. QED
    BY <1>1, <1>2, <1>3, <2>1 DEF HeadInv, Unsent
<1>5. ReflectedToAll'
  <2> SUFFICES ASSUME pc' = "walked" PROVE ReflectedToAll'
    BY DEF ReflectedToAll
  <2>1. pc = "walked"
    BY DEF Reflecting
  <2>2. QED
    BY <1>1, <2>1 DEF WalkInv, ReflectedToAll
<1>6. ASSUME Reflecting'
      PROVE  /\ pc' # "leave" \/ rchat' => c' # Nil
             /\ pc' # "walk" => out' = << >>
             /\ c' # Nil => \A i \in DOMAIN con' : con'[i].host = pkt'.from => i = c'
             /\ \A i \in DOMAIN con' : Ahead(i)' => con'[i].host \notin Range(out')
             /\ IsInjective(out') /\ Range(out') \cap (Local \cup {pkt'.from}) = {}
             /\ Dangling(rc)' \/ \A i \in DOMAIN con' : i = c' \/ Ahead(i)' \/ Served(i)'
  <2>1. Reflecting
    BY <1>6 DEF Reflecting
  <2>2. /\ pc # "leave" \/ rchat => c # Nil
        /\ pc # "walk" => out = << >>
        /\ c # Nil => \A i \in DOMAIN con : con[i].host = pkt.from => i = c
        /\ Dangling(rc) \/ \A i \in DOMAIN con : i = c \/ Ahead(i) \/ Served(i)
        /\ \A i \in DOMAIN con : Ahead(i) => con[i].host \notin Range(out)
        /\ IsInjective(out) /\ Range(out) \cap (Local \cup {pkt.from}) = {}
    BY <1>1, <2>1 DEF WalkInv
  <2>3. (pc' # "leave" \/ rchat' => c # Nil) /\ (pc' # "walk" => out = << >>)
    BY <1>6, <2>2
  <2>4. QED
    BY <1>2, <1>3, <2>2, <2>3
<1>7. QED
  BY <1>4, <1>5, <1>6 DEF WalkInv

(* The sender is looked up: every other connection is ahead.               *)
LEMMA WalkConnect == ReflectInv /\ Connect => HeadInv' /\ WalkInv'
<1> SUFFICES ASSUME ReflectInv, Connect PROVE HeadInv' /\ WalkInv'
  OBVIOUS
<1>1. /\ ChainInv /\ pc = "connect" /\ pc' \in {"control", "leave"}
      /\ UNCHANGED <<pkt, rc, rchat, received, out>>
      /\ c = Nil /\ rchat = FALSE /\ out = << >> /\ rc # received
      /\ Dangling(rc) \/ \A i \in DOMAIN con : Ahead(i)
  BY DEF Connect, ReflectInv, HeadInv, Unsent
<1>2. conn \in Seq(Cell) /\ received \in Cell /\ received \notin DOMAIN con
  BY <1>1, ReflectConstants DEF ChainInv, TypeOK, Cell
<1>3. /\ \A i : i \notin Range(out') /\ IsInjective(out')
      /\ Range(out') \cap (Local \cup {pkt'.from}) = {}
  BY <1>1 DEF Range, IsInjective
<1>4. HeadInv' /\ ReflectedToAll'
  BY <1>1 DEF HeadInv, ReflectedToAll
<1>5. CASE UNCHANGED <<con, conn, c>> /\ pc' = "leave"
  <2>1. Dangling(rc)' \/ \A i \in DOMAIN con' : Ahead(i)'
    BY <1>1, <1>5 DEF Dangling, Ahead
  <2>2. c' = Nil /\ out' = << >> /\ rchat' = FALSE
    BY <1>1, <1>5
  <2>3. QED
    BY <1>3, <1>4, <1>5, <2>1, <2>2 DEF WalkInv
<1>6. ASSUME NEW i \in IF Known = {} THEN {received} ELSE Known,
             c' = i, DOMAIN con' = DOMAIN con \cup {i},
             \A j \in DOMAIN con : j # i => con'[j] = con[j],
             conn' = IF Known = {} THEN <<i>> \o conn ELSE conn
      PROVE  WalkInv'
  <2>1. i \in Cell /\ c' # Nil
    BY <1>1, <1>2, <1>6 DEF Known, ChainInv, TypeOK, Cell, Nil
  <2>2. \A j \in DOMAIN con' : con'[j].host = pkt'.from => j = c'
    <3> SUFFICES ASSUME NEW j \in DOMAIN con', con'[j].host = pkt'.from, j # i PROVE FALSE
      BY <1>6
    <3>1. j \in DOMAIN con /\ con[j].host = pkt.from
      BY <1>1, <1>6
    <3>2. i \in Known /\ j \in Known
      BY <1>6, <3>1 DEF Known
    <3>3. QED
      BY <3>1, <3>2 DEF Known, ReflectInv, MemberInv
  <2>3. Dangling(rc) => Dangling(rc)'
    BY <1>1, <1>2, <1>6 DEF Dangling, Known
  <2>4. \A j \in DOMAIN con : Ahead(j) => Ahead(j)'
    <3>1. CASE Known = {}
      <4>1. conn' = <<i>> \o conn
        BY <1>6, <3>1
      <4>2. /\ Len(conn') = Len(conn) + 1 /\ conn' \in Seq(Cell)
            /\ \A k \in 1..Len(conn) : conn'[k + 1] = conn[k]
        BY <1>2, <2>1, <4>1, PutInFront
      <4>3. \A k \in 1..Len(conn) : k + 1 \in 1..Len(conn')
        BY <1>2, <4>2
      <4>4. ASSUME NEW j, Before(conn, rc, j) PROVE Before(conn', rc, j)
        <5>1. PICK k, l \in 1..Len(conn) : k <= l /\ conn[k] = rc /\ conn[l] = j
          BY <1>2, <4>4 DEF Before
        <5>2. k + 1 <= l + 1 /\ conn'[k + 1] = rc /\ conn'[l + 1] = j
          BY <1>2, <4>2, <5>1
        <5>3. DOMAIN conn' = 1..Len(conn')
          BY <4>2
        <5>4. QED
          BY <4>3, <5>1, <5>2, <5>3 DEF Before
      <4>5. QED
        BY <1>1, <4>4 DEF Ahead
    <3>2. CASE Known # {}
      BY <1>1, <1>6, <3>2 DEF Ahead
    <3>3. QED
      BY <3>1, <3>2
  <2>5. Dangling(rc)' \/ \A j \in DOMAIN con' : j = c' \/ Ahead(j)'
    BY <1>1, <1>6, <2>3, <2>4
  <2>6. out' = << >>
    BY <1>1
  <2>7. QED
    BY <1>3, <1>4, <2>1, <2>2, <2>5, <2>6 DEF WalkInv
<1>7. Connect => \/ UNCHANGED <<con, conn, c>> /\ pc' = "leave"
                 \/ \E i \in IF Known = {} THEN {received} ELSE Known :
                      /\ c' = i /\ DOMAIN con' = DOMAIN con \cup {i}
                      /\ \A j \in DOMAIN con : j # i => con'[j] = con[j]
                      /\ conn' = IF Known = {} THEN <<i>> \o conn ELSE conn
  BY DEF Connect
<1>8. QED
  BY <1>4, <1>5, <1>6, <1>7

(* One connection of the reflecting loop.                                  *)
LEMMA WalkWalks == ReflectInv /\ Walk => HeadInv' /\ WalkInv'
<1> SUFFICES ASSUME ReflectInv, Walk PROVE HeadInv' /\ WalkInv'
  OBVIOUS
<1>1. ChainInv /\ pc = "walk" /\ out \in Seq(Host)
  BY DEF Walk, ReflectInv, MemberInv
<1>2. /\ c # Nil
      /\ \A i \in DOMAIN con : con[i].host = pkt.from => i = c
      /\ Dangling(rc) \/ \A i \in DOMAIN con : i = c \/ Ahead(i) \/ Served(i)
      /\ \A i \in DOMAIN con : Ahead(i) => con[i].host \notin Range(out)
      /\ IsInjective(out) /\ Range(out) \cap (Local \cup {pkt.from}) = {}
  BY <1>1 DEF ReflectInv, WalkInv, Reflecting
<1>3. CASE Undefined
  BY <1>3 DEF Undefined, HeadInv, WalkInv, Reflecting, ReflectedToAll
<1>4. CASE ~Dangling(rc)
  <2>1. UNCHANGED <<con, conn, pkt, c, rchat, received>>
    BY <1>4 DEF Walk
  <2>2. CASE rc = Nil
    <3>1. pc' = "walked" /\ UNCHANGED <<rc, out>>
      BY <1>4, <2>2 DEF Walk
    <3>2. \A i : ~Ahead(i)
      BY <1>1, <2>2, AheadIs
    <3>3. ReflectedToAll'
      BY <1>2, <1>4, <2>1, <3>1, <3>2 DEF ReflectedToAll, Served
    <3>4. QED
      BY <3>1, <3>3 DEF HeadInv, WalkInv, Reflecting
  <2>3. CASE rc # Nil
    <3>1. /\ rc \in DOMAIN con /\ pc' = "walk" /\ rc' = NextCell(rc)
          /\ out' = IF rc # c /\ ~con[rc].bye /\ con[rc].host \notin Local
                    THEN Append(out, con[rc].host) ELSE out
      BY <1>1, <1>4, <2>3 DEF Walk, Dangling
    <3>2. \A i \in DOMAIN con : Ahead(i)' <=> i # rc /\ Ahead(i)
      BY <1>1, <2>1, <3>1, NextCellIs DEF Ahead
    <3>3. Ahead(rc) /\ con[rc].host \in Host /\ con[rc].host \notin Range(out)
      BY <1>1, <1>2, <3>1, AheadIs DEF ReflectInv, MemberInv, Connection
    <3>4. /\ IsInjective(out') /\ Range(out) \subseteq Range(out')
          /\ Range(out') \subseteq Range(out) \cup {con[rc].host}
          /\ rc = c \/ con[rc].bye \/ con[rc].host \in Local \cup Range(out')
          /\ Range(out') \cap (Local \cup {pkt.from}) = {}
      <4>1. CASE rc # c /\ ~con[rc].bye /\ con[rc].host \notin Local
        <5>1. out' = Append(out, con[rc].host)
          BY <3>1, <4>1
        <5>2. IsInjective(out') /\ Range(out') = Range(out) \cup {con[rc].host}
          BY <1>1, <1>2, <3>3, <5>1, PutBehind
        <5>3. con[rc].host # pkt.from
          BY <1>2, <3>1, <4>1
        <5>4. QED
          BY <1>2, <4>1, <5>2, <5>3
      <4>2. CASE ~(rc # c /\ ~con[rc].bye /\ con[rc].host \notin Local)
        BY <1>2, <3>1, <4>2
      <4>3. QED
        BY <4>1, <4>2
    <3>5. \A i \in DOMAIN con : i = c \/ Ahead(i)' \/ Served(i)'
      <4> SUFFICES ASSUME NEW i \in DOMAIN con, i # c PROVE Ahead(i)' \/ Served(i)'
        OBVIOUS
      <4>1. CASE i = rc
        BY <2>1, <3>4, <4>1 DEF Served
      <4>2. CASE i # rc /\ Ahead(i)
        BY <3>2, <4>2
      <4>3. CASE Served(i)
        BY <2>1, <3>4, <4>3 DEF Served
      <4>4. QED
        BY <1>2, <1>4, <4>1, <4>2, <4>3
    <3>6. \A i \in DOMAIN con : Ahead(i)' => con[i].host \notin Range(out')
      <4> SUFFICES ASSUME NEW i \in DOMAIN con, Ahead(i)' PROVE con[i].host \notin Range(out')
        OBVIOUS
      <4>1. i # rc /\ Ahead(i)
        BY <3>2
      <4>2. con[i].host # con[rc].host
        BY <3>1, <4>1 DEF ReflectInv, MemberInv
      <4>3. QED
        BY <1>2, <3>4, <4>1, <4>2
    <3>7. WalkInv'
      BY <1>2, <2>1, <3>1, <3>4, <3>5, <3>6 DEF WalkInv, ReflectedToAll
    <3>8. QED
      BY <3>1, <3>7 DEF HeadInv
  <2>4. QED
    BY <2>2, <2>3
<1>5. QED
  BY <1>3, <1>4 DEF Walk

LEMMA ReflectInit == Init => ReflectInv
<1> SUFFICES ASSUME Init PROVE HeadInv /\ WalkInv
  BY MemberInit, ChainInit DEF ReflectInv
<1>1. pc = "top"
  BY DEF Init
<1>2. QED
  BY <1>1 DEF HeadInv, WalkInv, Reflecting, ReflectedToAll

LEMMA ReflectStep == ReflectInv /\ [Next]_vars => ReflectInv'
<1> SUFFICES ASSUME ReflectInv, [Next]_vars PROVE HeadInv' /\ WalkInv'
  BY MemberStep, ChainStep DEF ReflectInv
<1>0. MemberInv /\ ChainInv /\ HeadInv /\ WalkInv
  BY DEF ReflectInv
<1>a. Undefined => HeadInv' /\ WalkInv'
  BY DEF Undefined, HeadInv, WalkInv, Reflecting, ReflectedToAll
<1>1. CASE Top
  <2>1. /\ rc' = First(conn) /\ c' = Nil /\ rchat' = FALSE /\ out' = << >> /\ pc' = "select"
        /\ UNCHANGED <<con, conn, received>>
    BY <1>1 DEF Top
  <2>2. conn \in Seq(Cell) /\ Range(conn) = DOMAIN con /\ DOMAIN con \subseteq 1..received /\ received \in Nat
    BY <1>0, ReflectConstants DEF ChainInv, TypeOK
  <2>3. First(conn) \in 0..received
    <3>1. First(conn) = Nil \/ First(conn) \in Range(conn)
      BY <2>2, FirstIs
    <3>2. 1..received \subseteq 0..received /\ Nil \in 0..received
      BY <2>2 DEF Nil
    <3>3. QED
      BY <2>2, <3>1, <3>2
  <2>4. \A i \in DOMAIN con : Before(conn, First(conn), i)
    <3> SUFFICES ASSUME NEW i \in DOMAIN con PROVE Before(conn, First(conn), i)
      OBVIOUS
    <3>1. PICK l \in DOMAIN conn : conn[l] = i
      BY <2>2 DEF Range
    <3>2. 1 \in DOMAIN conn /\ 1 <= l /\ conn # << >>
      BY <2>2, <3>1
    <3>3. First(conn) = conn[1]
      BY <2>2, <3>2, FirstIs
    <3>4. QED
      BY <3>1, <3>2, <3>3 DEF Before
  <2>5. \A i \in DOMAIN con' : Ahead(i)'
    BY <2>1, <2>4 DEF Ahead
  <2>6. QED
    BY <2>1, <2>3, <2>5 DEF HeadInv, Unsent, WalkInv, Reflecting, ReflectedToAll
<1>2. ASSUME NEW h \in Host, NEW form \in Datagram, Receive(h, form) PROVE HeadInv' /\ WalkInv'
  <2>1. /\ pc = "select" /\ pc' = "received" /\ received' = received + 1
        /\ UNCHANGED <<con, conn, rc, c, rchat, out>>
    BY <1>2 DEF Receive
  <2>2. received \in Nat /\ rc \in 0..received /\ Unsent /\ (Dangling(rc) \/ \A i \in DOMAIN con : Ahead(i))
    BY <1>0, <2>1, ReflectConstants DEF HeadInv, ChainInv, TypeOK
  <2>3. rc' \in 0..received' /\ rc' # received'
    BY <2>1, <2>2
  <2>4. (Dangling(rc)' <=> Dangling(rc)) /\ \A i : Ahead(i)' <=> Ahead(i)
    BY <2>1 DEF Dangling, Ahead
  <2>5. QED
    BY <2>1, <2>2, <2>3, <2>4 DEF HeadInv, Unsent, WalkInv, Reflecting, ReflectedToAll
<1>3. CASE EnterCritical
  <2>1. pc = "received" /\ pc' = "connect" /\ UNCHANGED <<con, conn, rc, c, rchat, received, out>>
    BY <1>3 DEF EnterCritical, mainVars
  <2>2. (Dangling(rc)' <=> Dangling(rc)) /\ \A i : Ahead(i)' <=> Ahead(i)
    BY <2>1 DEF Dangling, Ahead
  <2>3. QED
    BY <1>0, <2>1, <2>2 DEF HeadInv, Unsent, WalkInv, Reflecting, ReflectedToAll
<1>4. CASE Connect
  BY <1>4, WalkConnect
<1>5. CASE DigestControl
  <2>1. /\ pc = "control" /\ pc' = "leave" /\ con' = [con EXCEPT ![c] = Digested]
        /\ UNCHANGED <<conn, pkt, rc, c, received, out>>
    BY <1>5 DEF DigestControl
  <2>2. c \in DOMAIN con /\ Digested.host = con[c].host
    BY <1>0, <2>1, DigestedIs DEF MemberInv
  <2>3. /\ DOMAIN con' = DOMAIN con
        /\ \A i \in DOMAIN con : con'[i].host = con[i].host /\ (i # c => con'[i].bye = con[i].bye)
    BY <2>1, <2>2
  <2>4. Reflecting /\ Reflecting' /\ c # Nil
    BY <1>0, <2>1 DEF Reflecting, WalkInv
  <2>5. QED
    BY <2>1, <2>3, <2>4, WalkSame
<1>6. CASE LeaveCritical \/ Retry \/ Rearm
  <2>1. UNCHANGED <<con, conn, pkt, rc, c, rchat, received, out>>
    BY <1>6 DEF LeaveCritical, Retry, Rearm, mainVars
  <2>2. /\ pc \in {"leave", "retry", "release"} /\ pc' \in {"filter", "retry", "release", "top"}
        /\ pc' = "filter" => rchat \/ c # Nil
        /\ pc' = "filter" => rchat \/ pc = "leave"
    BY <1>6 DEF LeaveCritical, Retry, Rearm, Resume
  <2>3. CASE Reflecting'
    <3>1. Reflecting
      BY <2>1, <2>2, <2>3 DEF Reflecting
    <3>2. c # Nil
      BY <1>0, <2>1, <2>2, <2>3, <3>1 DEF WalkInv, Reflecting
    <3>3. QED
      BY <2>1, <2>2, <2>3, <3>1, <3>2, WalkSame
  <2>4. CASE ~Reflecting'
    BY <2>1, <2>2, <2>4, WalkSame
  <2>5. QED
    BY <2>3, <2>4
<1>7. CASE Filter
  <2>1. CASE ~Undefined
    <3>1. /\ pc = "filter" /\ pc' \in {"top", "walk"} /\ UNCHANGED <<conn, pkt, rc, c, rchat, received, out>>
          /\ con' = [con EXCEPT ![c].protocol =
                       IF Tagged /\ @ \in {"VAT", "CRYPT"} THEN "SPEAKFREE" ELSE @]
          /\ ~Dangling(c)
      BY <1>7, <2>1 DEF Filter, mainVars
    <3>2. Reflecting /\ c # Nil /\ c \in DOMAIN con
      BY <1>0, <3>1 DEF Reflecting, WalkInv, Dangling
    <3>3. con[c] \in Connection
      BY <1>0, <3>2 DEF MemberInv
    <3>4. /\ DOMAIN con' = DOMAIN con
          /\ \A i \in DOMAIN con : con'[i].host = con[i].host /\ con'[i].bye = con[i].bye
      BY <3>1, <3>2, <3>3 DEF Connection
    <3>5. CASE pc' = "walk"
      BY <3>1, <3>2, <3>4, <3>5, WalkSame DEF Reflecting
    <3>6. CASE pc' = "top"
      BY <3>1, <3>4, <3>6, WalkSame DEF Reflecting
    <3>7. QED
      BY <3>1, <3>5, <3>6
  <2>2. QED
    BY <1>a, <2>1
<1>8. CASE Walk
  BY <1>8, WalkWalks
<1>9. CASE Finish
  <2>1. CASE ~Undefined
    <3>1. pc' = "retry" /\ rchat' = FALSE
      BY <1>9, <2>1 DEF Finish
    <3>2. QED
      BY <3>1 DEF HeadInv, WalkInv, Reflecting, ReflectedToAll
  <2>2. QED
    BY <1>a, <2>1
<1>10. CASE Sweep
  <2>1. CASE ~Undefined
    <3>1. /\ UNCHANGED <<pc, pkt, rc, c, rchat, received, out>>
          /\ \/ UNCHANGED <<con, conn>>
             \/ con' = Unlinked(rel.ptr) /\ conn' = Kept(conn, DOMAIN con \ {rel.ptr})
      BY <1>10, <2>1 DEF Sweep, mainVars
    <3>2. CASE UNCHANGED <<con, conn>>
      BY <3>1, <3>2, WalkSame
    <3>3. CASE con' = Unlinked(rel.ptr) /\ conn' = Kept(conn, DOMAIN con \ {rel.ptr})
      <4> DEFINE S == DOMAIN con \ {rel.ptr}
      <4>1. S \subseteq DOMAIN con /\ con' = [i \in S |-> con[i]] /\ conn' = Kept(conn, S)
        BY <3>3 DEF Unlinked
      <4> HIDE DEF S
      <4>2. QED
        BY <3>1, <4>1, WalkFewer
    <3>4. QED
      BY <3>1, <3>2, <3>3
  <2>2. QED
    BY <1>a, <2>1
<1>11. CASE Swept \/ Heartbeat
  <2>1. CASE ~Undefined
    <3>1. UNCHANGED <<con, conn, pc, pkt, rc, c, rchat, received, out>>
      BY <1>11, <2>1 DEF Swept, Heartbeat, mainVars
    <3>2. QED
      BY <3>1, WalkSame
  <2>2. QED
    BY <1>a, <2>1
<1>12. CASE Sigalrm
  <2>1. /\ UNCHANGED <<pkt, rc, c, rchat, received, out>>
        /\ pc' = pc \/ (pc = "select" /\ pc' = "top")
        /\ IF crit THEN Clash ELSE Release
    BY <1>12 DEF Sigalrm, mainVars
  <2>2. CASE crit
    <3>1. UNCHANGED <<con, conn>>
      BY <2>1, <2>2 DEF Clash
    <3>2. CASE pc' = pc
      BY <2>1, <3>1, <3>2, WalkSame
    <3>3. CASE pc = "select" /\ pc' = "top"
      BY <3>3 DEF HeadInv, WalkInv, Reflecting, ReflectedToAll
    <3>4. QED
      BY <2>1, <3>2, <3>3
  <2>3. CASE ~crit
    <3> DEFINE S == {i \in DOMAIN con : StillActive(i, now)}
    <3>1. S \subseteq DOMAIN con /\ con' = [i \in S |-> con[i]] /\ conn' = Kept(conn, S)
      BY <2>1, <2>3 DEF Release
    <3> HIDE DEF S
    <3>2. QED
      BY <2>1, <3>1, WalkFewer
  <2>4. QED
    BY <2>2, <2>3
<1>13. CASE Tick
  BY <1>13, WalkSame DEF Tick, mainVars
<1>14. CASE UNCHANGED vars
  BY <1>14, WalkSame DEF vars, mainVars
<1>15. QED
  BY <1>1, <1>2, <1>3, <1>4, <1>5, <1>6, <1>7, <1>8, <1>9, <1>10, <1>11,
     <1>12, <1>13, <1>14 DEF Next, MainLoop, MainRelease

LEMMA ReflectAlways == Spec => []ReflectInv
BY ReflectInit, ReflectStep, PTL DEF Spec

(* Both release()s, the one in the signal handler and the one in the main  *)
(* loop that the first may interrupt, and every insertion at the head      *)
(* leave a chain of just the allocated connections, one for each host      *)
(* (reflect.c 480-622, 982-1046), and every variable keeps its type.       *)
THEOREM ChainAlwaysIntact == Spec => []ChainIntact
<1>1. ReflectInv => ChainIntact
  BY DEF ReflectInv, ChainInv, MemberInv, ChainIntact
<1>2. QED
  BY <1>1, ReflectAlways, PTL

(* However often the chain is swept between the reading of its head and    *)
(* the end of the reflecting loop: if the loop ends, the datagram went     *)
(* once to every other member and to nobody else (reflect.c 895-905,       *)
(* 1335-1381).                                                             *)
THEOREM ReflectedToAllAlways == Spec => []ReflectedToAll
<1>1. ReflectInv => ReflectedToAll
  BY DEF ReflectInv, WalkInv
<1>2. QED
  BY <1>1, ReflectAlways, PTL

-----------------------------------------------------------------------------
(* A prompt reflector is on time.  Time passes only while it waits, until  *)
(* the timer expires, and the timer is set for Longest at most.  So a      *)
(* pending change, which was not written because the last page was less    *)
(* than HtmlTime old, is tried again at most Longest after that; and each  *)
(* datagram received puts the refresh of the LWL entry off by at most      *)
(* Longest.                                                                *)
LastPage == IF htmlLast < 0 THEN 0 ELSE htmlLast

PageInTime ==
    htmlChange /\ pc \notin {"release", "undefined"} =>
        alarm <= LastPage + HtmlTime + Longest

ListingInTime ==
    sdes => /\ lwltimer <= published + LwlRetransmit
            /\ pc # "select" => now <= lwltimer + Longest * received
            /\ alarm <= lwltimer + Longest * received + Longest

TimeInv ==
    /\ now <= alarm /\ alarm <= now + Longest
    /\ pc = "release" => rel.td = now
    /\ crit => pc \in {"connect", "control", "leave"}
    /\ PageInTime
    /\ ListingInTime

LEMMA Times ==
  /\ Longest \in Nat \ {0} /\ TickTock \in 1..Longest /\ TockTock \in 1..Longest
  /\ \A n : Step(n) \in Nat /\ 1 <= Step(n) /\ Step(n) <= Longest
  /\ \A k \in Nat : /\ Longest * k \in Nat
                    /\ Longest * (k + 1) = Longest * k + Longest
<1>1. TickTock \in Nat \ {0} /\ TockTock \in Nat \ {0}
  BY ReflectAssumption DEF ReflectAssumption
<1>2. Longest \in Nat \ {0} /\ TickTock \in 1..Longest /\ TockTock \in 1..Longest
  BY <1>1 DEF Longest
<1>3. \A n : Step(n) \in Nat /\ 1 <= Step(n) /\ Step(n) <= Longest
  BY <1>2 DEF Step
<1> HIDE DEF Longest
<1>4. \A k \in Nat : /\ Longest * k \in Nat
                     /\ Longest * (k + 1) = Longest * k + Longest
  BY <1>2
<1>5. QED
  BY <1>2, <1>3, <1>4

LEMMA Numbers ==
  ASSUME TypeOK
  PROVE  /\ now \in Nat /\ alarm \in Nat /\ published \in Nat /\ lwltimer \in Nat /\ received \in Nat
         /\ htmlLast \in Int /\ LastPage \in Nat /\ Longest * received \in Nat /\ Longest \in Nat
         /\ HtmlTime \in Nat /\ LwlRetransmit \in Nat
         /\ sdes \in BOOLEAN /\ htmlChange \in BOOLEAN
<1>1. /\ now \in Nat /\ alarm \in Nat /\ published \in Nat /\ lwltimer \in Nat
      /\ received \in 0..MaxPackets /\ htmlLast \in Int
      /\ sdes \in BOOLEAN /\ htmlChange \in BOOLEAN
  BY DEF TypeOK
<1>2. received \in Nat
  BY <1>1, ReflectConstants
<1>3. LastPage \in Nat
  BY <1>1 DEF LastPage
<1>4. QED
  BY <1>1, <1>2, <1>3, Times, ReflectConstants

(* What is still pending when the page has been tried waits for its time.  *)
LEMMA Tried ==
  ASSUME TypeOK, NEW ch, NEW cells, UpdHTML(ch, cells), htmlChange'
  PROVE  htmlLast' = htmlLast /\ now <= LastPage + HtmlTime
<1>1. htmlLast' = htmlLast /\ ~(HtmlTime <= 0 \/ now - htmlLast > HtmlTime)
  BY DEF UpdHTML
<1>2. HtmlTime \in Nat /\ htmlLast \in Int /\ now \in Nat
  BY Numbers
<1>3. QED
  BY <1>1, <1>2 DEF LastPage

LEMMA TriedInTime ==
  ASSUME TypeOK, TypeOK', NEW ch, NEW cells, UpdHTML(ch, cells), alarm' <= now + Longest
  PROVE  PageInTime'
<1> SUFFICES ASSUME htmlChange' PROVE alarm' <= LastPage' + HtmlTime + Longest
  BY DEF PageInTime
<1>1. LastPage' = LastPage /\ now <= LastPage + HtmlTime
  BY Tried DEF LastPage
<1>2. now \in Nat /\ HtmlTime \in Nat /\ Longest \in Nat /\ LastPage \in Nat
  BY Numbers
<1>3. alarm' \in Nat
  BY DEF TypeOK
<1>4. QED
  BY <1>1, <1>2, <1>3

(* A step of the main loop that leaves the times alone, and the page too,  *)
(* except in release().                                                    *)
LEMMA TimeKept ==
  ASSUME TimeInv, UNCHANGED <<now, alarm, received, sdes, lwltimer, published>>,
         pc' # "release" => UNCHANGED <<htmlChange, htmlLast>>,
         pc = "select" => pc' = "select",
         pc' \notin {"release", "undefined"} => pc \notin {"release", "undefined"},
         pc' = "release" => rel'.td = now,
         crit' => pc' \in {"connect", "control", "leave"}
  PROVE  TimeInv'
<1>1. PageInTime'
  BY DEF TimeInv, PageInTime, LastPage
<1>2. ListingInTime'
  BY DEF TimeInv, ListingInTime
<1>3. QED
  BY <1>1, <1>2 DEF TimeInv

(* The timer is set, or not, outside the wait.                             *)
LEMMA SetAgain ==
  ASSUME TypeOK, TypeOK', TimeInv, pc # "select", alarm' <= now + Longest,
         UNCHANGED <<now, received, sdes, lwltimer, published>>
  PROVE  ListingInTime'
<1> SUFFICES ASSUME sdes PROVE ListingInTime'
  BY DEF ListingInTime
<1> DEFINE M == Longest * received
<1>1. now \in Nat /\ alarm' \in Nat /\ lwltimer \in Nat /\ Longest \in Nat /\ M \in Nat
  BY Numbers DEF TypeOK
<1>2. lwltimer <= published + LwlRetransmit /\ now <= lwltimer + M
  BY DEF TimeInv, ListingInTime
<1> HIDE DEF M
<1>3. alarm' <= lwltimer + M + Longest
  BY <1>1, <1>2
<1>4. QED
  BY <1>2, <1>3 DEF ListingInTime, M

(* The refresh of the LWL entry, due or not.                               *)
LEMMA Refreshed ==
  ASSUME TypeOK, TypeOK', TimeInv, received' = received, now' = now,
         UpdLWL(now), alarm' <= now + Longest
  PROVE  ListingInTime'
<1> SUFFICES ASSUME sdes' PROVE ListingInTime'
  BY DEF ListingInTime
<1> DEFINE M == Longest * received
<1>1. /\ now \in Nat /\ alarm' \in Nat /\ published \in Nat /\ lwltimer \in Nat
      /\ LwlRetransmit \in Nat /\ Longest \in Nat /\ M \in Nat
  BY Numbers DEF TypeOK
<1>2. CASE sdes /\ now >= lwltimer
  <2>1. lwltimer' = now + LwlRetransmit /\ published' = now
    BY <1>2 DEF UpdLWL
  <2> HIDE DEF M
  <2>2. lwltimer' <= published' + LwlRetransmit /\ now <= lwltimer' + M
        /\ alarm' <= lwltimer' + M + Longest
    BY <1>1, <2>1
  <2>3. QED
    BY <2>2 DEF ListingInTime, M
<1>3. CASE ~(sdes /\ now >= lwltimer)
  <2>1. UNCHANGED <<sdes, lwltimer, published>>
    BY <1>3 DEF UpdLWL, lwlVars
  <2>2. lwltimer <= published + LwlRetransmit /\ now < lwltimer
    BY <1>1, <1>3, <2>1 DEF TimeInv, ListingInTime
  <2> HIDE DEF M
  <2>3. now <= lwltimer + M /\ alarm' <= lwltimer + M + Longest
    BY <1>1, <2>2
  <2>4. QED
    BY <2>1, <2>2, <2>3 DEF ListingInTime, M
<1>4. QED
  BY <1>2, <1>3

LEMMA TimeInit == Init => TimeInv
<1> SUFFICES ASSUME Init PROVE TimeInv
  OBVIOUS
<1>1. now = 0 /\ alarm = TockTock /\ pc = "top" /\ crit = FALSE /\ received = 0 /\ htmlLast = -(HtmlTime + 1)
      /\ lwltimer = LwlRetransmit /\ published = 0
  BY DEF Init
<1>2. Longest * 0 = 0 /\ Longest \in Nat /\ TockTock \in 1..Longest /\ HtmlTime \in Nat /\ LwlRetransmit \in Nat
  BY Times, ReflectConstants
<1>3. LastPage = 0
  BY <1>1, <1>2 DEF LastPage
<1>4. PageInTime
  BY <1>1, <1>2, <1>3 DEF PageInTime
<1>5. Longest * received = 0
  BY <1>1, <1>2
<1>6. ListingInTime
  BY <1>1, <1>2, <1>5 DEF ListingInTime
<1>7. QED
  BY <1>1, <1>2, <1>4, <1>6 DEF TimeInv

LEMMA TimeStep == ASSUME Prompt PROVE TypeOK /\ TypeOK' /\ TimeInv /\ [Next]_vars => TimeInv'
<1> SUFFICES ASSUME TypeOK, TypeOK', TimeInv, [Next]_vars PROVE TimeInv'
  OBVIOUS
<1>0. /\ {now, alarm, published, lwltimer, received, HtmlTime, LwlRetransmit, Longest} \subseteq Nat
      /\ {now', alarm', published', lwltimer', received'} \subseteq Nat
      /\ now <= alarm /\ alarm <= now + Longest
  BY ReflectConstants, Times DEF TypeOK, TimeInv
<1>a. ASSUME Undefined, pc # "select", ~crit PROVE TimeInv'
  BY <1>a, TimeKept DEF Undefined, mainVars, lwlVars, htmlVars
<1>b. pc \in {"filter", "walk", "walked", "release"} => ~crit
  BY DEF TimeInv
<1>1. CASE Top \/ EnterCritical \/ LeaveCritical
  <2>1. /\ pc \in {"top", "received", "leave"} /\ pc' \in {"select", "connect", "filter", "retry"}
        /\ UNCHANGED <<now, alarm, received, sdes, lwltimer, published, htmlChange, htmlLast>>
        /\ crit' => pc' = "connect" \/ (pc = "top" /\ crit)
    BY <1>1 DEF Top, EnterCritical, LeaveCritical, mainVars, lwlVars, htmlVars
  <2>2. pc = "top" => ~crit
    BY DEF TimeInv
  <2>3. QED
    BY <2>1, <2>2, TimeKept
<1>2. ASSUME NEW h \in Host, NEW form \in Datagram, Receive(h, form) PROVE TimeInv'
  <2>1. /\ pc = "select" /\ pc' = "received" /\ received' = received + 1
        /\ UNCHANGED <<now, alarm, crit, sdes, lwltimer, published, htmlChange, htmlLast>>
    BY <1>2 DEF Receive, lwlVars, htmlVars
  <2>2. PageInTime' /\ ~crit
    BY <2>1 DEF TimeInv, PageInTime, LastPage
  <2> DEFINE M == Longest * received
             N == Longest * received'
  <2>3. M \in Nat /\ N = M + Longest
    BY <1>0, <2>1, Times
  <2>4. sdes => lwltimer <= published + LwlRetransmit /\ alarm <= lwltimer + M + Longest
    BY DEF TimeInv, ListingInTime
  <2> HIDE DEF M, N
  <2>5. sdes => now <= lwltimer + N /\ alarm <= lwltimer + N + Longest
    BY <1>0, <2>3, <2>4
  <2>6. ListingInTime'
    BY <2>1, <2>4, <2>5 DEF ListingInTime, N
  <2>7. QED
    BY <1>0, <2>1, <2>2, <2>6 DEF TimeInv
<1>3. CASE Connect
  <2>1. /\ pc = "connect" /\ pc' \in {"control", "leave"} /\ alarm' \in {alarm, now + TickTock}
        /\ UNCHANGED <<now, crit, received, rel, sdes, lwltimer, published>>
        /\ \/ UpdHTML(TRUE, con')
           \/ UNCHANGED <<alarm, htmlChange, htmlLast>>
    <3>1. CASE MayFail /\ Known = {} /\ pc' = "leave" /\ UNCHANGED <<alarm, con, conn, c, gone, htmlVars>>
      BY <1>3, <3>1 DEF Connect, lwlVars, htmlVars
    <3>2. ASSUME NEW i \in IF Known = {} THEN {received} ELSE Known,
                 NEW old, NEW newconn, newconn = (old.timeout = -1),
                 alarm' = IF newconn /\ actives = 0 THEN now + TickTock ELSE alarm,
                 IF newconn \/ old.bye THEN UpdHTML(TRUE, con') ELSE UNCHANGED htmlVars,
                 pc' = IF pkt.form.kind \in Control THEN "control" ELSE "leave"
          PROVE  /\ pc' \in {"control", "leave"} /\ alarm' \in {alarm, now + TickTock}
                 /\ \/ UpdHTML(TRUE, con')
                    \/ UNCHANGED <<alarm, htmlChange, htmlLast>>
      BY <3>2 DEF htmlVars
    <3>3. QED
      BY <1>3, <3>1, <3>2 DEF Connect, lwlVars
  <2>2. alarm' <= now + Longest /\ now <= alarm'
    BY <1>0, <2>1, Times
  <2>3. CASE UpdHTML(TRUE, con')
    BY <2>1, <2>2, <2>3, TriedInTime, SetAgain DEF TimeInv
  <2>4. CASE UNCHANGED <<alarm, htmlChange, htmlLast>>
    BY <2>1, <2>4, TimeKept
  <2>5. QED
    BY <2>1, <2>3, <2>4
<1>4. CASE DigestControl
  <2>1. /\ pc = "control" /\ pc' = "leave" /\ UNCHANGED <<now, alarm, crit, received, sdes, lwltimer, published>>
        /\ UpdHTML(TRUE, con') \/ UNCHANGED <<htmlChange, htmlLast>>
    BY <1>4 DEF DigestControl, lwlVars, htmlVars
  <2>2. CASE UpdHTML(TRUE, con')
    BY <1>0, <2>1, <2>2, TriedInTime, SetAgain DEF TimeInv
  <2>3. CASE UNCHANGED <<htmlChange, htmlLast>>
    BY <2>1, <2>3, TimeKept
  <2>4. QED
    BY <2>1, <2>2, <2>3
<1>5. CASE Retry
  <2>1. /\ pc = "retry" /\ UNCHANGED <<now, alarm, crit, received, sdes, lwltimer, published, htmlChange, htmlLast>>
        /\ \/ pc' = "release" /\ rel'.td = now
           \/ pc' \in {"filter", "top"}
    BY <1>5 DEF Retry, Resume, mainVars, lwlVars, htmlVars
  <2>2. ~crit
    BY <2>1 DEF TimeInv
  <2>3. QED
    BY <2>1, <2>2, TimeKept
<1>6. CASE (Filter \/ Walk \/ Finish) /\ ~Undefined
  <2>1. /\ pc \in {"filter", "walk", "walked"} /\ pc' \in {"top", "walk", "walked", "retry"}
        /\ UNCHANGED <<now, alarm, received, sdes, lwltimer, published, htmlChange, htmlLast>>
        /\ crit' => crit
    BY <1>6 DEF Filter, Walk, Finish, mainVars, lwlVars, htmlVars
  <2>2. QED
    BY <1>b, <2>1, TimeKept
<1>7. CASE (Sweep \/ Heartbeat) /\ ~Undefined
  <2>1. /\ pc = "release" /\ pc' = pc /\ rel'.td = rel.td
        /\ UNCHANGED <<now, alarm, crit, received, sdes, lwltimer, published>>
    BY <1>7 DEF Sweep, Heartbeat, mainVars, lwlVars, htmlVars, TypeOK
  <2>2. rel.td = now
    BY <2>1 DEF TimeInv
  <2>3. QED
    BY <1>b, <2>1, <2>2, TimeKept
<1>8. CASE Swept
  <2>1. /\ pc = "release" /\ pc' = pc /\ rel'.td = rel.td /\ UpdLWL(rel.td)
        /\ UNCHANGED <<now, alarm, crit, received>>
    BY <1>8 DEF Swept, mainVars, TypeOK
  <2>2. rel.td = now
    BY <2>1 DEF TimeInv
  <2>3. ListingInTime'
    BY <1>0, <2>1, <2>2, Refreshed
  <2>4. PageInTime'
    BY <2>1 DEF PageInTime
  <2>5. QED
    BY <1>0, <1>b, <2>1, <2>2, <2>3, <2>4 DEF TimeInv
<1>9. CASE Rearm
  <2>1. /\ pc = "release" /\ pc' \in {"filter", "top"} /\ alarm' = now + Step(actives) /\ UpdHTML(htmlChange, con)
        /\ UNCHANGED <<now, crit, received, sdes, lwltimer, published>>
    BY <1>9 DEF Rearm, Resume, mainVars, lwlVars
  <2>2. now <= alarm' /\ alarm' <= now + Longest
    BY <1>0, <2>1, Times
  <2>3. PageInTime' /\ ListingInTime'
    BY <2>1, <2>2, TriedInTime, SetAgain
  <2>4. QED
    BY <1>b, <2>1, <2>2, <2>3 DEF TimeInv
<1>10. CASE Sigalrm
  <2>1. /\ now = alarm /\ UNCHANGED <<now, crit, rel, received>>
        /\ pc' = pc \/ (pc = "select" /\ pc' = "top")
        /\ IF crit THEN Clash ELSE Release
    BY <1>0, <1>10 DEF Sigalrm, mainVars
  <2>2. now <= alarm' /\ alarm' <= now + Longest
    <3>1. \E n \in 1..Longest : alarm' = now + n
      BY <2>1, Times DEF Clash, Release
    <3>2. QED
      BY <1>0, <3>1
  <2>3. PageInTime'
    <3>1. \E ch, cells : UpdHTML(ch, cells)
      BY <2>1 DEF Clash, Release
    <3>2. QED
      BY <2>2, <3>1, TriedInTime
  <2>4. ListingInTime'
    <3>1. CASE crit
      <4>1. pc # "select" /\ UNCHANGED <<sdes, lwltimer, published>>
        BY <2>1, <3>1 DEF Clash, TimeInv, lwlVars
      <4>2. QED
        BY <2>1, <2>2, <4>1, SetAgain
    <3>2. CASE ~crit
      BY <2>1, <2>2, <3>2, Refreshed DEF Release
    <3>3. QED
      BY <3>1, <3>2
  <2>5. crit' => pc' \in {"connect", "control", "leave"}
    BY <2>1 DEF TimeInv
  <2>6. pc' = "release" => rel'.td = now'
    BY <2>1 DEF TimeInv
  <2>7. QED
    BY <2>1, <2>2, <2>3, <2>4, <2>5, <2>6 DEF TimeInv
<1>11. CASE Tick
  <2>1. /\ pc = "select" /\ pc' = pc /\ now < alarm /\ now' = now + 1
        /\ UNCHANGED <<alarm, crit, received, sdes, lwltimer, published, htmlChange, htmlLast>>
    BY <1>11 DEF Tick, mainVars, lwlVars, htmlVars
  <2>2. PageInTime' /\ ListingInTime' /\ ~crit
    BY <2>1 DEF TimeInv, PageInTime, ListingInTime, LastPage
  <2>3. QED
    BY <1>0, <2>1, <2>2 DEF TimeInv
<1>12. CASE UNCHANGED vars
  BY <1>12 DEF vars, mainVars, lwlVars, htmlVars, TimeInv, PageInTime, ListingInTime, LastPage
<1>13. Filter \/ Walk \/ Finish \/ Sweep \/ Heartbeat => pc \in {"filter", "walk", "walked", "release"}
  BY DEF Filter, Walk, Finish, Sweep, Heartbeat
<1>14. QED
  BY <1>a, <1>b, <1>1, <1>2, <1>3, <1>4, <1>5, <1>6, <1>7, <1>8, <1>9, <1>10, <1>11,
     <1>12, <1>13 DEF Next, MainLoop, MainRelease

(* A reflector that keeps up with the clock writes a pending change to the *)
(* page at most HtmlTime and one timer period after the last page, and,    *)
(* while it publishes itself, refreshes its LWL entry at most one timer    *)
(* period for each datagram received later than LwlRetransmit (reflect.c   *)
(* 433-464, 474-479, 517-524, 603-622, 1017-1024).                         *)
THEOREM OnTimeAlways == ASSUME Prompt PROVE Spec => []OnTime
<1>1. ReflectInv => TypeOK /\ ReflectedToAll
  BY DEF ReflectInv, ChainInv, WalkInv
<1>2. TypeOK /\ TimeInv => PageFresh /\ ListingFresh
  <2> SUFFICES ASSUME TypeOK, TimeInv PROVE PageFresh /\ ListingFresh
    OBVIOUS
  <2> DEFINE M == Longest * received
  <2>1. /\ now \in Nat /\ alarm \in Nat /\ published \in Nat /\ lwltimer \in Nat /\ HtmlTime \in Nat
        /\ LwlRetransmit \in Nat /\ Longest \in Nat /\ M \in Nat /\ LastPage \in Nat
        /\ Longest * (received + 1) = M + Longest
    BY Numbers, Times
  <2>2. now <= alarm /\ PageInTime /\ ListingInTime
    BY DEF TimeInv
  <2>3. PageFresh
    BY <2>1, <2>2 DEF PageInTime, PageFresh, LastPage
  <2>4. sdes => lwltimer <= published + LwlRetransmit /\ alarm <= lwltimer + M + Longest
    BY <2>2 DEF ListingInTime
  <2> HIDE DEF M
  <2>5. sdes => now <= published + LwlRetransmit + (M + Longest)
    BY <2>1, <2>2, <2>4
  <2>6. QED
    BY <2>1, <2>3, <2>5 DEF ListingFresh
<1>3. TimeInv /\ TypeOK /\ TypeOK' /\ [Next]_vars => TimeInv'
  BY TimeStep
<1>4. Spec => []TimeInv
  BY <1>1, <1>3, TimeInit, ReflectAlways, PTL DEF Spec
<1>5. QED
  BY <1>1, <1>2, <1>4, ReflectAlways, PTL DEF OnTime
=============================================================================
