--------------------------- MODULE VoiceOnDemand ---------------------------
(***************************************************************************)
(* sfvod, the voice on demand server (src/sfvod.pl): it listens to control *)
(* packets and plays a recording to whoever calls, with one sfmike for     *)
(* each host, or live sound with one sfmike for all hosts.                 *)
(*                                                                         *)
(* Perl runs the handlers of SIGCHLD (Reaper) and SIGALRM (Tick) between   *)
(* two statements of the main program, which is one step for each          *)
(* statement that a handler can tell apart.  A name that is not in a table *)
(* of Perl reads as undef: hosts{h} is then Undef, timer{p} is 0.          *)
(***************************************************************************)
EXTENDS Naturals, FiniteSets, SequencesExt

CONSTANTS
    Host,           \* hosts that call
    Pid,            \* process numbers; those of processes reaped come again
    Undef,          \* undef, or -1 in lchild
    HostTimeout,    \* -t, in ticks of 10 seconds
    MaxCalls,       \* bound: calls made in all
    MayFail         \* whether fork() may fail

ASSUME VodAssumption ==
    /\ Undef \notin Pid /\ IsFiniteSet(Host) /\ IsFiniteSet(Pid) /\ Host # {}
    /\ HostTimeout \in Nat \ {0} /\ MaxCalls \in Nat
    /\ MayFail \in BOOLEAN

VARIABLES
    live,       \* -a: live sound to all instead of a recording to each
    calls,      \* the hosts whose users are connected: they send IDs
    made,       \* calls made so far, for the bound
    net,        \* datagrams under way: <<"ID" or "BYE", host>>
    main,       \* the next statement, and the host and child it is about
    tables,     \* children, timer and hosts
    lchild,     \* the sfmike of live sound
    proc,       \* process |-> free, runs, told (SIGINT sent) or zombie
    to,         \* process |-> the hosts on its command line
    mishap,     \* what went wrong for the tables, in the names of Mishap
    astray      \* a signal was sent to what is not that host's sfmike

world == <<calls, made, net>>
history == <<mishap, astray>>
vodVars == <<live, calls, made, net, main, tables, lchild, proc, to,
          mishap, astray>>

(* lost: a child's end was seen before the child was recorded.  raced: a   *)
(* handler changed the entry of a host whose packet was being handled.     *)
(* reused: a child has the number of one that ended and whose host is      *)
(* still in the tables, which go by process numbers.                       *)
Mishap == {"lost", "raced", "reused"}
Noted(name, test) == mishap' = IF test THEN mishap \cup {name} ELSE mishap

At(pc, h, p) == [pc |-> pc, host |-> h, child |-> p]
Select == At("select", CHOOSE h \in Host : TRUE, Undef)
Dead == At("dead", CHOOSE h \in Host : TRUE, Undef)

ChildOf(h) == IF h \in DOMAIN tables.hosts THEN tables.hosts[h] ELSE Undef
TimerOf(p) == IF p \in DOMAIN tables.timer THEN tables.timer[p] ELSE 0

Empty == [x \in {} |-> x]

(* Assignment to an entry of a table, and delete.                          *)
Assigned(t, x, y) == [k \in DOMAIN t \cup {x} |-> IF k = x THEN y ELSE t[k]]
Deleted(t, x) == Restrict(t, DOMAIN t \ {x})

(* The timer is 0 while sfmike runs, and then the age of what came last.   *)
Now == 1

VodInit ==
    /\ live \in BOOLEAN
    /\ calls = {} /\ made = 0 /\ net = {}
    /\ main = Select
    /\ tables = [children |-> Empty, timer |-> Empty, hosts |-> Empty]
    /\ lchild = Undef
    /\ proc = [p \in Pid |-> "free"] /\ to = [p \in Pid |-> {}]
    /\ mishap = {} /\ astray = FALSE

-----------------------------------------------------------------------------
(* The callers: an ID every few seconds while a user is connected, a BYE   *)
(* at the end unless the machine or its network is gone.  A datagram that  *)
(* is lost is one that is not sent; the network delivers in any order.     *)

Connect(h) ==
    /\ h \notin calls /\ made < MaxCalls
    /\ calls' = calls \cup {h} /\ made' = made + 1
    /\ UNCHANGED <<live, net, main, tables, lchild, proc, to, history>>

Identify(h) ==
    /\ h \in calls
    /\ net' = net \cup {<<"ID", h>>}
    /\ UNCHANGED <<live, calls, made, main, tables, lchild, proc, to,
                   history>>

HangUp(h) ==
    /\ h \in calls
    /\ calls' = calls \ {h}
    /\ net' \in {net, net \cup {<<"BYE", h>>}}
    /\ UNCHANGED <<live, made, main, tables, lchild, proc, to, history>>

-----------------------------------------------------------------------------
(* Processes.  Started is fork(): a child with the hosts of its command    *)
(* line.  The server takes an undefined result for 0 and becomes the       *)
(* sfmike itself when fork() fails.                                        *)

Started(p, hs) ==
    /\ proc[p] = "free"
    /\ proc' = [proc EXCEPT ![p] = "runs"]
    /\ to' = [to EXCEPT ![p] = hs]

NoFork ==
    /\ MayFail
    /\ main' = Dead
    /\ UNCHANGED <<proc, to>>

(* kill('INT', p); without a process it is the server's own group.         *)
Interrupt(p) ==
    proc' = [q \in Pid |-> IF proc[q] = "runs" /\ p \in {q, Undef}
                           THEN "told" ELSE proc[q]]

(* An sfmike ends when its file is played, when told to, when sound fails. *)
Ends(p) ==
    /\ proc[p] \in {"runs", "told"}
    /\ proc' = [proc EXCEPT ![p] = "zombie"]
    /\ UNCHANGED <<live, world, main, tables, lchild, to, history>>

-----------------------------------------------------------------------------
(* The main program. *)

(* Mutant of Closeout: the host stays. *)
CloseoutChild(t, h) ==
    LET ch == IF h \in DOMAIN t.hosts THEN t.hosts[h] ELSE Undef
    IN [t EXCEPT !.children = Deleted(@, ch), !.timer = Deleted(@, ch)]

(* closeout(h): the tables without h and its child, whichever that is now. *)
Closeout(t, h) ==
    LET ch == IF h \in DOMAIN t.hosts THEN t.hosts[h] ELSE Undef
    IN [children |-> Deleted(t.children, ch), timer |-> Deleted(t.timer, ch),
        hosts |-> Deleted(t.hosts, h)]

(* A packet is received.  From a host whose child is known it is a BYE, or *)
(* keeps the host; from any other it starts the sound, whatever it says.   *)
Receive(d) ==
    LET h == d[2]
        kept == TimerOf(ChildOf(h)) = 0
    IN  /\ main.pc = "select"
        /\ main' = CASE ChildOf(h) = Undef -> At("start", h, Undef)
                     [] ChildOf(h) # Undef /\ d[1] = "BYE" ->
                          At("bye", h, Undef)
                     [] OTHER -> IF kept THEN Select ELSE At("stay", h, Undef)
        /\ net' = net \ {d}
        /\ UNCHANGED <<live, calls, made, tables, lchild, proc, to, history>>

Stay ==
    /\ main.pc = "stay" /\ main' = Select
    /\ tables' = [tables EXCEPT !.timer = Assigned(@, ChildOf(main.host), Now)]
    /\ UNCHANGED <<live, world, lchild, proc, to, history>>

Bye ==
    /\ main.pc = "bye"
    /\ LET plays == ~live /\ TimerOf(ChildOf(main.host)) = 0
       IN  main' = [main EXCEPT !.pc = IF plays THEN "kill" ELSE "close"]
    /\ UNCHANGED <<live, world, tables, lchild, proc, to, history>>

Kill ==
    LET p == ChildOf(main.host)
    IN  /\ main.pc = "kill"
        /\ Interrupt(p)
        /\ main' = IF p = Undef THEN Dead ELSE [main EXCEPT !.pc = "close"]
        /\ astray' = (astray \/ p = Undef
                           \/ proc[p] = "free" \/ to[p] # {main.host})
        /\ UNCHANGED <<live, world, tables, lchild, to, mishap>>

Close ==
    /\ main.pc = "close"
    /\ tables' = Closeout(tables, main.host)
    /\ main' = [main EXCEPT !.pc = "update"]
    /\ UNCHANGED <<live, world, lchild, proc, to, history>>

(* With live sound no child is started here, and $child stays undefined.   *)
Start ==
    /\ main.pc = "start"
    /\ \/ /\ live
          /\ main' = [main EXCEPT !.pc = "record"]
          /\ UNCHANGED <<proc, to, mishap>>
       \/ /\ ~live
          /\ \E p \in Pid : /\ Started(p, {main.host})
                            /\ main' = At("record", main.host, p)
                            /\ Noted("reused", p \in DOMAIN tables.timer)
       \/ ~live /\ NoFork /\ UNCHANGED mishap
    /\ UNCHANGED <<live, world, tables, lchild, astray>>

Record ==
    /\ main.pc = "record"
    /\ tables' = [children |-> Assigned(tables.children, main.child, main.host),
                  timer |-> Assigned(tables.timer, main.child, 0),
                  hosts |-> Assigned(tables.hosts, main.host, main.child)]
    /\ main' = At("update", main.host, Undef)
    /\ UNCHANGED <<live, world, lchild, proc, to, history>>

(* updlive(): an sfmike that plays live sound is told to end, and Reaper   *)
(* will start the next; without one it is started for all hosts.           *)
Update ==
    /\ main.pc = "update"
    /\ \/ /\ ~live \/ (lchild = Undef /\ DOMAIN tables.hosts = {})
          /\ main' = Select /\ UNCHANGED <<proc, to>>
       \/ /\ live /\ lchild # Undef
          /\ main' = [main EXCEPT !.pc = "kill live"] /\ UNCHANGED <<proc, to>>
       \/ /\ live /\ lchild = Undef /\ DOMAIN tables.hosts # {}
          /\ \/ \E p \in Pid : /\ Started(p, DOMAIN tables.hosts)
                               /\ main' = At("record live", main.host, p)
             \/ NoFork
    /\ UNCHANGED <<live, world, tables, lchild, history>>

(* Mutant of KillLive: the sfmike that plays is left alone. *)
KillLiveNot ==
    /\ main.pc = "kill live" /\ main' = Select
    /\ UNCHANGED <<live, world, tables, lchild, proc, to, history>>

KillLive ==
    /\ main.pc = "kill live"
    /\ Interrupt(lchild)
    /\ main' = IF lchild = Undef THEN Dead ELSE Select
    /\ astray' = (astray \/ lchild = Undef \/ proc[lchild] = "free")
    /\ UNCHANGED <<live, world, tables, lchild, to, mishap>>

RecordLive ==
    /\ main.pc = "record live"
    /\ lchild' = main.child /\ main' = Select
    /\ UNCHANGED <<live, world, tables, proc, to, history>>

-----------------------------------------------------------------------------
(* The handlers. *)

(* SIGCHLD: all that ended are waited for.  The timer of a host starts     *)
(* when its child ends; live sound goes on with a new child for all.       *)
Reaper ==
    LET ended == {p \in Pid : proc[p] = "zombie"}
        left == [p \in Pid |-> IF p \in ended THEN "free" ELSE proc[p]]
        none == [p \in Pid |-> IF p \in ended THEN {} ELSE to[p]]
        again == live /\ lchild \in ended /\ DOMAIN tables.hosts # {}
    IN  /\ main.pc # "dead" /\ ended # {}
        /\ tables' = [tables EXCEPT !.timer =
             [p \in DOMAIN @ |-> IF p \in ended THEN Now ELSE @[p]]]
        /\ mishap' = mishap \cup
             (IF main.child \in ended THEN {"lost"} ELSE {}) \cup
             (IF main.pc = "kill" /\ ChildOf(main.host) \in ended
              THEN {"raced"} ELSE {})
        /\ \/ /\ ~again
              /\ lchild' = IF live /\ lchild \in ended THEN Undef ELSE lchild
              /\ proc' = left /\ to' = none /\ UNCHANGED main
           \/ /\ again
              /\ \E p \in Pid :
                   /\ left[p] = "free" /\ lchild' = p
                   /\ proc' = [left EXCEPT ![p] = "runs"]
                   /\ to' = [none EXCEPT ![p] = DOMAIN tables.hosts]
              /\ UNCHANGED main
           \/ again /\ NoFork /\ lchild' = Undef
        /\ UNCHANGED <<live, world, astray>>

(* Mutant of Expired: a timer of 0 is taken for a time. *)
ExpiredAtOnce(t, p) ==
    p \in DOMAIN t.timer /\ (t.timer[p] = 0 \/ t.timer[p] - Now > HostTimeout)

(* SIGALRM, every 10 seconds: hosts that were not heard for HostTimeout    *)
(* since their sfmike ended are forgotten.                                 *)
Expired(t, p) ==
    /\ p \in DOMAIN t.timer /\ t.timer[p] # 0
    /\ t.timer[p] - Now > HostTimeout

Aged(t) ==
    [t EXCEPT !.timer = [p \in DOMAIN @ |->
       IF p \in DOMAIN t.children /\ @[p] # 0 THEN @[p] + 1 ELSE @[p]]]

(* The children are looked at in the order in which keys() returns them.   *)
Checked(t, p) == IF Expired(t, p) THEN Closeout(t, t.children[p]) ELSE t
Scanned(t, order) ==
    LET after[k \in 0..Len(order)] ==
          IF k = 0 THEN t ELSE Checked(after[k - 1], order[k])
    IN  after[Len(order)]

Tick ==
    /\ main.pc # "dead"
    /\ \E order \in SetToSeqs(DOMAIN tables.children) :
         tables' = Scanned(Aged(tables), order)
    /\ Noted("raced",
         /\ main.pc \in {"stay", "bye", "kill", "close"}
         /\ main.host \in DOMAIN tables.hosts \ DOMAIN tables'.hosts)
    /\ UNCHANGED <<live, world, main, lchild, proc, to, astray>>

-----------------------------------------------------------------------------
Main == \/ \E d \in net : Receive(d)
        \/ Stay \/ Bye \/ Kill \/ Close
        \/ Start \/ Record \/ Update \/ KillLive \/ RecordLive

VodNext == \/ \E h \in Host : Connect(h) \/ Identify(h) \/ HangUp(h)
        \/ \E p \in Pid : Ends(p)
        \/ Main \/ Reaper \/ Tick

VodSpec == VodInit /\ [][VodNext]_vodVars

(* The server runs, its signals are delivered, the alarm goes off, and an  *)
(* sfmike that was told to end does, as does one that plays a recording.   *)
VodFairness == /\ WF_vodVars(Main) /\ WF_vodVars(Reaper) /\ WF_vodVars(Tick)
            /\ \A p \in Pid : WF_vodVars(Ends(p) /\ (~live \/ proc[p] = "told"))

FairVodSpec == VodSpec /\ VodFairness

-----------------------------------------------------------------------------
(* Every variable has its type. *)
TablesOK ==
    /\ live \in BOOLEAN /\ calls \subseteq Host /\ made \in 0..MaxCalls
    /\ net \subseteq {"ID", "BYE"} \X Host
    /\ main.host \in Host /\ main.child \in Pid \cup {Undef}
    /\ DOMAIN tables.children \subseteq DOMAIN tables.timer
    /\ DOMAIN tables.timer \subseteq Pid \cup {Undef}
    /\ DOMAIN tables.hosts \subseteq Host
    /\ Range(tables.hosts) \subseteq Pid \cup {Undef}
    /\ lchild \in Pid \cup {Undef}
    /\ proc \in [Pid -> {"free", "runs", "told", "zombie"}]
    /\ to \in [Pid -> SUBSET Host]
    /\ mishap \subseteq Mishap /\ astray \in BOOLEAN

(* A host is played to once at a time: every sfmike that runs and was not  *)
(* told to end is, in all three tables, the one its host has               *)
(* (sfvod.pl:302-317).  SIGINT goes to the sfmike of the host that said    *)
(* BYE, or of live sound, and never to a process number that was reaped,   *)
(* perhaps another's by now, nor to the server itself (sfvod.pl:229, 439). *)
(* So it is until the first of the mishaps.                                *)
Recorded(p) ==
    /\ p \in DOMAIN tables.children /\ tables.timer[p] = 0
    /\ LET h == tables.children[p]
       IN  to[p] = {h} /\ h \in DOMAIN tables.hosts /\ tables.hosts[h] = p
OneForEach ==
    /\ TablesOK
    /\ mishap = {} =>
         /\ ~astray
         /\ \A p \in Pid :
              proc[p] = "runs" /\ ~live /\ main.child # p => Recorded(p)

(* Whoever is away for good is played to no more and forgotten, BYE or no  *)
(* BYE (sfvod.1, -p and -t), whatever its late packets started again.      *)
(* Holds for recordings; for live sound see the README.                    *)
Away(h) ==
    /\ h \notin DOMAIN tables.hosts
    /\ \A p \in Pid : proc[p] # "free" => h \notin to[p]
Released ==
    \A h \in Host : <>[](h \notin calls) =>
      <>[]Away(h) \/ <>(live \/ mishap # {} \/ main.pc = "dead")

(* Live sound gets to every host that called, however many call while      *)
(* sfmike is being told to end and started again (sfvod.pl:365-367, 434).  *)
LiveReaches ==
    \A h \in Host : live /\ h \in DOMAIN tables.hosts ~>
      \/ \E p \in Pid : proc[p] = "runs" /\ h \in to[p]
      \/ mishap # {} \/ main.pc = "dead"
=============================================================================
