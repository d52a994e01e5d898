----------------------------- MODULE LwlThreads -----------------------------
(***************************************************************************)
(* The threads inside one Look Who's Listening server (src/lwld.c, built   *)
(* with THREADS): the main loop that accepts connections, one service      *)
(* thread for each, the table of them (ballOstring, under bsLock), the     *)
(* time-out thread that kills those older than ServiceThreadTimeout with   *)
(* SIGUSR1, its handler killserv(), and the lock of the forwarding queues. *)
(*                                                                         *)
(* A handler runs on top of the thread it interrupts, wherever that stands *)
(* and whatever it has locked.  accept() gives the lowest free descriptor  *)
(* and close() closes a number, whoever owns it now.  The critical         *)
(* sections of the main loop and of the time-out thread are one step each: *)
(* no handler runs on these threads.  What a message says and does is in   *)
(* LwlServers.                                                             *)
(***************************************************************************)
EXTENDS Naturals, FiniteSets

CONSTANTS
    Client,         \* connections that are made, one message each
    Silent,         \* those that connect and never write
    Fd,             \* descriptors left to the process for connections
    None

ASSUME ThreadsAssumption ==
    /\ Silent \subseteq Client
    /\ Fd \subseteq Nat /\ None \notin Client \cup Nat

VARIABLES
    main,       \* what the main loop does: [pc, c]
    pc,         \* client |-> where its service thread stands
    handler,    \* client |-> where killserv() stands on top of it, or "no"
    signal,     \* the threads SIGUSR1 is pending for
    bsLock,     \* who holds it: a client's thread or None
    table,      \* the entries of the ballOstring table
    known,      \* those whose thread number is set: it is -1 before
    old,        \* those that were accepted more than a minute ago
    fwdLock,    \* who holds fwdlistLock
    sock,       \* client |-> sa_csock
    open,       \* descriptor |-> the client it is connected to, or None
    crashed     \* the process died

tableVars == <<table, known, old, bsLock, signal>>
fdVars == <<sock, open>>
threadsVars == <<main, pc, handler, signal, bsLock, table, known, old, fwdLock,
                 sock, open, crashed>>

Idle == [pc |-> "accept", c |-> None]

(* The pcs of a thread that runs. *)
Running == {"start", "recv", "forward", "queueing", "close",
            "lock", "dechain", "leave"}

Step(c, from, to) ==
    /\ pc[c] = from /\ handler[c] = "no"
    /\ pc' = [pc EXCEPT ![c] = to]

Closed(fd) == [open EXCEPT ![fd] = None]

ThreadsInit ==
    /\ main = Idle
    /\ pc = [c \in Client |-> "backlog"] /\ handler = [c \in Client |-> "no"]
    /\ signal = {} /\ table = {} /\ known = {} /\ old = {}
    /\ bsLock = None /\ fwdLock = None
    /\ sock = [c \in Client |-> None] /\ open = [d \in Fd |-> None]
    /\ crashed = FALSE

-----------------------------------------------------------------------------
(* The main loop. *)

(* When no memory is left for the request it is closed at once. *)
Accept(c) ==
    /\ main = Idle /\ pc[c] = "backlog"
    /\ \E d \in Fd :
         /\ open[d] = None /\ \A o \in Fd : open[o] = None => d <= o
         /\ \/ /\ main' = [pc |-> "insert", c |-> c]
               /\ pc' = [pc EXCEPT ![c] = "accepted"]
               /\ sock' = [sock EXCEPT ![c] = d]
               /\ open' = [open EXCEPT ![d] = c]
            \/ /\ pc' = [pc EXCEPT ![c] = "gone"]
               /\ UNCHANGED <<main, fdVars>>
    /\ UNCHANGED <<handler, tableVars, fwdLock, crashed>>

Insert ==
    /\ main.pc = "insert" /\ bsLock = None
    /\ main' = [main EXCEPT !.pc = "create"]
    /\ table' = table \cup {main.c}
    /\ UNCHANGED <<pc, handler, signal, bsLock, known, old, fwdLock, fdVars,
                   crashed>>

(* A thread that cannot be created leaves its entry in the table. *)
Create ==
    /\ main.pc = "create" /\ main' = Idle
    /\ \/ /\ pc' = [pc EXCEPT ![main.c] = "start"]
          /\ UNCHANGED open
       \/ /\ pc' = [pc EXCEPT ![main.c] = "failed"]
          /\ open' = Closed(sock[main.c])
    /\ UNCHANGED <<handler, tableVars, fwdLock, sock, crashed>>

-----------------------------------------------------------------------------
(* A service thread. *)

Begin(c) ==
    /\ Step(c, "start", "recv")
    /\ known' = known \cup {c}
    /\ UNCHANGED <<main, handler, signal, bsLock, table, old, fwdLock,
                   fdVars, crashed>>

(* It is an announcement, or a query, answered at once, or refused. *)
Receive(c) ==
    /\ c \notin Silent
    /\ \E to \in {"forward", "close"} : Step(c, "recv", to)
    /\ UNCHANGED <<main, handler, tableVars, fwdLock, fdVars, crashed>>

(* The descriptor was closed, or is another's: recv() fails, or what it    *)
(* reads is refused.                                                       *)
ReceiveNothing(c) ==
    /\ Step(c, "recv", "close") /\ open[sock[c]] # c
    /\ UNCHANGED <<main, handler, tableVars, fwdLock, fdVars, crashed>>

Forward(c) ==
    /\ fwdLock = None /\ Step(c, "forward", "queueing") /\ fwdLock' = c
    /\ UNCHANGED <<main, handler, tableVars, fdVars, crashed>>

Queue(c) ==
    /\ Step(c, "queueing", "close") /\ fwdLock' = None
    /\ UNCHANGED <<main, handler, tableVars, fdVars, crashed>>

(* sa_csock keeps the number that is closed here. *)
Close(c) ==
    /\ Step(c, "close", "lock") /\ open' = Closed(sock[c])
    /\ UNCHANGED <<main, handler, tableVars, fwdLock, sock, crashed>>

TakeLock(c) ==
    /\ bsLock = None /\ Step(c, "lock", "dechain") /\ bsLock' = c
    /\ UNCHANGED <<main, handler, signal, table, known, old, fwdLock,
                   fdVars, crashed>>

Dechain(c) ==
    /\ Step(c, "dechain", "leave") /\ bsLock' = None
    /\ table' = table \ {c}
    /\ UNCHANGED <<main, handler, signal, known, old, fwdLock, fdVars, crashed>>

Leave(c) ==
    /\ Step(c, "leave", "gone")
    /\ UNCHANGED <<main, handler, tableVars, fwdLock, fdVars, crashed>>

-----------------------------------------------------------------------------
(* The time-out thread and killserv(). *)

Age(c) ==
    /\ c \in table \ old /\ old' = old \cup {c}
    /\ UNCHANGED <<main, pc, handler, signal, bsLock, table, known,
                   fwdLock, fdVars, crashed>>

(* pthread_kill() with thread number -1: an error, or the end. *)
ScanAll ==    \* mutant: the age is not compared
    /\ bsLock = None
    /\ signal' = signal \cup (table \cap known)
    /\ crashed' \in {FALSE, ~(table \subseteq known)}
    /\ UNCHANGED <<main, pc, handler, bsLock, table, known, old, fwdLock,
                   fdVars>>
Scan ==
    /\ bsLock = None
    /\ signal' = signal \cup (table \cap old \cap known)
    /\ crashed' \in {FALSE, ~(table \cap old \subseteq known)}
    /\ UNCHANGED <<main, pc, handler, bsLock, table, known, old, fwdLock,
                   fdVars>>

(* SIGUSR1 reaches a thread that still runs; the handler asks for bsLock. *)
Interrupt(c) ==
    /\ c \in signal /\ signal' = signal \ {c}
    /\ handler[c] = "no"
    /\ handler' = [handler EXCEPT ![c] = IF pc[c] \in Running THEN "lock"
                                                              ELSE "no"]
    /\ UNCHANGED <<main, pc, bsLock, table, known, old, fwdLock, fdVars,
                   crashed>>

HandlerLock(c) ==
    /\ handler[c] = "lock" /\ bsLock = None /\ bsLock' = c
    /\ handler' = [handler EXCEPT ![c] = "search"]
    /\ UNCHANGED <<main, pc, signal, table, known, old, fwdLock, fdVars,
                   crashed>>

HandlerSearchOnly(c) ==    \* mutant: the entry stays in the table
    /\ handler[c] = "search" /\ bsLock' = None
    /\ handler' = [handler EXCEPT ![c] = IF c \in table THEN "close" ELSE "no"]
    /\ UNCHANGED <<main, pc, signal, table, known, old, fwdLock, fdVars,
                   crashed>>

(* A thread that is not in the table any more goes on where it was. *)
HandlerSearch(c) ==
    /\ handler[c] = "search" /\ bsLock' = None
    /\ table' = table \ {c}
    /\ handler' = [handler EXCEPT ![c] = IF c \in table THEN "close" ELSE "no"]
    /\ UNCHANGED <<main, pc, signal, known, old, fwdLock, fdVars, crashed>>

HandlerCloseNot(c) ==    \* mutant: the descriptor is forgotten
    /\ handler[c] = "close"
    /\ handler' = [handler EXCEPT ![c] = "no"]
    /\ pc' = [pc EXCEPT ![c] = "gone"]
    /\ UNCHANGED <<main, tableVars, fwdLock, fdVars, crashed>>

(* The thread ends, with whatever else it has locked. *)
HandlerClose(c) ==
    /\ handler[c] = "close"
    /\ handler' = [handler EXCEPT ![c] = "no"]
    /\ pc' = [pc EXCEPT ![c] = "gone"]
    /\ open' = Closed(sock[c])
    /\ UNCHANGED <<main, tableVars, fwdLock, sock, crashed>>

-----------------------------------------------------------------------------
MainLoop == Insert \/ Create \/ \E c \in Client : Accept(c)
Service(c) ==
    \/ Begin(c) \/ Receive(c) \/ Forward(c) \/ Queue(c)
    \/ Close(c) \/ TakeLock(c) \/ Dechain(c) \/ Leave(c)
Killserv(c) == HandlerLock(c) \/ HandlerSearch(c) \/ HandlerClose(c)

ThreadsNext ==
    /\ ~crashed
    /\ \/ MainLoop \/ Scan
       \/ \E c \in Client : \/ Service(c) \/ ReceiveNothing(c)
                            \/ Age(c) \/ Interrupt(c) \/ Killserv(c)

ThreadsSpec == ThreadsInit /\ [][ThreadsNext]_threadsVars

(* The scheduler runs every thread, time passes, a signal is delivered. *)
Fairness ==
    /\ WF_threadsVars(~crashed /\ MainLoop)
    /\ WF_threadsVars(~crashed /\ Scan)
    /\ \A c \in Client : /\ WF_threadsVars(~crashed /\ Age(c))
                         /\ WF_threadsVars(~crashed /\ Interrupt(c))
                         /\ WF_threadsVars(~crashed /\ Service(c))
                         /\ WF_threadsVars(~crashed /\ Killserv(c))
FairThreadsSpec == ThreadsSpec /\ Fairness

-----------------------------------------------------------------------------
(* Every variable has its type, and the table holds just the threads that  *)
(* may have to be killed, and those that were never made: nobody is freed  *)
(* twice or forgotten, whenever SIGUSR1 arrives.                           *)
TableExact ==
    /\ main \in [pc: {"accept", "insert", "create"}, c: Client \cup {None}]
    /\ handler \in [Client -> {"no", "lock", "search", "close"}]
    /\ {bsLock, fwdLock} \subseteq Client \cup {None}
    /\ sock \in [Client -> Fd \cup {None}]
    /\ open \in [Fd -> Client \cup {None}]
    /\ signal \cup known \cup old \subseteq Client
    /\ \A c \in Client :
         c \in table <=> \/ main = [pc |-> "create", c |-> c]
                        \/ pc[c] = "failed"
                        \/ /\ pc[c] \in Running \ {"leave"}
                           /\ handler[c] # "close"

(* The server locks itself up when killserv() interrupts a thread that     *)
(* holds bsLock (at its very end, or inside killserv()), and may die when  *)
(* it kills a thread that has not begun or could not be created.           *)
Wrecked == crashed \/ \E c \in Client : bsLock = c /\ handler[c] = "lock"

(* Both need a client that took longer than ServiceThreadTimeout; while    *)
(* all are in time, every thread is left alone: its descriptor is its own, *)
(* and a lock belongs to a thread that runs.                               *)
HarmlessInTime ==
    old = {} =>
      /\ ~Wrecked /\ signal = {} /\ \A c \in Client : handler[c] = "no"
      /\ \A c \in Client :
           pc[c] \in Running \ {"lock", "dechain", "leave"} => open[sock[c]] = c
      /\ {bsLock, fwdLock} \subseteq {c \in Client : pc[c] \in Running} \cup {None}

(* "If a client connected to sflwld but never wrote anything ... accept()s *)
(* would start to fail" (log.doc:1743): with the time-out, everybody who   *)
(* connects is served or turned away, however few descriptors there are    *)
(* and also when a killed thread keeps fwdlistLock, unless it is Wrecked.  *)
Served ==
    \A c \in Client :
      pc[c] = "backlog" ~> Wrecked \/ pc[c] \in {"gone", "failed"}
=============================================================================
