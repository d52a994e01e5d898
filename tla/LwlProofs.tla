------------------------------ MODULE LwlProofs ------------------------------
(***************************************************************************)
(* Proofs about the Look Who's Listening server: about LwlServers for any  *)
(* number of speakers and servers and any forward lists, in circles too;   *)
(* and about the threads inside one server, LwlThreads, for any number of  *)
(* connections and descriptors.                                            *)
(***************************************************************************)
EXTENDS LwlServers, LwlThreads, ChainsProofs

-----------------------------------------------------------------------------
(* The threads of one server. *)

Place == {"backlog", "accepted", "failed", "gone"} \cup Running

(* What makes TableExact inductive: the main loop works on a connection it *)
(* accepted, a handler runs on a thread, and the table holds connections.  *)
PlaceInv ==
    /\ pc \in [Client -> Place]
    /\ table \subseteq Client
    /\ main.pc = "accept" => main = Idle
    /\ main.pc # "accept" => main.c \in Client /\ pc[main.c] = "accepted"
    /\ \A c \in Client : handler[c] # "no" => pc[c] \in Running

TableInv == TableExact /\ PlaceInv

Attached == {"accepted"} \cup (Running \ {"lock", "dechain", "leave"})

(* What makes HarmlessInTime inductive: as long as nobody is late, each    *)
(* lock is held where the code takes it.                                   *)
CalmInv ==
    old = {} =>
      /\ ~crashed /\ signal = {} /\ \A c \in Client : handler[c] = "no"
      /\ \A c \in Client : pc[c] \in Attached =>
           sock[c] \in Fd /\ open[sock[c]] = c
      /\ \A c \in Client : bsLock = c => pc[c] = "dechain"
      /\ \A c \in Client : fwdLock = c => pc[c] = "queueing"

-----------------------------------------------------------------------------
(* The table invariant holds of an empty server. *)
LEMMA TableInit == ThreadsInit => TableInv
  BY ThreadsAssumption DEF ThreadsInit, TableInv, TableExact, PlaceInv,
      Idle, Place, Running

(* Every step keeps it. *)
LEMMA TableStep == TableInv /\ [ThreadsNext]_threadsVars => TableInv'
<1> SUFFICES ASSUME TableInv, [ThreadsNext]_threadsVars PROVE TableInv'
  OBVIOUS
<1> USE ThreadsAssumption DEF TableInv, TableExact, PlaceInv, Place, Running
<1>1. ASSUME NEW c \in Client, Accept(c) PROVE TableInv'
  <2>1. CASE UNCHANGED <<main, fdVars>> /\ pc' = [pc EXCEPT ![c] = "gone"]
    BY <1>1, <2>1 DEF Accept, Idle, tableVars, fdVars
  <2>2. ASSUME NEW d \in Fd, sock' = [sock EXCEPT ![c] = d],
               open' = [open EXCEPT ![d] = c],
               main' = [pc |-> "insert", c |-> c],
               pc' = [pc EXCEPT ![c] = "accepted"]
        PROVE  TableInv'
    <3>1. sock' \in [Client -> Fd \cup {None}] /\ open' \in [Fd -> Client \cup {None}]
      BY <2>2
    <3>2. PlaceInv'
      BY <1>1, <2>2 DEF Accept, Idle, tableVars
    <3>3. TableExact'
      BY <1>1, <2>2, <3>1 DEF Accept, Idle, tableVars
    <3>4. QED
      BY <3>2, <3>3
  <2>3. QED
    BY <1>1, <2>1, <2>2 DEF Accept
<1>2. CASE Insert
  BY <1>2 DEF Insert, fdVars
<1>3. CASE Create
  BY <1>3 DEF Create, Closed, Idle, tableVars
<1>4. CASE Scan
  BY <1>4 DEF Scan, fdVars
<1>5. ASSUME NEW c \in Client, Receive(c) PROVE TableInv'
  BY <1>5 DEF Receive, Step, tableVars, fdVars
<1>6. ASSUME NEW c \in Client, ReceiveNothing(c) PROVE TableInv'
  BY <1>6 DEF ReceiveNothing, Step, tableVars, fdVars
<1>7. ASSUME NEW c \in Client, Begin(c) PROVE TableInv'
  BY <1>7 DEF Begin, Step, tableVars, fdVars
<1>8. ASSUME NEW c \in Client, Forward(c) PROVE TableInv'
  BY <1>8 DEF Forward, Step, tableVars, fdVars
<1>9. ASSUME NEW c \in Client, Queue(c) PROVE TableInv'
  BY <1>9 DEF Queue, Step, tableVars, fdVars
<1>10. ASSUME NEW c \in Client, Close(c) PROVE TableInv'
  <2>1. open' \in [Fd -> Client \cup {None}]
    BY <1>10 DEF Close, Closed
  <2>2. PlaceInv'
    BY <1>10 DEF Close, Step, tableVars
  <2>3. TableExact'
    BY <1>10, <2>1 DEF Close, Step, tableVars
  <2>4. QED
    BY <2>2, <2>3
<1>11. ASSUME NEW c \in Client, TakeLock(c) PROVE TableInv'
  BY <1>11 DEF TakeLock, Step, tableVars, fdVars
<1>12. ASSUME NEW c \in Client, Dechain(c) PROVE TableInv'
  BY <1>12 DEF Dechain, Step, tableVars, fdVars
<1>13. ASSUME NEW c \in Client, Leave(c) PROVE TableInv'
  BY <1>13 DEF Leave, Step, tableVars, fdVars
<1>14. ASSUME NEW c \in Client, Age(c) PROVE TableInv'
  BY <1>14 DEF Age, tableVars, fdVars
<1>15. ASSUME NEW c \in Client, Interrupt(c) PROVE TableInv'
  BY <1>15 DEF Interrupt, tableVars, fdVars
<1>16. ASSUME NEW c \in Client, HandlerLock(c) PROVE TableInv'
  BY <1>16 DEF HandlerLock, tableVars, fdVars
<1>17. ASSUME NEW c \in Client, HandlerSearch(c) PROVE TableInv'
  BY <1>17 DEF HandlerSearch, tableVars, fdVars
<1>18. ASSUME NEW c \in Client, HandlerClose(c) PROVE TableInv'
  BY ZenonT(40), <1>18 DEF HandlerClose, Closed, tableVars,
      fdVars
<1>19. CASE UNCHANGED threadsVars
  BY <1>19 DEF threadsVars, tableVars, fdVars
<1>20. QED
  BY <1>1, <1>2, <1>3, <1>4, <1>5, <1>6, <1>7, <1>8, <1>9, <1>10, <1>11,
      <1>12, <1>13, <1>14, <1>15, <1>16, <1>17, <1>18, <1>19 DEF ThreadsNext,
          MainLoop, Service, Killserv

(* The table of requests always holds just the threads that may have to be *)
(* killed: neither the end of a thread nor killserv() frees an entry twice *)
(* or leaves one behind, in whatever order they reach it                   *)
(* (lwld.c 1571-1640).                                                     *)
THEOREM TableCorrect == ThreadsSpec => []TableExact
<1>1. TableInv => TableExact
  BY DEF TableInv
<1>2. QED
  BY <1>1, TableInit, TableStep, PTL DEF ThreadsSpec

(* The calm invariant holds at the start, and says what is claimed.        *)
LEMMA CalmInit == ThreadsInit => CalmInv
  BY ThreadsAssumption DEF ThreadsInit, CalmInv, Attached, Running

LEMMA CalmImplies == TableInv /\ CalmInv => HarmlessInTime
<1> SUFFICES ASSUME TableInv, CalmInv, old = {} PROVE HarmlessInTime
  BY DEF HarmlessInTime
<1>1. ~Wrecked /\ signal = {} /\ \A c \in Client : handler[c] = "no"
  BY DEF CalmInv, Wrecked
<1>2. \A c \in Client :
        pc[c] \in Running \ {"lock", "dechain", "leave"} => open[sock[c]] = c
  BY DEF CalmInv, Attached
<1>3. {bsLock, fwdLock} \subseteq {c \in Client : pc[c] \in Running} \cup {None}
  <2>1. bsLock \in Client \cup {None} /\ fwdLock \in Client \cup {None}
    BY DEF TableInv, TableExact
  <2>2. \A c \in Client : (bsLock = c => pc[c] \in Running)
                          /\ (fwdLock = c => pc[c] \in Running)
    BY DEF CalmInv, Running
  <2>3. QED
    BY <2>1, <2>2
<1>4. QED
  BY <1>1, <1>2, <1>3 DEF HarmlessInTime

(* As long as nobody is late every step keeps it; a step that makes        *)
(* somebody late has nothing to keep.                                      *)
LEMMA CalmStep ==
  TableInv /\ CalmInv /\ [ThreadsNext]_threadsVars => CalmInv'
<1> SUFFICES ASSUME TableInv, CalmInv, [ThreadsNext]_threadsVars, old' = {} PROVE CalmInv'
  BY DEF CalmInv
<1>1. old = {}
  BY DEF ThreadsNext, MainLoop, Service, Killserv, Accept,
      Insert, Create, Scan,
         Receive, ReceiveNothing, Begin, Forward, Queue,
       Close, TakeLock,
         Dechain, Leave, Age, Interrupt, HandlerLock,
       HandlerSearch,
         HandlerClose, tableVars, threadsVars
<1>2. /\ ~crashed /\ signal = {} /\ \A c \in Client : handler[c] = "no"
      /\ \A c \in Client : pc[c] \in Attached =>
           sock[c] \in Fd /\ open[sock[c]] = c
      /\ \A c \in Client : bsLock = c => pc[c] = "dechain"
      /\ \A c \in Client : fwdLock = c => pc[c] = "queueing"
  BY <1>1 DEF CalmInv
<1>3. /\ pc \in [Client -> Place] /\ sock \in [Client -> Fd \cup {None}]
      /\ open \in [Fd -> Client \cup {None}] /\ None \notin Client
      /\ main.pc # "accept" => main.c \in Client /\ pc[main.c] = "accepted"
  BY ThreadsAssumption DEF TableInv, TableExact, PlaceInv
<1> USE DEF CalmInv, Attached, Place, Running
<1>4. ASSUME NEW c \in Client, Accept(c) PROVE CalmInv'
  <2>1. CASE UNCHANGED <<main, fdVars>> /\ pc' = [pc EXCEPT ![c] = "gone"]
    BY <1>2, <1>3, <1>4, <2>1 DEF Accept, Idle, tableVars,
        fdVars
  <2>2. ASSUME NEW d \in Fd, open[d] = None, sock' = [sock EXCEPT ![c] = d],
               open' = [open EXCEPT ![d] = c],
               pc' = [pc EXCEPT ![c] = "accepted"]
        PROVE  CalmInv'
    <3>1. ASSUME NEW x \in Client, pc'[x] \in Attached
          PROVE  sock'[x] \in Fd /\ open'[sock'[x]] = x
      BY <1>2, <1>3, <2>2, <3>1
    <3>2. UNCHANGED <<handler, bsLock, fwdLock, signal, crashed>> /\ pc[c] = "backlog"
      BY <1>4 DEF Accept, tableVars
    <3>3. QED
      BY <1>2, <1>3, <2>2, <3>1, <3>2
  <2>3. QED
    BY <1>4, <2>1, <2>2 DEF Accept
<1>5. CASE Insert
  BY <1>2, <1>5 DEF Insert, fdVars
<1>6. ASSUME NEW c \in Client, pc[c] \in {"accepted", "close"},
             \E p \in {"failed", "lock"} : pc' = [pc EXCEPT ![c] = p],
             open' = Closed(sock[c]),
             UNCHANGED <<handler, tableVars, fwdLock, sock, crashed>>
      PROVE  CalmInv'
  <2>1. ASSUME NEW x \in Client, pc'[x] \in Attached
        PROVE  sock'[x] \in Fd /\ open'[sock'[x]] = x
    BY <1>2, <1>3, <1>6, <2>1 DEF Closed
  <2>2. QED
    BY <1>2, <1>3, <1>6, <2>1 DEF tableVars
<1>7. CASE Create
  <2>1. CASE pc' = [pc EXCEPT ![main.c] = "start"] /\ UNCHANGED open
    BY <1>2, <1>3, <1>7, <2>1 DEF Create, tableVars
  <2>2. QED
    BY <1>3, <1>6, <1>7, <2>1 DEF Create
<1>8. ASSUME NEW c \in Client, Close(c) PROVE CalmInv'
  BY <1>6, <1>8 DEF Close, Step
<1>9. CASE Scan
  BY <1>1, <1>2, <1>9 DEF Scan, fdVars
<1>10. ASSUME NEW c \in Client, Age(c) PROVE CalmInv'
  BY <1>10 DEF Age
<1>11. ASSUME NEW c \in Client, Interrupt(c) PROVE CalmInv'
  BY <1>2, <1>11 DEF Interrupt
<1>12. ASSUME NEW c \in Client, Killserv(c) PROVE CalmInv'
  BY <1>2, <1>12 DEF Killserv, HandlerLock, HandlerSearch,
      HandlerClose
<1>13. ASSUME NEW c \in Client, Receive(c) PROVE CalmInv'
  BY <1>2, <1>3, <1>13 DEF Receive, Step, tableVars, fdVars
<1>14. ASSUME NEW c \in Client, ReceiveNothing(c) PROVE CalmInv'
  BY <1>2, <1>3, <1>14 DEF ReceiveNothing, Step, tableVars,
      fdVars
<1>15. ASSUME NEW c \in Client, Begin(c) PROVE CalmInv'
  BY <1>2, <1>3, <1>15 DEF Begin, Step, tableVars, fdVars
<1>16. ASSUME NEW c \in Client, Forward(c) PROVE CalmInv'
  BY <1>2, <1>3, <1>16 DEF Forward, Step, tableVars, fdVars
<1>17. ASSUME NEW c \in Client, Queue(c) PROVE CalmInv'
  BY <1>2, <1>3, <1>17 DEF Queue, Step, tableVars, fdVars
<1>18. ASSUME NEW c \in Client, TakeLock(c) PROVE CalmInv'
  BY <1>2, <1>3, <1>18 DEF TakeLock, Step, tableVars, fdVars
<1>19. ASSUME NEW c \in Client, Dechain(c) PROVE CalmInv'
  BY <1>2, <1>3, <1>19 DEF Dechain, Step, tableVars, fdVars
<1>20. ASSUME NEW c \in Client, Leave(c) PROVE CalmInv'
  BY <1>2, <1>3, <1>20 DEF Leave, Step, tableVars, fdVars
<1>21. CASE UNCHANGED threadsVars
  BY <1>2, <1>21 DEF threadsVars
<1>22. QED
  BY <1>4, <1>5, <1>7, <1>8, <1>9, <1>10, <1>11, <1>12, <1>13, <1>14, <1>15,
      <1>16, <1>17, <1>18, <1>19, <1>20, <1>21 DEF ThreadsNext, MainLoop,
          Service

(* Closing descriptors twice, holding a lock for ever, killing a thread by *)
(* a number it has not got and locking up in killserv() all need a client  *)
(* that was late (lwld.c 1500-1532, 1558-1639): however many connect and   *)
(* whichever calls fail, while nobody is, each thread has its own          *)
(* descriptor and a lock belongs to a thread that runs.                    *)
THEOREM HarmlessWhileInTime == ThreadsSpec => []HarmlessInTime
<1>1. ThreadsSpec => [](TableInv /\ CalmInv)
  BY TableInit, TableStep, CalmInit, CalmStep, PTL DEF ThreadsSpec
<1>2. QED
  BY <1>1, CalmImplies, PTL

-----------------------------------------------------------------------------
(* The servers. *)

Speaking == [up: BOOLEAN, ssrc: Ssrc, bye: BOOLEAN, due: Nat, since: Nat]

(* A queue that is not too long, and what waits in it came from a speaker. *)
Bounded(q) ==
    /\ q \in Seq(Message)
    /\ Len(q) <= ForwarderMaxQ + 1
    /\ \A i \in 1..Len(q) : q[i].hops = 0

(* What makes NoLoop and QueueBounded inductive. *)
QueueInv ==
    /\ now \in Nat
    /\ user \in [User -> Speaking]
    /\ net \subseteq Connection
    /\ queue \in [Server -> [Server -> Seq(Message)]]
    /\ \A s, t \in Server : Bounded(queue[s][t])

LoopInv == QueueInv /\ NoLoop

LEMMA BoundedEmpty == Bounded(<< >>)
  BY LwlAssumption DEF LwlAssumption, Bounded

LEMMA BoundedAppend ==
  ASSUME NEW q, Bounded(q), Len(q) <= ForwarderMaxQ,
         NEW m \in Message, m.hops = 0
  PROVE  Bounded(Append(q, m))
<1>1. ForwarderMaxQ \in Nat
  BY LwlAssumption DEF LwlAssumption
<1>2. Append(q, m) \in Seq(Message) /\ Len(Append(q, m)) = Len(q) + 1
  BY DEF Bounded
<1>3. \A i \in 1..Len(q) + 1 : Append(q, m)[i] = IF i = Len(q) + 1 THEN m ELSE q[i]
  BY DEF Bounded
<1>4. QED
  BY <1>1, <1>2, <1>3 DEF Bounded

LEMMA BoundedTail ==
  ASSUME NEW q, Bounded(q), q # << >>
  PROVE  Bounded(Tail(q)) /\ Head(q) \in Message /\ Head(q).hops = 0
<1>1. ForwarderMaxQ \in Nat
  BY LwlAssumption DEF LwlAssumption
<1>2. Len(q) \in Nat /\ Len(q) > 0 /\ q \in Seq(Message) /\ Head(q) = q[1]
  BY DEF Bounded
<1>3. Tail(q) \in Seq(Message) /\ Len(Tail(q)) = Len(q) - 1
  BY <1>2
<1>4. \A i \in 1..Len(q) - 1 : Tail(q)[i] = q[i + 1]
  BY <1>2
<1>5. QED
  BY <1>1, <1>2, <1>3, <1>4 DEF Bounded

LEMMA LoopInit == Init => LoopInv
<1> SUFFICES ASSUME Init PROVE LoopInv
  OBVIOUS
<1>1. UNION Range(Draws) \subseteq Ssrc
  BY LwlAssumption DEF LwlAssumption, Range
<1>2. user \in [User -> Speaking]
  <2>1. ASSUME NEW x \in UNION Range(Draws)
        PROVE  [up |-> FALSE, ssrc |-> x, bye |-> FALSE, due |-> 0, since |-> 0]
                 \in Speaking
    BY <1>1 DEF Speaking
  <2> HIDE DEF Speaking
  <2>2. QED
    BY <2>1 DEF Init
<1>3. \A s, t \in Server : Bounded(queue[s][t])
  BY BoundedEmpty DEF Init
<1>4. queue \in [Server -> [Server -> Seq(Message)]]
  BY DEF Init
<1>5. QED
  BY <1>2, <1>3, <1>4 DEF Init, LoopInv, QueueInv, NoLoop

(* What a speaker sends comes from no server.                              *)
LEMMA CallSends ==
  ASSUME LoopInv, NEW u \in User, NEW k \in Kind, NEW x \in Ssrc, NEW h,
         Call(u, k, x, h)
  PROVE  net' \subseteq Connection /\ NoLoop'
<1>1. \A c \in net' \ net : c \in Connection /\ c.msg.hops = 0
  <2>1. ASSUME NEW t \in Range(Tells[u])
        PROVE  t \in Server
    BY <2>1, LwlAssumption DEF LwlAssumption, Range
  <2>2. QED
    BY <2>1 DEF Call, Connection, Message
<1>2. QED
  BY <1>1 DEF LoopInv, QueueInv, NoLoop

(* Only what is not forwarded is queued, and it stays within the bound.    *)
LEMMA RelayQueues ==
  ASSUME LoopInv, NEW s \in Server, NEW to, NEW m \in Message,
         to # {} => m.hops = 0, Relay(s, to, m)
  PROVE  /\ queue' \in [Server -> [Server -> Seq(Message)]]
         /\ \A a, b \in Server : Bounded(queue'[a][b])
<1>1. ASSUME NEW a \in Server, NEW b \in Server
      PROVE  queue'[a][b] = IF a = s /\ b \in to THEN Queued(queue[a][b], m)
                                                ELSE queue[a][b]
  BY <1>1 DEF Relay, LoopInv, QueueInv
<1>2. ASSUME NEW a \in Server, NEW b \in Server
      PROVE  Bounded(queue'[a][b])
  <2>1. Bounded(queue[a][b])
    BY DEF LoopInv, QueueInv
  <2>2. CASE a = s /\ b \in to /\ ~(Len(queue[a][b]) > ForwarderMaxQ)
    <3>1. m.hops = 0 /\ queue'[a][b] = Append(queue[a][b], m)
      BY <1>1, <2>2 DEF Queued
    <3>2. Len(queue[a][b]) <= ForwarderMaxQ
      BY <2>1, <2>2, LwlAssumption DEF LwlAssumption, Bounded
    <3>3. QED
      BY <2>1, <3>1, <3>2, BoundedAppend
  <2>3. CASE ~(a = s /\ b \in to /\ ~(Len(queue[a][b]) > ForwarderMaxQ))
    BY <1>1, <2>1, <2>3 DEF Queued
  <2>4. QED
    BY <2>2, <2>3
<1>3. queue' = [a \in Server |-> [b \in Server |-> queue'[a][b]]]
  BY DEF Relay, LoopInv, QueueInv
<1>4. QED
  BY <1>2, <1>3 DEF Bounded

LEMMA LoopStep == LoopInv /\ [Next]_vars => LoopInv'
<1> SUFFICES ASSUME LoopInv, [Next]_vars PROVE LoopInv'
  OBVIOUS
<1>0. \A v \in User : user[v].ssrc \in Ssrc /\ user[v] \in Speaking
  BY DEF LoopInv, QueueInv, Speaking
<1>1. ASSUME NEW u \in User, Start(u) PROVE LoopInv'
  <2>1. PICK x \in Draws[u] :
          /\ user' = [user EXCEPT ![u] = [up |-> TRUE, ssrc |-> x, bye |-> FALSE,
                        due |-> now + Retransmit, since |-> now]]
          /\ Call(u, "SDES", x, [s \in Server |-> 0])
    BY <1>1 DEF Start
  <2>2. x \in Ssrc /\ now + Retransmit \in Nat /\ now \in Nat
    BY LwlAssumption DEF LwlAssumption, LoopInv, QueueInv
  <2>3. user' \in [User -> Speaking]
    BY <2>1, <2>2 DEF Speaking, LoopInv, QueueInv
  <2>4. QED
    BY <1>1, <2>1, <2>2, <2>3, CallSends
       DEF Start, serverVars, Kind, LoopInv, QueueInv
<1>2. ASSUME NEW u \in User, Refresh(u) PROVE LoopInv'
  <2>1. now + Retransmit \in Nat
    BY LwlAssumption DEF LwlAssumption, LoopInv, QueueInv
  <2>2. user' \in [User -> Speaking]
    BY <1>0, <1>2, <2>1 DEF Refresh, Speaking, LoopInv, QueueInv
  <2>3. QED
    BY <1>0, <1>2, <2>2, CallSends
       DEF Refresh, serverVars, Kind, LoopInv, QueueInv
<1>3. ASSUME NEW u \in User, Exit(u) PROVE LoopInv'
  <2>1. user' \in [User -> Speaking]
    BY ZenonT(40), <1>0, <1>3 DEF Exit, Speaking, LoopInv, QueueInv
  <2>2. QED
    BY <1>0, <1>3, <2>1, CallSends
       DEF Exit, serverVars, Kind, LoopInv, QueueInv
<1>4. ASSUME NEW u \in User, Vanish(u) PROVE LoopInv'
  <2>1. user' \in [User -> Speaking]
    BY <1>0, <1>4 DEF Vanish, Speaking, LoopInv, QueueInv
  <2>2. QED
    BY <1>4, <2>1 DEF Vanish, serverVars, LoopInv, QueueInv, NoLoop
<1>5. ASSUME NEW s \in Server, Sweep(s) PROVE LoopInv'
  BY <1>5 DEF Sweep, userVars, LoopInv, QueueInv, NoLoop
<1>6. ASSUME NEW s \in Server, Crash(s) PROVE LoopInv'
  <2>1. queue' \in [Server -> [Server -> Seq(Message)]]
    BY <1>6 DEF Crash, LoopInv, QueueInv
  <2>2. \A a, b \in Server : queue'[a][b] \in {<< >>, queue[a][b]}
    BY <1>6 DEF Crash, LoopInv, QueueInv
  <2>3. \A a, b \in Server : Bounded(queue'[a][b])
    BY <2>2, BoundedEmpty DEF LoopInv, QueueInv
  <2>4. QED
    BY <1>6, <2>1, <2>3 DEF Crash, userVars, LoopInv, QueueInv, NoLoop
<1>7. ASSUME NEW s \in Server, Restart(s) PROVE LoopInv'
  BY <1>7 DEF Restart, userVars, LoopInv, QueueInv, NoLoop
<1>8. ASSUME NEW s \in Server, NEW t \in Forwards[s], Pass(s, t) PROVE LoopInv'
  <2>1. t \in Server /\ Bounded(queue[s][t]) /\ queue[s][t] # << >>
    BY <1>8, LwlAssumption DEF LwlAssumption, Pass, LoopInv, QueueInv
  <2>2. /\ Head(queue[s][t]) \in Message /\ Head(queue[s][t]).hops = 0
        /\ Bounded(Tail(queue[s][t]))
    BY <2>1, BoundedTail
  <2>3. net' \subseteq Connection /\ NoLoop'
    <3> DEFINE m == [Head(queue[s][t]) EXCEPT !.hops = @ + 1]
    <3>1. m \in Message /\ m.hops = 1
      BY <2>2 DEF Message
    <3>2. net' = net \cup {[to |-> t, msg |-> m]}
      BY <1>8 DEF Pass
    <3> HIDE DEF m
    <3>3. QED
      BY <2>1, <3>1, <3>2 DEF LoopInv, QueueInv, NoLoop, Connection
  <2>4. queue' \in [Server -> [Server -> Seq(Message)]]
    BY <1>8, <2>1, <2>2 DEF Pass, Bounded, LoopInv, QueueInv
  <2>5. \A a, b \in Server : queue'[a][b] = IF a = s /\ b = t THEN Tail(queue[s][t])
                                                             ELSE queue[a][b]
    BY <1>8, <2>1 DEF Pass, LoopInv, QueueInv
  <2>6. \A a, b \in Server : Bounded(queue'[a][b])
    BY <2>2, <2>5 DEF LoopInv, QueueInv
  <2>7. QED
    BY <1>8, <2>3, <2>4, <2>6 DEF Pass, userVars, LoopInv, QueueInv
<1>9. ASSUME NEW c \in net, Serve(c) PROVE LoopInv'
  <2> DEFINE to == IF IsForwarded(c.msg) THEN {} ELSE Forwards[c.to]
  <2>1. c \in Connection /\ c.msg \in Message /\ c.to \in Server
    BY DEF LoopInv, QueueInv, Connection
  <2>2. to # {} => c.msg.hops = 0
    BY <2>1 DEF IsForwarded, Message
  <2>3. Relay(c.to, to, c.msg)
    BY <1>9 DEF Serve, Handle
  <2> HIDE DEF to
  <2>4. QED
    BY <1>9, <2>1, <2>2, <2>3, RelayQueues
       DEF Serve, Handle, userVars, LoopInv, QueueInv, NoLoop
<1>10. CASE Tick
  BY <1>10 DEF Tick, userVars, serverVars, LoopInv, QueueInv, NoLoop
<1>11. CASE UNCHANGED vars
  BY <1>11 DEF vars, userVars, serverVars, LoopInv, QueueInv, NoLoop
<1>12. QED
  BY <1>1, <1>2, <1>3, <1>4, <1>5, <1>6, <1>7, <1>8, <1>9, <1>10, <1>11
     DEF Next, Speaker, Sflwld

LEMMA LoopAlways == Spec => []LoopInv
  BY LoopInit, LoopStep, PTL DEF Spec

(* However the servers forward to each other, in circles too, and whatever *)
(* they lose, no message is passed on twice (lwld.c 1018-1035).            *)
THEOREM NeverLoops == Spec => []NoLoop
<1>1. LoopInv => NoLoop
  BY DEF LoopInv
<1>2. QED
  BY <1>1, LoopAlways, PTL

(* No queue ever holds more than ForwarderMaxQ + 1 messages, for any       *)
(* ForwarderMaxQ and any traffic (lwld.c 655-683).                         *)
THEOREM QueuesBounded == Spec => []QueueBounded
<1>1. LoopInv => QueueBounded
  BY DEF LoopInv, QueueInv, Bounded, QueueBounded
<1>2. QED
  BY <1>1, LoopAlways, PTL

-----------------------------------------------------------------------------
(* The chain of a server is a directory: no name stands twice in it. *)

OneEach(chain) ==
    /\ chain \in Seq(Entry)
    /\ \A i, j \in 1..Len(chain) : chain[i].name = chain[j].name => i = j

LEMMA ChainEmpty == OneEach(<< >>) /\ Range(<< >>) = {}
  BY DEF OneEach, Range

(* An announcement takes the place of its name, or is put in front.        *)
LEMMA AnnouncedIs ==
  ASSUME now \in Nat, NEW chain, OneEach(chain), NEW m \in Message
  PROVE  /\ OneEach(Announced(chain, m))
         /\ Range(Announced(chain, m)) =
              {o \in Range(chain) : o.name # m.name}
                \cup {[name |-> m.name, ssrc |-> m.ssrc, ltime |-> now]}
<1> DEFINE e == [name |-> m.name, ssrc |-> m.ssrc, ltime |-> now]
           I == {i \in 1..Len(chain) : chain[i].name = m.name}
           n == Len(chain)
           k == Min(I)
<1>1. e \in Entry /\ e.name = m.name
  BY DEF Entry, Message
<1>2. n \in Nat /\ chain \in [1..n -> Entry] /\ DOMAIN chain = 1..n
  BY DEF OneEach
<1>3. Announced(chain, m) = IF (IF I # {} THEN k ELSE 0) = 0 THEN <<e>> \o chain
                            ELSE [chain EXCEPT ![IF I # {} THEN k ELSE 0] = e]
  BY DEF Announced, SelectInSeq, ReplaceAt
<1>4. I # {} => k \in I
  <2>1. I \in SUBSET Nat
    BY <1>2
  <2> HIDE DEF I
  <2>2. QED
    BY <2>1, MinIsFirst
<1> HIDE DEF e, k
<1>5. CASE I = {}
  <2>1. Announced(chain, m) = <<e>> \o chain
    BY <1>3, <1>5
  <2>2. <<e>> \in Seq(Entry) /\ Len(<<e>>) = 1 /\ <<e>>[1] = e /\ chain \in Seq(Entry)
    BY <1>1 DEF OneEach
  <2> DEFINE c == <<e>> \o chain
  <2>3. c \in Seq(Entry) /\ Len(c) = n + 1
    BY <2>2
  <2>4. c[1] = e /\ \A i \in 2..n + 1 : c[i] = chain[i - 1]
    BY <2>2, <1>2
  <2> HIDE DEF c
  <2>5. DOMAIN c = 1..n + 1
    BY <2>3
  <2>6. \A i \in 1..n : chain[i].name # m.name
    BY <1>5
  <2>7. \A i \in 1..n + 1 : i = 1 \/ (i \in 2..n + 1 /\ i - 1 \in 1..n)
    BY <1>2
  <2>8. ASSUME NEW i \in 1..n + 1, NEW j \in 1..n + 1, c[i].name = c[j].name
        PROVE  i = j
    <3>1. CASE i = 1
      BY <1>1, <2>4, <2>6, <2>7, <2>8, <3>1
    <3>2. CASE j = 1
      BY <1>1, <2>4, <2>6, <2>7, <2>8, <3>2
    <3>3. CASE i # 1 /\ j # 1
      <4>1. i - 1 \in 1..n /\ j - 1 \in 1..n /\ chain[i - 1].name = chain[j - 1].name
        BY <2>4, <2>7, <2>8, <3>3
      <4>2. i - 1 = j - 1
        BY <4>1 DEF OneEach
      <4>3. QED
        BY <4>2
    <3>4. QED
      BY <3>1, <3>2, <3>3
  <2>9. OneEach(c)
    BY <2>3, <2>8 DEF OneEach
  <2>10. Range(c) = {o \in Range(chain) : o.name # m.name} \cup {e}
    <3>1. \A x \in Range(c) : x = e \/ (x \in Range(chain) /\ x.name # m.name)
      BY <1>2, <2>4, <2>5, <2>6, <2>7 DEF Range
    <3>2. e \in Range(c)
      BY <1>2, <2>4, <2>5 DEF Range
    <3>3. ASSUME NEW i \in 1..n PROVE chain[i] \in Range(c)
      <4>1. i + 1 \in 2..n + 1 /\ (i + 1) - 1 = i /\ i + 1 \in 1..n + 1
        BY <1>2
      <4>2. c[i + 1] = chain[i]
        BY <2>4, <4>1
      <4>3. QED
        BY <2>5, <4>1, <4>2 DEF Range
    <3>4. Range(chain) \subseteq Range(c)
      BY <1>2, <3>3 DEF Range
    <3>5. QED
      BY <3>1, <3>2, <3>4
  <2>11. QED
    BY <2>1, <2>9, <2>10 DEF c, e
<1>6. CASE I # {}
  <2>1. k \in 1..n /\ chain[k].name = m.name
    BY <1>4, <1>6
  <2> HIDE DEF I
  <2>a. k # 0 /\ (IF I # {} THEN k ELSE 0) = k
    BY <1>2, <1>6, <2>1
  <2> DEFINE w == IF I # {} THEN k ELSE 0
  <2>b. Announced(chain, m) = IF w = 0 THEN <<e>> \o chain ELSE [chain EXCEPT ![w] = e]
    BY <1>3
  <2>c. w = k
    BY <2>a
  <2> HIDE DEF w
  <2>2. Announced(chain, m) = [chain EXCEPT ![k] = e]
    BY <2>a, <2>b, <2>c
  <2> DEFINE c == [chain EXCEPT ![k] = e]
  <2>3. c \in [1..n -> Entry] /\ DOMAIN c = 1..n
    BY <1>1, <1>2
  <2>4. c \in Seq(Entry) /\ Len(c) = n
    BY <1>2, <2>3
  <2>5. c[k] = e /\ \A i \in 1..n : i # k => c[i] = chain[i]
    BY <1>2, <2>1
  <2> HIDE DEF c
  <2>6. \A i \in 1..n : c[i].name = chain[i].name
    BY <1>1, <2>1, <2>5
  <2>7. OneEach(c)
    BY <2>4, <2>6 DEF OneEach
  <2>8. \A i \in 1..n : i # k => chain[i].name # m.name
    BY <2>1 DEF OneEach
  <2>9. Range(c) = {o \in Range(chain) : o.name # m.name} \cup {e}
    BY <1>2, <2>1, <2>3, <2>5, <2>8 DEF Range
  <2>10. QED
    BY <2>2, <2>7, <2>9 DEF c, e
<1>7. QED
  BY <1>5, <1>6

(* A farewell takes out one entry, of its source, if there is any.         *)
LEMMA DismissedIs ==
  ASSUME NEW chain, OneEach(chain), NEW m
  PROVE  /\ OneEach(Dismissed(chain, m))
         /\ \/ /\ Range(Dismissed(chain, m)) = Range(chain)
               /\ \A o \in Range(chain) : o.ssrc # m.ssrc
            \/ \E o \in Range(chain) :
                 o.ssrc = m.ssrc /\ Range(Dismissed(chain, m)) = Range(chain) \ {o}
<1> DEFINE I == {i \in 1..Len(chain) : chain[i].ssrc = m.ssrc}
           n == Len(chain)
           k == Min(I)
<1>1. n \in Nat /\ chain \in [1..n -> Entry] /\ DOMAIN chain = 1..n
  BY DEF OneEach
<1>2. Dismissed(chain, m) = IF (IF I # {} THEN k ELSE 0) = 0 THEN chain
                            ELSE RemoveAt(chain, IF I # {} THEN k ELSE 0)
  BY DEF Dismissed, SelectInSeq
<1>3. I # {} => k \in I
  <2>1. I \in SUBSET Nat
    BY <1>1
  <2> HIDE DEF I
  <2>2. QED
    BY <2>1, MinIsFirst
<1> HIDE DEF k
<1>4. CASE I = {}
  <2>1. Dismissed(chain, m) = chain
    BY <1>2, <1>4
  <2>2. \A o \in Range(chain) : o.ssrc # m.ssrc
    BY <1>1, <1>4 DEF Range
  <2>3. QED
    BY <2>1, <2>2
<1>5. CASE I # {}
  <2>1. k \in 1..n /\ chain[k].ssrc = m.ssrc
    BY <1>3, <1>5
  <2> DEFINE c == RemoveAt(chain, k)
  <2>2. Dismissed(chain, m) = c
    BY <1>1, <1>2, <1>5, <2>1
  <2>3. /\ c \in Seq(Entry) /\ Len(c) = n - 1
        /\ \A i \in 1..n - 1 : c[i] = IF i < k THEN chain[i] ELSE chain[i + 1]
    BY <2>1, RemoveAtIs DEF OneEach
  <2> HIDE DEF c
  <2>4. DOMAIN c = 1..n - 1
    BY <2>3
  <2>5. \A i \in 1..n - 1 : i \in 1..n /\ i + 1 \in 1..n
    BY <1>1
  <2>6. ASSUME NEW i \in 1..n - 1, NEW j \in 1..n - 1, c[i].name = c[j].name
        PROVE  i = j
    <3> DEFINE a == IF i < k THEN i ELSE i + 1
               b == IF j < k THEN j ELSE j + 1
    <3>1. a \in 1..n /\ b \in 1..n /\ c[i] = chain[a] /\ c[j] = chain[b]
      BY <2>3, <2>5
    <3>2. a = b
      BY <2>6, <3>1 DEF OneEach
    <3>3. QED
      BY <2>1, <3>2
  <2>7. OneEach(c)
    BY <2>3, <2>6 DEF OneEach
  <2>8. Range(c) \subseteq Range(chain) \ {chain[k]}
    <3> SUFFICES ASSUME NEW i \in 1..n - 1
                 PROVE  c[i] \in Range(chain) /\ c[i] # chain[k]
      BY <2>4 DEF Range
    <3> DEFINE a == IF i < k THEN i ELSE i + 1
    <3>1. a \in 1..n /\ a # k /\ c[i] = chain[a]
      BY <2>1, <2>3, <2>5
    <3>2. chain[a].name # chain[k].name
      BY <2>1, <3>1 DEF OneEach
    <3>3. QED
      BY <1>1, <3>1, <3>2 DEF Range
  <2>9. Range(chain) \ {chain[k]} \subseteq Range(c)
    <3> SUFFICES ASSUME NEW i \in 1..n, i # k PROVE chain[i] \in Range(c)
      BY <1>1 DEF Range
    <3>1. CASE i < k
      <4>1. i \in 1..n - 1 /\ c[i] = chain[i]
        BY <2>1, <2>3, <3>1
      <4>2. QED
        BY <2>4, <4>1 DEF Range
    <3>2. CASE i > k
      <4>1. i - 1 \in 1..n - 1 /\ ~(i - 1 < k) /\ (i - 1) + 1 = i
        BY <2>1, <3>2
      <4>2. c[i - 1] = chain[i]
        BY <2>3, <4>1
      <4>3. QED
        BY <2>4, <4>1, <4>2 DEF Range
    <3>3. QED
      BY <2>1, <3>1, <3>2
  <2>10. chain[k] \in Range(chain)
    BY <1>1, <2>1 DEF Range
  <2>11. QED
    BY <2>1, <2>2, <2>7, <2>8, <2>9, <2>10
<1>6. QED
  BY <1>4, <1>5

(* A sweep leaves the entries that are not too old.                        *)
LEMMA SweptIs ==
  ASSUME NEW chain, OneEach(chain), NEW T
  PROVE  OneEach(Kept(chain, T)) /\ Range(Kept(chain, T)) = Range(chain) \cap T
<1> DEFINE s == Kept(chain, T)
<1>1. chain \in Seq(Entry)
  BY DEF OneEach
<1>2. s \in Seq(Entry) /\ Range(s) = Range(chain) \cap T
  BY <1>1, KeptRange
<1>3. PICK f : Embeds(s, chain, T, Len(chain), f)
  BY <1>1, KeptEmbeds
<1> HIDE DEF s
<1>4. ASSUME NEW i \in 1..Len(s), NEW j \in 1..Len(s), s[i].name = s[j].name
      PROVE  i = j
  <2>1. /\ f[i] \in 1..Len(chain) /\ f[j] \in 1..Len(chain)
        /\ s[i] = chain[f[i]] /\ s[j] = chain[f[j]]
        /\ (i < j => f[i] < f[j]) /\ (j < i => f[j] < f[i])
    BY <1>3 DEF Embeds
  <2>2. f[i] = f[j]
    BY <1>4, <2>1 DEF OneEach
  <2>3. Len(chain) \in Nat /\ Len(s) \in Nat
    BY <1>1, <1>2
  <2>4. QED
    BY <2>1, <2>2, <2>3
<1>5. QED
  BY <1>2, <1>4 DEF OneEach, s

-----------------------------------------------------------------------------
(* A server is a directory. *)

ChainInv == LoopInv /\ conn \in [Server -> Seq(Entry)]
                    /\ \A s \in Server : OneEach(conn[s])

LEMMA ServedIs ==
  ASSUME ChainInv, NEW c \in net, Serve(c)
  PROVE  /\ c.to \in Server /\ c.msg \in Message /\ UNCHANGED now
         /\ conn' = [conn EXCEPT ![c.to] =
                       IF c.msg.kind = "SDES" THEN Announced(conn[c.to], c.msg)
                                              ELSE Dismissed(conn[c.to], c.msg)]
         /\ OneEach(conn'[c.to])
<1>1. c.to \in Server /\ c.msg \in Message
  BY DEF ChainInv, LoopInv, QueueInv, Connection
<1>2. now \in Nat /\ OneEach(conn[c.to])
  BY <1>1 DEF ChainInv, LoopInv, QueueInv
<1>3. conn' = [conn EXCEPT ![c.to] =
                 IF c.msg.kind = "SDES" THEN Announced(conn[c.to], c.msg)
                                        ELSE Dismissed(conn[c.to], c.msg)]
  BY DEF Serve, Handle
<1>4. UNCHANGED now
  BY DEF Serve, Handle
<1>5. conn'[c.to] = IF c.msg.kind = "SDES" THEN Announced(conn[c.to], c.msg)
                                           ELSE Dismissed(conn[c.to], c.msg)
  BY <1>1, <1>3 DEF ChainInv
<1>6. OneEach(conn'[c.to])
  BY <1>1, <1>2, <1>5, AnnouncedIs, DismissedIs
<1>7. QED
  BY <1>1, <1>3, <1>4, <1>6

LEMMA SweepIs ==
  ASSUME ChainInv, NEW s \in Server, Sweep(s)
  PROVE  /\ conn' = [conn EXCEPT ![s] = conn'[s]] /\ OneEach(conn'[s])
         /\ Range(conn'[s]) = {e \in Range(conn[s]) : Fresh(e)}
<1>1. OneEach(conn[s]) /\ conn \in [Server -> Seq(Entry)]
  BY DEF ChainInv
<1> DEFINE T == {e \in Range(conn[s]) : Fresh(e)}
<1>2. conn' = [conn EXCEPT ![s] = Kept(conn[s], T)]
  BY DEF Sweep
<1> HIDE DEF T
<1>3. conn'[s] = Kept(conn[s], T)
  BY <1>1, <1>2
<1>4. OneEach(Kept(conn[s], T)) /\ Range(Kept(conn[s], T)) = Range(conn[s]) \cap T
  BY <1>1, SweptIs
<1>5. QED
  BY <1>2, <1>3, <1>4 DEF T

(* Only what a server hears, its sweeps and its end change its chain.      *)
LEMMA OthersLeave ==
  ASSUME [Next]_vars,
         \A c \in net : ~Serve(c), \A s \in Server : ~Sweep(s) /\ ~Crash(s)
  PROVE  UNCHANGED conn
BY DEF Next, Speaker, Sflwld, Start, Refresh, Exit, Vanish, Restart, Pass, Tick,
       serverVars, vars

LEMMA ChainStep == ChainInv /\ [Next]_vars => ChainInv'
<1> SUFFICES ASSUME ChainInv, [Next]_vars PROVE ChainInv'
  OBVIOUS
<1>1. LoopInv'
  BY LoopStep DEF ChainInv
<1>2. ASSUME NEW s \in Server, conn' = [conn EXCEPT ![s] = conn'[s]],
             OneEach(conn'[s])
      PROVE  ChainInv'
  <2>1. conn'[s] \in Seq(Entry)
    BY <1>2 DEF OneEach
  <2>2. \A t \in Server : t # s => conn'[t] = conn[t]
    BY <1>2 DEF ChainInv
  <2>3. conn' \in [Server -> Seq(Entry)]
    BY <1>2, <2>1 DEF ChainInv
  <2>4. QED
    BY <1>1, <1>2, <2>2, <2>3 DEF ChainInv
<1>3. ASSUME NEW c \in net, Serve(c) PROVE ChainInv'
  <2>1. conn' = [conn EXCEPT ![c.to] = conn'[c.to]]
    BY <1>3, ServedIs DEF ChainInv
  <2>2. QED
    BY <1>2, <1>3, <2>1, ServedIs
<1>4. ASSUME NEW s \in Server, Sweep(s) PROVE ChainInv'
  BY <1>2, <1>4, SweepIs
<1>5. ASSUME NEW s \in Server, Crash(s) PROVE ChainInv'
  <2>1. conn' = [conn EXCEPT ![s] = << >>] /\ conn'[s] = << >>
    BY <1>5 DEF Crash, ChainInv
  <2>2. QED
    BY <1>2, <2>1, ChainEmpty
<1>6. CASE UNCHANGED conn
  BY <1>1, <1>6 DEF ChainInv
<1>7. QED
  BY <1>3, <1>4, <1>5, <1>6, OthersLeave

LEMMA ChainAlways == Spec => []ChainInv
<1>1. Init => ChainInv
  BY LoopInit, ChainEmpty DEF Init, ChainInv
<1>2. QED
  BY <1>1, ChainStep, PTL DEF Spec

(* One server at a time becomes another directory.                         *)
LEMMA BecomesIs ==
  ASSUME ChainInv, NEW s \in Server, conn' = [conn EXCEPT ![s] = conn'[s]]
  PROVE  D!Becomes(s, Range(conn'[s]))
<1>1. conn \in [Server -> Seq(Entry)]
  BY DEF ChainInv
<1>2. conn' \in [Server -> Seq(Entry) \cup {conn'[s]}]
  BY <1>1
<1>3. \A t \in Server : t # s => conn'[t] = conn[t]
  BY <1>1
<1>4. [t \in Server |-> Range(conn'[t])]
        = [[t \in Server |-> Range(conn[t])] EXCEPT ![s] = Range(conn'[s])]
  BY <1>3
<1>5. QED
  BY <1>4 DEF D!Becomes

LEMMA DirectoryStep == ChainInv /\ [Next]_vars => [D!Next]_(D!vars)
<1> SUFFICES ASSUME ChainInv, [Next]_vars PROVE [D!Next]_(D!vars)
  OBVIOUS
<1>1. ASSUME NEW c \in net, Serve(c) PROVE [D!Next]_(D!vars)
  <2> DEFINE s == c.to
  <2>1. /\ s \in Server /\ c.msg \in Message /\ UNCHANGED now
        /\ conn' = [conn EXCEPT ![s] =
                      IF c.msg.kind = "SDES" THEN Announced(conn[s], c.msg)
                                             ELSE Dismissed(conn[s], c.msg)]
    BY <1>1, ServedIs
  <2>2. now \in Nat /\ OneEach(conn[s])
    BY <2>1 DEF ChainInv, LoopInv, QueueInv
  <2>3. conn'[s] = IF c.msg.kind = "SDES" THEN Announced(conn[s], c.msg)
                                          ELSE Dismissed(conn[s], c.msg)
    BY <2>1 DEF ChainInv
  <2> HIDE DEF s
  <2>4. D!Becomes(s, Range(conn'[s]))
    BY <2>1, <2>3, BecomesIs
  <2>5. CASE c.msg.kind = "SDES"
    <3>1. Range(conn'[s]) = {o \in Range(conn[s]) : o.name # c.msg.name}
            \cup {[name |-> c.msg.name, ssrc |-> c.msg.ssrc, ltime |-> now]}
      BY <2>1, <2>2, <2>3, <2>5, AnnouncedIs
    <3>2. c.msg.name \in User /\ c.msg.ssrc \in Ssrc
      BY <2>1 DEF Message
    <3>3. D!Hear(s)
      BY <2>1, <2>4, <3>1, <3>2 DEF D!Hear
    <3>4. QED
      BY <2>1, <3>3 DEF D!Next
  <2>6. CASE c.msg.kind # "SDES"
    <3>1. conn'[s] = Dismissed(conn[s], c.msg)
      BY <2>3, <2>6
    <3>2. CASE Range(conn'[s]) = Range(conn[s])
      <4>1. [t \in Server |-> Range(conn'[t])] = [t \in Server |-> Range(conn[t])]
        BY <2>1, <3>2 DEF ChainInv
      <4>2. QED
        BY <2>1, <4>1 DEF D!vars
    <3>3. ASSUME NEW o \in Range(conn[s]), Range(conn'[s]) = Range(conn[s]) \ {o}
          PROVE  [D!Next]_(D!vars)
      <4>1. D!Leave(s)
        BY <2>1, <2>4, <3>3 DEF D!Leave
      <4>2. QED
        BY <2>1, <4>1 DEF D!Next
    <3>4. QED
      BY <2>2, <3>1, <3>2, <3>3, DismissedIs
  <2>7. QED
    BY <2>5, <2>6
<1>2. ASSUME NEW s \in Server, Sweep(s) PROVE [D!Next]_(D!vars)
  <2>1. UNCHANGED now
    BY <1>2 DEF Sweep
  <2>2. D!Becomes(s, Range(conn'[s]))
    BY <1>2, SweepIs, BecomesIs
  <2>3. Range(conn'[s]) = {e \in Range(conn[s]) : now - e.ltime <= TimeoutTime}
    BY <1>2, SweepIs DEF Fresh
  <2>4. D!Expire(s)
    BY <2>2, <2>3 DEF D!Expire
  <2>5. QED
    BY <2>1, <2>4 DEF D!Next
<1>3. ASSUME NEW s \in Server, Crash(s) PROVE [D!Next]_(D!vars)
  <2>1. UNCHANGED now /\ conn' = [conn EXCEPT ![s] = << >>] /\ conn'[s] = << >>
    BY <1>3 DEF Crash, userVars, ChainInv
  <2>2. D!Becomes(s, Range(conn'[s]))
    BY <2>1, BecomesIs
  <2>3. D!Forget(s)
    BY <2>1, <2>2, ChainEmpty DEF D!Forget
  <2>4. QED
    BY <2>1, <2>3 DEF D!Next
<1>4. CASE Tick
  BY <1>4 DEF Tick, serverVars, D!Next, D!Tick
<1>5. CASE UNCHANGED <<now, conn>>
  BY <1>5 DEF D!vars
<1>6. QED
  BY <1>1, <1>2, <1>3, <1>4, <1>5
     DEF Next, Speaker, Sflwld, Start, Refresh, Exit, Vanish, Restart, Pass,
         serverVars, vars

(* However announcements and farewells arrive, whichever are lost, doubled *)
(* by a restart or passed on late, and whenever servers stop, each server  *)
(* is a directory (lwld.c 793-830, 1209-1301): it lists a name at most     *)
(* once, takes an announcement or a farewell in one step, and drops in a   *)
(* sweep just what is too old.                                             *)
THEOREM DirectoryImplemented == Spec => IsDirectory
<1>1. Init => D!Init
  BY ChainEmpty DEF Init, D!Init
<1>2. QED
  BY <1>1, ChainAlways, DirectoryStep, PTL DEF Spec, IsDirectory, D!Spec

-----------------------------------------------------------------------------
(* Nobody stays listed who is not heard any more. *)

(* The next sweep of a server that runs is due, and comes before an entry  *)
(* is too old by more than the time between two; one that does not run has *)
(* no entries and nobody is connected to it.                               *)
SweepInv ==
    /\ strikes \in [User -> [Server -> 0..StrikeOut]]
    /\ srv \in [Server -> [up: BOOLEAN, since: Nat, sweep: Nat]]
    /\ wake \in [Server -> [Server -> Nat]]
    /\ dropped \in [Server -> [Server -> Nat]]
    /\ starts \in Nat /\ crashes \in Nat
    /\ \A c \in net : srv[c.to].up
    /\ \A s \in Server :
         IF srv[s].up
         THEN /\ now <= srv[s].sweep /\ srv[s].sweep <= now + TockTock
              /\ \A e \in Range(conn[s]) :
                   srv[s].sweep <= e.ltime + TimeoutTime + TockTock
         ELSE Range(conn[s]) = {}

StaleInv == ChainInv /\ SweepInv

LEMMA StaleInit == Init => StaleInv
<1> SUFFICES ASSUME Init PROVE StaleInv
  OBVIOUS
<1>1. ChainInv
  BY LoopInit, ChainEmpty DEF Init, ChainInv
<1>2. TockTock \in Nat /\ StrikeOut \in Nat
  BY LwlAssumption DEF LwlAssumption
<1>3. SweepInv
  BY <1>2, ChainEmpty DEF Init, SweepInv
<1>4. QED
  BY <1>1, <1>3 DEF StaleInv

(* A call takes no connection to a server that does not run.               *)
LEMMA CallReaches ==
  ASSUME StaleInv, NEW u \in User, NEW k, NEW x, NEW h \in [Server -> 0..StrikeOut],
         Call(u, k, x, h)
  PROVE  /\ strikes' \in [User -> [Server -> 0..StrikeOut]]
         /\ \A c \in net' : srv[c.to].up
<1>1. \A c \in net' : srv[c.to].up
  BY DEF Call, StaleInv, SweepInv
<1>2. StrikeOut \in Nat
  BY LwlAssumption DEF LwlAssumption
<1> DEFINE told == {s \in Range(Tells[u]) : h[s] < StrikeOut}
           f == [s \in Server |->
                   CASE s \in told /\ ~srv[s].up -> h[s] + 1
                     [] s \in told /\ srv[s].up /\ k = "SDES" -> 0
                     [] OTHER -> h[s]]
<1>3. ASSUME NEW s \in Server PROVE f[s] \in 0..StrikeOut
  <2>1. h[s] \in 0..StrikeOut /\ (s \in told => h[s] + 1 \in 0..StrikeOut)
    BY <1>2
  <2> HIDE DEF told
  <2>2. QED
    BY <1>2, <2>1
<1>4. strikes' = [strikes EXCEPT ![u] = f]
  BY DEF Call
<1> HIDE DEF f
<1>5. strikes' \in [User -> [Server -> 0..StrikeOut]]
  <2>1. f \in [Server -> 0..StrikeOut]
    BY <1>3 DEF f
  <2>2. QED
    BY <1>4, <2>1 DEF StaleInv, SweepInv
<1>6. QED
  BY <1>1, <1>5

LEMMA EntryIs ==
  ASSUME ChainInv, NEW s \in Server PROVE Range(conn[s]) \subseteq Entry
<1>1. conn[s] \in Seq(Entry)
  BY DEF ChainInv
<1>2. QED
  BY <1>1 DEF Range

(* What a server hears is of this moment.                                  *)
LEMMA HeardNow ==
  ASSUME StaleInv, NEW c \in net, Serve(c)
  PROVE  \A e \in Range(conn'[c.to]) : e \in Range(conn[c.to]) \/ e.ltime = now
<1>1. /\ c.to \in Server /\ c.msg \in Message
      /\ conn' = [conn EXCEPT ![c.to] =
                    IF c.msg.kind = "SDES" THEN Announced(conn[c.to], c.msg)
                                           ELSE Dismissed(conn[c.to], c.msg)]
  BY ServedIs DEF StaleInv
<1>2. conn'[c.to] = IF c.msg.kind = "SDES" THEN Announced(conn[c.to], c.msg)
                                           ELSE Dismissed(conn[c.to], c.msg)
  BY <1>1 DEF StaleInv, ChainInv
<1>3. now \in Nat /\ OneEach(conn[c.to])
  BY <1>1 DEF StaleInv, ChainInv, LoopInv, QueueInv
<1>4. CASE c.msg.kind = "SDES"
  <2>1. \A e \in Range(Announced(conn[c.to], c.msg)) :
          e \in Range(conn[c.to]) \/ e.ltime = now
    BY <1>1, <1>3, AnnouncedIs
  <2>2. QED
    BY <1>2, <1>4, <2>1
<1>5. CASE c.msg.kind # "SDES"
  <2>1. Range(Dismissed(conn[c.to], c.msg)) \subseteq Range(conn[c.to])
    BY <1>3, DismissedIs
  <2>2. QED
    BY <1>2, <1>5, <2>1
<1>6. QED
  BY <1>4, <1>5

LEMMA RelayWakes ==
  ASSUME StaleInv, NEW s \in Server, NEW to, NEW m, Relay(s, to, m)
  PROVE  /\ wake' \in [Server -> [Server -> Nat]]
         /\ dropped' \in [Server -> [Server -> Nat]]
<1>1. now + ForwarderSleep \in Nat /\ now \in Nat
  BY LwlAssumption DEF LwlAssumption, StaleInv, ChainInv, LoopInv, QueueInv
<1>2. wake' \in [Server -> [Server -> Nat]]
  BY <1>1 DEF Relay, StaleInv, SweepInv
<1>3. dropped' \in [Server -> [Server -> Nat]]
  <2> DEFINE full == {t \in to : Queued(queue[s][t], m) = queue[s][t]}
  <2>1. dropped' = [dropped EXCEPT ![s] =
          [t \in Server |-> IF t \in full THEN now ELSE dropped[s][t]]]
    BY DEF Relay, StaleInv, SweepInv
  <2> HIDE DEF full
  <2>2. QED
    BY <1>1, <2>1 DEF StaleInv, SweepInv
<1>4. QED
  BY <1>2, <1>3

LEMMA StaleStep == StaleInv /\ [Next]_vars => StaleInv'
<1> SUFFICES ASSUME StaleInv, [Next]_vars PROVE SweepInv'
  BY ChainStep DEF StaleInv
<1>1. /\ now \in Nat /\ ChainInv /\ SweepInv
      /\ conn \in [Server -> Seq(Entry)]
      /\ \A s \in Server : \A e \in Range(conn[s]) : e.ltime \in Nat
  <2>1. ASSUME NEW s \in Server, NEW e \in Range(conn[s]) PROVE e.ltime \in Nat
    BY <2>1, EntryIs DEF StaleInv, Entry
  <2>2. QED
    BY <2>1 DEF StaleInv, ChainInv, LoopInv, QueueInv
<1>2. TockTock \in Nat /\ TimeoutTime \in Nat /\ TockTock > 0
  BY LwlAssumption DEF LwlAssumption
<1>3. ASSUME NEW u \in User, NEW k, NEW x, NEW h \in [Server -> 0..StrikeOut],
             Call(u, k, x, h), UNCHANGED <<now, serverVars>>, starts' \in Nat
      PROVE  SweepInv'
  BY <1>1, <1>3, CallReaches DEF SweepInv, serverVars
<1>4. ASSUME NEW u \in User, Start(u) PROVE SweepInv'
  <2>1. [s \in Server |-> 0] \in [Server -> 0..StrikeOut]
    BY LwlAssumption DEF LwlAssumption
  <2>2. starts' \in Nat
    BY <1>1, <1>4 DEF Start, SweepInv
  <2>3. QED
    BY <1>3, <1>4, <2>1, <2>2 DEF Start
<1>5. ASSUME NEW u \in User, Refresh(u) PROVE SweepInv'
  BY <1>1, <1>3, <1>5 DEF Refresh, SweepInv
<1>6. ASSUME NEW u \in User, Exit(u) PROVE SweepInv'
  BY <1>1, <1>3, <1>6 DEF Exit, SweepInv
<1>7. ASSUME NEW u \in User, Vanish(u) PROVE SweepInv'
  BY <1>1, <1>7 DEF Vanish, SweepInv, serverVars
<1>8. ASSUME NEW s \in Server, Sweep(s) PROVE SweepInv'
  <2>1. srv' = [srv EXCEPT ![s] = srv'[s]]
        /\ srv'[s].up /\ srv'[s].sweep = now + TockTock
        /\ srv'[s] \in [up: BOOLEAN, since: Nat, sweep: Nat]
    <3>1. srv[s] \in [up: BOOLEAN, since: Nat, sweep: Nat] /\ srv[s].up
      BY <1>1, <1>8 DEF Sweep, SweepInv
    <3>2. srv' = [srv EXCEPT ![s] = [srv[s] EXCEPT !.sweep = now + TockTock]]
      BY <1>8 DEF Sweep
    <3>3. srv'[s] = [srv[s] EXCEPT !.sweep = now + TockTock]
      BY <1>1, <3>2 DEF SweepInv
    <3>4. now + TockTock \in Nat
      BY <1>1, <1>2
    <3>5. QED
      BY <3>1, <3>2, <3>3, <3>4
  <2>2. \A e \in Range(conn'[s]) : e \in Range(conn[s]) /\ now - e.ltime <= TimeoutTime
    BY <1>1, <1>8, SweepIs DEF Fresh
  <2>3. \A e \in Range(conn'[s]) : now + TockTock <= e.ltime + TimeoutTime + TockTock
    BY <1>1, <1>2, <2>2
  <2>4. \A t \in Server : t # s => conn'[t] = conn[t] /\ srv'[t] = srv[t]
    BY <1>1, <1>8, <2>1, SweepIs DEF SweepInv
  <2>5. UNCHANGED <<now, strikes, wake, dropped, starts, crashes, net>> /\ srv[s].up
    BY <1>8 DEF Sweep, userVars
  <2>6. srv' \in [Server -> [up: BOOLEAN, since: Nat, sweep: Nat]]
    BY <1>1, <2>1 DEF SweepInv
  <2>7. \A c \in net : c.to \in Server
    BY DEF StaleInv, ChainInv, LoopInv, QueueInv, Connection
  <2>8. ASSUME NEW t \in Server
        PROVE  IF srv'[t].up
               THEN /\ now <= srv'[t].sweep /\ srv'[t].sweep <= now + TockTock
                    /\ \A e \in Range(conn'[t]) :
                         srv'[t].sweep <= e.ltime + TimeoutTime + TockTock
               ELSE Range(conn'[t]) = {}
    <3>1. CASE t = s
      BY <1>1, <1>2, <2>1, <2>3, <3>1
    <3>2. CASE t # s
      BY <1>1, <2>4, <3>2 DEF SweepInv
    <3>3. QED
      BY <3>1, <3>2
  <2>9. \A c \in net : srv'[c.to].up
    BY <1>1, <2>1, <2>4, <2>7 DEF SweepInv
  <2>10. QED
    BY <1>1, <2>5, <2>6, <2>8, <2>9 DEF SweepInv
<1>9. ASSUME NEW s \in Server, Crash(s) PROVE SweepInv'
  <2>1. /\ srv' \in [Server -> [up: BOOLEAN, since: Nat, sweep: Nat]]
        /\ wake' \in [Server -> [Server -> Nat]] /\ crashes' \in Nat
        /\ dropped' \in [Server -> [Server -> Nat]]
        /\ UNCHANGED <<now, strikes, starts>>
    BY <1>1, <1>9 DEF Crash, SweepInv, userVars
  <2>2. conn'[s] = << >> /\ ~srv'[s].up
        /\ \A t \in Server : t # s => conn'[t] = conn[t] /\ srv'[t] = srv[t]
    BY <1>1, <1>9 DEF Crash, SweepInv
  <2>3. \A c \in net' : c \in net /\ c.to \in Server /\ c.to # s
    BY <1>9 DEF Crash, StaleInv, ChainInv, LoopInv, QueueInv, Connection
  <2>4. Range(conn'[s]) = {}
    BY <2>2, ChainEmpty
  <2>5. QED
    BY <1>1, <2>1, <2>2, <2>3, <2>4 DEF SweepInv
<1>10. ASSUME NEW s \in Server, Restart(s) PROVE SweepInv'
  <2>1. /\ srv'[s] = [up |-> TRUE, since |-> now, sweep |-> now + TockTock]
        /\ srv' \in [Server -> [up: BOOLEAN, since: Nat, sweep: Nat]]
        /\ \A t \in Server : t # s => srv'[t] = srv[t]
    BY <1>1, <1>2, <1>10 DEF Restart, SweepInv
  <2>2. UNCHANGED <<now, strikes, wake, dropped, starts, crashes, net, conn>> /\ ~srv[s].up
    BY <1>10 DEF Restart, userVars
  <2>3. \A c \in net : c.to \in Server
    BY DEF StaleInv, ChainInv, LoopInv, QueueInv, Connection
  <2>4. Range(conn[s]) = {} /\ now + TockTock \in Nat
    BY <1>1, <1>2, <2>2 DEF SweepInv
  <2>5. ASSUME NEW t \in Server
        PROVE  IF srv'[t].up
               THEN /\ now' <= srv'[t].sweep /\ srv'[t].sweep <= now' + TockTock
                    /\ \A e \in Range(conn'[t]) :
                         srv'[t].sweep <= e.ltime + TimeoutTime + TockTock
               ELSE Range(conn'[t]) = {}
    <3>1. CASE t = s
      BY <1>1, <1>2, <2>1, <2>2, <2>4, <3>1
    <3>2. CASE t # s
      BY <1>1, <2>1, <2>2, <3>2 DEF SweepInv
    <3>3. QED
      BY <3>1, <3>2
  <2>6. \A c \in net' : srv'[c.to].up
    BY <1>1, <2>1, <2>2, <2>3 DEF SweepInv
  <2>7. QED
    BY <1>1, <2>1, <2>2, <2>5, <2>6 DEF SweepInv
<1>11. ASSUME NEW s \in Server, NEW t \in Forwards[s], Pass(s, t) PROVE SweepInv'
  <2>1. wake' \in [Server -> [Server -> Nat]]
    BY <1>1, <1>11 DEF Pass, SweepInv
  <2>2. \A c \in net' : srv[c.to].up
    BY <1>1, <1>11 DEF Pass, SweepInv
  <2>3. QED
    BY <1>1, <1>11, <2>1, <2>2 DEF Pass, SweepInv, userVars
<1>12. ASSUME NEW c \in net, Serve(c) PROVE SweepInv'
  <2>1. UNCHANGED <<now, strikes, srv, starts, crashes>> /\ net' \subseteq net
    BY <1>12 DEF Serve, Handle, userVars
  <2>2. c.to \in Server /\ \A t \in Server : t # c.to => conn'[t] = conn[t]
    BY <1>1, <1>12, ServedIs
  <2>3. /\ wake' \in [Server -> [Server -> Nat]]
        /\ dropped' \in [Server -> [Server -> Nat]]
    BY <1>12, <2>2, RelayWakes DEF Serve, Handle
  <2>4. \A e \in Range(conn'[c.to]) :
          srv[c.to].sweep <= e.ltime + TimeoutTime + TockTock
    <3>1. srv[c.to].up
      BY <1>1 DEF SweepInv
    <3>2. srv[c.to].sweep <= now + TockTock /\ srv[c.to].sweep \in Nat
      BY <1>1, <2>2, <3>1 DEF SweepInv
    <3>3. \A e \in Range(conn[c.to]) :
            srv[c.to].sweep <= e.ltime + TimeoutTime + TockTock
      BY <1>1, <2>2, <3>1 DEF SweepInv
    <3>4. \A e \in Range(conn'[c.to]) : e \in Range(conn[c.to]) \/ e.ltime = now
      BY <1>12, HeardNow
    <3>5. QED
      BY <1>1, <1>2, <3>2, <3>3, <3>4
  <2>5. srv[c.to].up
    BY <1>1 DEF SweepInv
  <2>6. ASSUME NEW t \in Server
        PROVE  IF srv[t].up
               THEN /\ now <= srv[t].sweep /\ srv[t].sweep <= now + TockTock
                    /\ \A e \in Range(conn'[t]) :
                         srv[t].sweep <= e.ltime + TimeoutTime + TockTock
               ELSE Range(conn'[t]) = {}
    <3>1. CASE t = c.to
      BY <1>1, <2>2, <2>4, <2>5, <3>1 DEF SweepInv
    <3>2. CASE t # c.to
      BY <1>1, <2>2, <3>2 DEF SweepInv
    <3>3. QED
      BY <3>1, <3>2
  <2>7. QED
    BY <1>1, <2>1, <2>3, <2>6 DEF SweepInv
<1>13. CASE Tick
  <2>1. now' = now + 1 /\ UNCHANGED <<strikes, starts, srv, conn, wake, dropped, crashes, net>>
    BY <1>13 DEF Tick, userVars, serverVars
  <2>2. \A s \in Server : srv[s].up => ~(srv[s].sweep <= now) /\ srv[s].sweep \in Nat
    BY <1>1, <1>13 DEF Tick, Awake, SweepInv
  <2>3. ASSUME NEW s \in Server, srv[s].up
        PROVE  now' <= srv[s].sweep /\ srv[s].sweep <= now' + TockTock
    BY <1>1, <1>2, <2>1, <2>2, <2>3 DEF SweepInv
  <2>4. QED
    BY <1>1, <2>1, <2>3 DEF SweepInv
<1>14. CASE UNCHANGED vars
  BY <1>1, <1>14 DEF vars, userVars, serverVars, SweepInv
<1>15. QED
  BY <1>4, <1>5, <1>6, <1>7, <1>8, <1>9, <1>10, <1>11, <1>12, <1>13, <1>14
     DEF Next, Speaker, Sflwld

LEMMA StaleAlways == Spec => []StaleInv
  BY StaleInit, StaleStep, PTL DEF Spec

(* Who went away without a good-bye is dropped: no entry of any server is  *)
(* older than the time-out and one sweep, whatever restarts and whatever   *)
(* is passed on (lwld.c 793-830); and every variable has its type.         *)
THEOREM StaleAreDropped == Spec => []StaleGone
<1>1. StaleInv => StaleGone
  <2> SUFFICES ASSUME StaleInv PROVE StaleGone
    OBVIOUS
  <2>1. TypeOK
    BY DEF StaleInv, ChainInv, LoopInv, QueueInv, SweepInv, Speaking, TypeOK
  <2>2. ASSUME NEW s \in Server, NEW e \in Range(conn[s])
        PROVE  now <= e.ltime + TimeoutTime + TockTock
    <3>1. srv[s].up /\ srv[s].sweep \in Nat
      BY <2>2 DEF StaleInv, SweepInv
    <3>2. e.ltime \in Nat
      BY <2>2, EntryIs DEF StaleInv, Entry
    <3>3. now \in Nat /\ TimeoutTime \in Nat /\ TockTock \in Nat
      BY LwlAssumption DEF LwlAssumption, TypeOK, StaleInv, ChainInv, LoopInv, QueueInv
    <3>4. now <= srv[s].sweep /\ srv[s].sweep <= e.ltime + TimeoutTime + TockTock
      BY <2>2, <3>1 DEF StaleInv, SweepInv
    <3>5. QED
      BY <3>1, <3>2, <3>3, <3>4
  <2>3. QED
    BY <2>1, <2>2 DEF StaleGone
<1>2. QED
  BY <1>1, StaleAlways, PTL

-----------------------------------------------------------------------------
(* Where messages come from. *)

(* A message bears a session source its speaker may have drawn.            *)
Genuine(m) == m.ssrc \in Draws[m.name]

(* It goes to the servers the speaker tells, and from there to those of    *)
(* their forward lists.                                                    *)
Tellers(u) == Range(Tells[u])
Second(u) == {t \in Server : \E o \in Tellers(u) : t \in Forwards[o]}
Arrives(c) == c.to \in IF c.msg.hops = 0 THEN Tellers(c.msg.name)
                                         ELSE Second(c.msg.name)
Waits(s, t, m) == Genuine(m) /\ s \in Tellers(m.name) /\ t \in Forwards[s]

OriginInv ==
    /\ \A u \in User : user[u].ssrc \in Draws[u]
    /\ \A c \in net : Genuine(c.msg) /\ Arrives(c)
    /\ \A s, t \in Server : \A i \in 1..Len(queue[s][t]) : Waits(s, t, queue[s][t][i])
    /\ \A s \in Server : \A e \in Range(conn[s]) : e.ssrc \in Draws[e.name]

LEMMA OriginInit == Init => OriginInv
<1> SUFFICES ASSUME Init PROVE OriginInv
  OBVIOUS
<1>1. ASSUME NEW u \in User PROVE user[u].ssrc \in Draws[u]
  <2>1. Draws[u] # {}
    BY LwlAssumption DEF LwlAssumption
  <2>2. user[u].ssrc = CHOOSE x \in Draws[u] : TRUE
    BY DEF Init
  <2>3. QED
    BY <2>1, <2>2
<1>2. \A s, t \in Server : queue[s][t] = << >> /\ conn[s] = << >>
  BY DEF Init
<1>3. net = {}
  BY DEF Init
<1>4. QED
  BY <1>1, <1>2, <1>3, ChainEmpty DEF OriginInv

(* What a speaker sends: to the servers it tells that run, by itself.      *)
LEMMA CallIs ==
  ASSUME NEW u, NEW k, NEW x, NEW h, Call(u, k, x, h)
  PROVE  /\ net \subseteq net'
         /\ \A c \in net' \ net :
              /\ c.to \in Tellers(u)
              /\ c.msg = [kind |-> k, name |-> u, ssrc |-> x, hops |-> 0]
         /\ \A s \in Tellers(u) : h[s] < StrikeOut /\ srv[s].up =>
              [to |-> s, msg |-> [kind |-> k, name |-> u, ssrc |-> x, hops |-> 0]]
                \in net'
BY DEF Call, Tellers

LEMMA CallArrives ==
  ASSUME OriginInv, NEW u \in User, NEW k, NEW x \in Draws[u], NEW h,
         Call(u, k, x, h)
  PROVE  \A c \in net' : Genuine(c.msg) /\ Arrives(c)
<1> SUFFICES ASSUME NEW c \in net', c \notin net PROVE Genuine(c.msg) /\ Arrives(c)
  BY DEF OriginInv
<1>1. c.to \in Tellers(u) /\ c.msg = [kind |-> k, name |-> u, ssrc |-> x, hops |-> 0]
  BY CallIs
<1>2. c.msg.hops = 0 /\ c.msg.name = u /\ c.msg.ssrc = x
  BY <1>1
<1>3. QED
  BY <1>1, <1>2 DEF Genuine, Arrives

LEMMA RelayWaits ==
  ASSUME StaleInv, OriginInv, NEW s \in Server, NEW m \in Message, Genuine(m),
         NEW to, \A t \in to : s \in Tellers(m.name) /\ t \in Forwards[s],
         Relay(s, to, m)
  PROVE  \A a, b \in Server : \A i \in 1..Len(queue'[a][b]) :
           Waits(a, b, queue'[a][b][i])
<1> SUFFICES ASSUME NEW a \in Server, NEW b \in Server, NEW i \in 1..Len(queue'[a][b])
             PROVE  Waits(a, b, queue'[a][b][i])
  OBVIOUS
<1>1. queue \in [Server -> [Server -> Seq(Message)]]
  BY DEF StaleInv, ChainInv, LoopInv, QueueInv
<1>2. queue'[a][b] = IF a = s /\ b \in to THEN Queued(queue[a][b], m)
                                          ELSE queue[a][b]
  BY <1>1 DEF Relay
<1>3. CASE queue'[a][b] = queue[a][b]
  BY <1>3 DEF OriginInv
<1>4. CASE a = s /\ b \in to /\ queue'[a][b] = Append(queue[a][b], m)
  <2>1. queue[a][b] \in Seq(Message)
    BY <1>1
  <2>2. i \in 1..Len(queue[a][b]) \/ i = Len(queue[a][b]) + 1
    BY <1>4, <2>1
  <2>3. CASE i \in 1..Len(queue[a][b])
    <3>1. queue'[a][b][i] = queue[a][b][i]
      BY <1>4, <2>1, <2>3
    <3>2. QED
      BY <2>3, <3>1 DEF OriginInv
  <2>4. CASE i = Len(queue[a][b]) + 1
    <3>1. queue'[a][b][i] = m
      BY <1>4, <2>1, <2>4
    <3>2. QED
      BY <1>4, <3>1 DEF Waits
  <2>5. QED
    BY <2>2, <2>3, <2>4
<1>5. QED
  BY <1>2, <1>3, <1>4 DEF Queued

(* The entries a server has after it has heard a message.                  *)
LEMMA HeardIs ==
  ASSUME StaleInv, NEW c \in net, Serve(c)
  PROVE  /\ c.to \in Server /\ c.msg \in Message
         /\ \A t \in Server : t # c.to => conn'[t] = conn[t]
         /\ \A e \in Range(conn'[c.to]) :
              \/ e \in Range(conn[c.to])
              \/ c.msg.kind = "SDES" /\ e.name = c.msg.name /\ e.ssrc = c.msg.ssrc
         /\ c.msg.kind # "SDES" =>
              \/ \A o \in Range(conn'[c.to]) : o.ssrc # c.msg.ssrc
              \/ \E o \in Range(conn[c.to]) :
                   /\ o.ssrc = c.msg.ssrc
                   /\ \A e \in Range(conn'[c.to]) : e.name # o.name
<1>1. /\ c.to \in Server /\ c.msg \in Message
      /\ conn' = [conn EXCEPT ![c.to] =
                    IF c.msg.kind = "SDES" THEN Announced(conn[c.to], c.msg)
                                           ELSE Dismissed(conn[c.to], c.msg)]
  BY ServedIs DEF StaleInv
<1>2. conn'[c.to] = IF c.msg.kind = "SDES" THEN Announced(conn[c.to], c.msg)
                                           ELSE Dismissed(conn[c.to], c.msg)
  BY <1>1 DEF StaleInv, ChainInv
<1>3. now \in Nat /\ OneEach(conn[c.to])
  BY <1>1 DEF StaleInv, ChainInv, LoopInv, QueueInv
<1>4. \A t \in Server : t # c.to => conn'[t] = conn[t]
  BY <1>1 DEF StaleInv, ChainInv
<1>5. CASE c.msg.kind = "SDES"
  <2> DEFINE e == [name |-> c.msg.name, ssrc |-> c.msg.ssrc, ltime |-> now]
  <2>1. e.name = c.msg.name /\ e.ssrc = c.msg.ssrc
    OBVIOUS
  <2>2. Range(Announced(conn[c.to], c.msg))
          = {o \in Range(conn[c.to]) : o.name # c.msg.name} \cup {e}
    BY <1>1, <1>3, AnnouncedIs
  <2> HIDE DEF e
  <2>3. QED
    BY <1>1, <1>2, <1>4, <1>5, <2>1, <2>2
<1>6. CASE c.msg.kind # "SDES"
  <2> DEFINE chain == conn[c.to]
             left == Dismissed(chain, c.msg)
  <2>1. conn'[c.to] = left
    BY <1>2, <1>6
  <2>2. \/ Range(left) = Range(chain) /\ \A o \in Range(chain) : o.ssrc # c.msg.ssrc
        \/ \E o \in Range(chain) :
             o.ssrc = c.msg.ssrc /\ Range(left) = Range(chain) \ {o}
    BY <1>3, DismissedIs
  <2>3. \A o, e \in Range(chain) : o.name = e.name => o = e
    BY <1>3 DEF OneEach, Range
  <2> HIDE DEF left
  <2>4. QED
    BY <1>1, <1>4, <1>6, <2>1, <2>2, <2>3
<1>7. QED
  BY <1>5, <1>6

LEMMA OriginStep == StaleInv /\ OriginInv /\ [Next]_vars => OriginInv'
<1> SUFFICES ASSUME StaleInv, OriginInv, [Next]_vars PROVE OriginInv'
  OBVIOUS
<1>1. /\ user \in [User -> Speaking] /\ net \subseteq Connection
      /\ queue \in [Server -> [Server -> Seq(Message)]]
      /\ conn \in [Server -> Seq(Entry)]
  BY DEF StaleInv, ChainInv, LoopInv, QueueInv
<1>2. ASSUME NEW u \in User, NEW k, NEW x \in Draws[u], NEW h, Call(u, k, x, h),
             UNCHANGED serverVars, \A v \in User : user'[v].ssrc \in Draws[v]
      PROVE  OriginInv'
  <2>1. \A c \in net' : Genuine(c.msg) /\ Arrives(c)
    BY <1>2, CallArrives
  <2>2. UNCHANGED <<queue, conn>>
    BY <1>2 DEF serverVars
  <2>3. QED
    BY <1>2, <2>1, <2>2 DEF OriginInv
<1>3. ASSUME NEW u \in User, Start(u) PROVE OriginInv'
  <2>1. PICK x \in Draws[u] :
          /\ user' = [user EXCEPT ![u] = [up |-> TRUE, ssrc |-> x, bye |-> FALSE,
                        due |-> now + Retransmit, since |-> now]]
          /\ Call(u, "SDES", x, [s \in Server |-> 0])
    BY <1>3 DEF Start
  <2>2. \A v \in User : user'[v].ssrc \in Draws[v]
    BY <1>1, <2>1 DEF OriginInv
  <2>3. QED
    BY <1>2, <1>3, <2>1, <2>2 DEF Start
<1>4. ASSUME NEW u \in User, Refresh(u) PROVE OriginInv'
  <2>1. \A v \in User : user'[v].ssrc \in Draws[v]
    BY <1>1, <1>4 DEF Refresh, OriginInv, Speaking
  <2>2. user[u].ssrc \in Draws[u]
    BY DEF OriginInv
  <2>3. QED
    BY <1>2, <1>4, <2>1, <2>2 DEF Refresh
<1>5. ASSUME NEW u \in User, Exit(u) PROVE OriginInv'
  <2>1. \A v \in User : user'[v].ssrc \in Draws[v]
    BY <1>1, <1>5 DEF Exit, OriginInv, Speaking
  <2>2. user[u].ssrc \in Draws[u]
    BY DEF OriginInv
  <2>3. QED
    BY <1>2, <1>5, <2>1, <2>2 DEF Exit
<1>6. ASSUME NEW u \in User, Vanish(u) PROVE OriginInv'
  <2>1. \A v \in User : user'[v].ssrc \in Draws[v]
    BY <1>1, <1>6 DEF Vanish, OriginInv, Speaking
  <2>2. QED
    BY <1>6, <2>1 DEF Vanish, serverVars, OriginInv
<1>7. ASSUME NEW s \in Server, Sweep(s) PROVE OriginInv'
  <2>1. \A t \in Server : Range(conn'[t]) \subseteq Range(conn[t])
    <3>1. \A t \in Server : t # s => conn'[t] = conn[t]
      BY <1>1, <1>7, SweepIs DEF StaleInv
    <3>2. Range(conn'[s]) \subseteq Range(conn[s])
      BY <1>7, SweepIs DEF StaleInv
    <3>3. QED
      BY <3>1, <3>2
  <2>2. UNCHANGED <<user, net, queue>>
    BY <1>7 DEF Sweep, userVars
  <2>3. QED
    BY <2>1, <2>2 DEF OriginInv
<1>8. ASSUME NEW s \in Server, Crash(s) PROVE OriginInv'
  <2>1. \A a, b \in Server : queue'[a][b] = queue[a][b] \/ queue'[a][b] = << >>
    BY <1>1, <1>8 DEF Crash
  <2>2. \A t \in Server : conn'[t] = conn[t] \/ conn'[t] = << >>
    BY <1>1, <1>8 DEF Crash
  <2>3. net' \subseteq net /\ UNCHANGED user
    BY <1>8 DEF Crash, userVars
  <2>4. \A a, b \in Server : \A i \in 1..Len(queue'[a][b]) :
          Waits(a, b, queue'[a][b][i])
    BY <2>1 DEF OriginInv
  <2>5. \A t \in Server : \A e \in Range(conn'[t]) : e.ssrc \in Draws[e.name]
    BY <2>2, ChainEmpty DEF OriginInv
  <2>6. QED
    BY <2>3, <2>4, <2>5 DEF OriginInv
<1>9. ASSUME NEW s \in Server, Restart(s) PROVE OriginInv'
  BY <1>9 DEF Restart, userVars, OriginInv
<1>10. ASSUME NEW s \in Server, NEW t \in Forwards[s], Pass(s, t) PROVE OriginInv'
  <2>1. t \in Server /\ queue[s][t] \in Seq(Message) /\ queue[s][t] # << >>
    BY <1>1, <1>10, LwlAssumption DEF LwlAssumption, Pass
  <2> DEFINE q == queue[s][t]
             m == [Head(q) EXCEPT !.hops = @ + 1]
  <2>2. /\ 1 \in 1..Len(q) /\ Head(q) = q[1] /\ Head(q) \in Message
        /\ Len(Tail(q)) = Len(q) - 1
        /\ \A i \in 1..Len(q) - 1 : Tail(q)[i] = q[i + 1] /\ i + 1 \in 1..Len(q)
    BY <2>1
  <2>3. Waits(s, t, Head(q))
    BY <2>1, <2>2 DEF OriginInv
  <2>4. m.name = Head(q).name /\ m.ssrc = Head(q).ssrc /\ m.hops # 0
    BY <2>2 DEF Message
  <2>5. Genuine(m) /\ t \in Second(m.name)
    BY <2>1, <2>3, <2>4 DEF Waits, Genuine, Second
  <2>6. net' = net \cup {[to |-> t, msg |-> m]}
    BY <1>10 DEF Pass
  <2> HIDE DEF m
  <2>7. \A c \in net' : Genuine(c.msg) /\ Arrives(c)
    BY <2>4, <2>5, <2>6 DEF OriginInv, Arrives
  <2>8. queue' = [queue EXCEPT ![s][t] = Tail(q)]
    BY <1>10 DEF Pass
  <2>9. \A a, b \in Server : queue'[a][b] = IF a = s /\ b = t THEN Tail(q)
                                                             ELSE queue[a][b]
    BY <1>1, <2>1, <2>8
  <2>10. \A i \in 1..Len(Tail(q)) : Waits(s, t, Tail(q)[i])
    BY <2>1, <2>2 DEF OriginInv
  <2> HIDE DEF q
  <2>11. \A a, b \in Server : \A i \in 1..Len(queue'[a][b]) :
           Waits(a, b, queue'[a][b][i])
    <3> SUFFICES ASSUME NEW a \in Server, NEW b \in Server,
                        NEW i \in 1..Len(queue'[a][b])
                 PROVE  Waits(a, b, queue'[a][b][i])
      OBVIOUS
    <3>1. CASE a = s /\ b = t
      BY <2>1, <2>9, <2>10, <3>1
    <3>2. CASE ~(a = s /\ b = t)
      BY <2>9, <3>2 DEF OriginInv
    <3>3. QED
      BY <3>1, <3>2
  <2>12. UNCHANGED <<user, conn>>
    BY <1>10 DEF Pass, userVars
  <2>13. QED
    BY <2>7, <2>11, <2>12 DEF OriginInv
<1>11. ASSUME NEW c \in net, Serve(c) PROVE OriginInv'
  <2> DEFINE to == IF IsForwarded(c.msg) THEN {} ELSE Forwards[c.to]
  <2>1. c.to \in Server /\ c.msg \in Message /\ Genuine(c.msg) /\ Arrives(c)
    BY <1>11, HeardIs DEF OriginInv
  <2>2. Relay(c.to, to, c.msg) /\ UNCHANGED user /\ net' \subseteq net
    BY <1>11 DEF Serve, Handle, userVars
  <2>3. \A t \in to : c.to \in Tellers(c.msg.name) /\ t \in Forwards[c.to]
    BY <2>1 DEF IsForwarded, Arrives, Message
  <2> HIDE DEF to
  <2>4. \A a, b \in Server : \A i \in 1..Len(queue'[a][b]) :
          Waits(a, b, queue'[a][b][i])
    BY <2>1, <2>2, <2>3, RelayWaits
  <2>5. \A t \in Server : \A e \in Range(conn'[t]) : e.ssrc \in Draws[e.name]
    BY <1>11, <2>1, HeardIs DEF OriginInv, Genuine
  <2>6. QED
    BY <2>2, <2>4, <2>5 DEF OriginInv
<1>12. CASE Tick
  BY <1>12 DEF Tick, userVars, serverVars, OriginInv
<1>13. CASE UNCHANGED vars
  BY <1>13 DEF vars, userVars, serverVars, OriginInv
<1>14. QED
  BY <1>3, <1>4, <1>5, <1>6, <1>7, <1>8, <1>9, <1>10, <1>11, <1>12, <1>13
     DEF Next, Speaker, Sflwld

-----------------------------------------------------------------------------
(* Who took its leave is not listed. *)

(* A speaker left, of which only its own calls can have told this server,  *)
(* which has been running since before.                                    *)
Left(u, s) ==
    /\ ~user[u].up /\ user[u].bye /\ s \in Told(u) /\ s \notin Second(u)
    /\ srv[s].up /\ srv[s].since < user[u].since
    /\ user[u].due - Retransmit < user[u].since

Farewell(u, s) == [to |-> s, msg |-> [kind |-> "BYE", name |-> u,
                                      ssrc |-> user[u].ssrc, hops |-> 0]]

Unlisted(u, s) == ~\E e \in Range(conn[s]) : e.name = u /\ e.ssrc = user[u].ssrc

(* What is on its way from a speaker itself was sent at this moment.       *)
JustSent(c) ==
    c.msg.hops = 0 =>
      LET v == user[c.msg.name]
      IN  IF c.msg.kind = "SDES" THEN v.due = now + Retransmit \/ ~(v.up \/ v.bye)
                                 ELSE v.since = now \/ v.up \/ ~v.bye

GoodbyeInv ==
    /\ \A u \in User : user[u].since <= now
    /\ \A c \in net : JustSent(c)
    /\ \A u \in User, s \in Server : Left(u, s) => Unlisted(u, s) \/ Farewell(u, s) \in net

LEMMA GoodbyeInit == Init => GoodbyeInv
<1> SUFFICES ASSUME Init PROVE GoodbyeInv
  OBVIOUS
<1>1. \A u \in User : user[u].since = 0 /\ ~user[u].bye
  BY DEF Init
<1>2. now = 0 /\ net = {}
  BY DEF Init
<1>3. QED
  BY <1>1, <1>2 DEF GoodbyeInv, Left

(* A call of one speaker does not touch what holds of the others.          *)
LEMMA CallOthers ==
  ASSUME StaleInv, GoodbyeInv, NEW u \in User, NEW k \in Kind, NEW x, NEW h,
         Call(u, k, x, h), UNCHANGED <<now, srv, conn>>,
         user' = [user EXCEPT ![u] = user'[u]], user'[u].since <= now,
         k = "SDES" => user'[u].due = now + Retransmit,
         k = "BYE" => user'[u].since = now,
         \/ user'[u].up /\ user'[u].due = now + Retransmit
         \/ user'[u].due = user[u].due /\ user[u].up /\ user'[u].since = now,
         \A s \in Server : Left(u, s)' => Unlisted(u, s)' \/ Farewell(u, s)' \in net'
  PROVE  GoodbyeInv'
<1>0. now' = now /\ srv' = srv /\ conn' = conn
  OBVIOUS
<1>1. user \in [User -> Speaking] /\ net \subseteq Connection
  BY DEF StaleInv, ChainInv, LoopInv, QueueInv
<1>2. /\ \A v \in User : v # u => user'[v] = user[v]
      /\ \A v \in User : v # u => strikes'[v] = strikes[v]
  BY <1>1 DEF Call, StaleInv, SweepInv
<1>3. /\ net \subseteq net'
      /\ \A c \in net' \ net :
           c.msg = [kind |-> k, name |-> u, ssrc |-> x, hops |-> 0]
  BY CallIs
<1>4. ASSUME NEW c \in net' PROVE JustSent(c)'
  <2>1. CASE c \notin net
    <3>1. c.msg.kind = k /\ c.msg.name = u
      BY <1>3, <2>1
    <3>2. CASE k = "SDES"
      BY <1>0, <3>1, <3>2 DEF JustSent
    <3>3. CASE k = "BYE"
      BY <3>1, <3>3 DEF JustSent
    <3>4. QED
      BY <3>2, <3>3 DEF Kind
  <2>2. CASE c \in net /\ c.msg.name # u
    <3>1. c.msg.name \in User /\ JustSent(c)
      BY <1>1, <2>2 DEF GoodbyeInv, Connection, Message
    <3>2. QED
      BY <1>2, <2>2, <3>1 DEF JustSent
  <2>3. CASE c \in net /\ c.msg.name = u
    <3>1. JustSent(c)
      BY <2>3 DEF GoodbyeInv
    <3>2. CASE user'[u].up /\ user'[u].due = now + Retransmit
      BY <1>0, <2>3, <3>2 DEF JustSent
    <3>3. CASE user'[u].due = user[u].due /\ user[u].up /\ user'[u].since = now
      BY <1>0, <2>3, <3>1, <3>3 DEF JustSent
    <3>4. QED
      BY <3>2, <3>3
  <2>4. QED
    BY <2>1, <2>2, <2>3
<1>5. ASSUME NEW v \in User, NEW s \in Server, Left(v, s)'
      PROVE  Unlisted(v, s)' \/ Farewell(v, s)' \in net'
  <2>1. CASE v = u
    BY <1>5, <2>1
  <2>2. CASE v # u
    <3>1. user'[v] = user[v] /\ strikes'[v] = strikes[v]
      BY <1>2, <2>2
    <3>2. Left(v, s)
      BY <1>5, <3>1 DEF Left, Told
    <3>3. Unlisted(v, s) \/ Farewell(v, s) \in net
      BY <3>2 DEF GoodbyeInv
    <3>4. QED
      BY <1>3, <3>1, <3>3 DEF Unlisted, Farewell
  <2>3. QED
    BY <2>1, <2>2
<1>6. \A v \in User : user'[v].since <= now
  BY <1>2 DEF GoodbyeInv
<1>7. QED
  BY <1>4, <1>5, <1>6 DEF GoodbyeInv

(* A speaker that says BYE is told of at every server it knows of and that *)
(* runs.                                                                   *)
LEMMA ExitLeaves ==
  ASSUME StaleInv, NEW u \in User, Exit(u), NEW s \in Server, Left(u, s)'
  PROVE  Farewell(u, s)' \in net'
<1>1. /\ user \in [User -> Speaking]
      /\ strikes \in [User -> [Server -> 0..StrikeOut]] /\ StrikeOut \in Nat
  BY LwlAssumption DEF LwlAssumption, StaleInv, ChainInv, LoopInv, QueueInv, SweepInv
<1>2. user'[u].ssrc = user[u].ssrc
  BY <1>1 DEF Exit, Speaking
<1>3. Call(u, "BYE", user[u].ssrc, strikes[u]) /\ UNCHANGED srv
  BY DEF Exit, serverVars
<1>4. s \in Tellers(u) /\ strikes'[u][s] < StrikeOut /\ srv[s].up
  BY <1>3 DEF Left, Told, Tellers
<1>5. strikes[u][s] < StrikeOut
  <2>1. CASE strikes[u][s] < StrikeOut
    BY <2>1
  <2>2. CASE ~(strikes[u][s] < StrikeOut)
    <3>1. strikes'[u][s] = strikes[u][s]
      BY <1>1, <1>3, <2>2 DEF Call
    <3>2. QED
      BY <1>4, <2>2, <3>1
  <2>3. QED
    BY <2>1, <2>2
<1>6. [to |-> s, msg |-> [kind |-> "BYE", name |-> u, ssrc |-> user[u].ssrc,
                          hops |-> 0]] \in net'
  BY <1>3, <1>4, <1>5, CallIs
<1>7. QED
  BY <1>2, <1>6 DEF Farewell

(* A server that hears something else keeps quiet about who left, and one  *)
(* that hears the farewell takes the entry out.                            *)
LEMMA ServeLeaves ==
  ASSUME StaleInv, OriginInv, GoodbyeInv, NEW c \in net, Serve(c),
         NEW u \in User, NEW s \in Server, Left(u, s)
  PROVE  Unlisted(u, s)' \/ Farewell(u, s) \in net'
<1>1. /\ c.to \in Server /\ c.msg \in Message /\ Genuine(c.msg) /\ Arrives(c)
      /\ JustSent(c)
  BY HeardIs DEF OriginInv, GoodbyeInv
<1>2. /\ \A t \in Server : t # c.to => conn'[t] = conn[t]
      /\ net' = net \ {c} /\ UNCHANGED user
  BY HeardIs DEF Serve, Handle, userVars
<1>3. Unlisted(u, s) \/ Farewell(u, s) \in net
  BY DEF GoodbyeInv
<1>4. CASE c.to # s
  BY <1>2, <1>3, <1>4 DEF Unlisted, Farewell
<1>5. CASE c.to = s /\ c # Farewell(u, s) /\ Farewell(u, s) \in net
  BY <1>2, <1>5
<1>6. CASE c.to = s /\ Unlisted(u, s)
  <2> SUFFICES ASSUME NEW e \in Range(conn'[s]), e.name = u, e.ssrc = user[u].ssrc
               PROVE  FALSE
    BY <1>2 DEF Unlisted
  <2>1. e \notin Range(conn[s])
    BY <1>6 DEF Unlisted
  <2>2. c.msg.kind = "SDES" /\ c.msg.name = u
    BY <1>6, <2>1, HeardIs
  <2>3. CASE c.msg.hops = 0
    <3>1. user[u].due = now + Retransmit
      BY <1>1, <2>2, <2>3 DEF JustSent, Left
    <3>2. user[u].since <= now /\ user[u].due - Retransmit < user[u].since
      BY DEF GoodbyeInv, Left
    <3>3. Retransmit \in Nat /\ now \in Nat /\ user[u].since \in Nat
      BY LwlAssumption
         DEF LwlAssumption, StaleInv, ChainInv, LoopInv, QueueInv, Speaking
    <3>4. QED
      BY <3>1, <3>2, <3>3
  <2>4. CASE c.msg.hops # 0
    BY <1>1, <1>6, <2>2, <2>4 DEF Arrives, Left
  <2>5. QED
    BY <2>3, <2>4
<1>7. CASE c = Farewell(u, s)
  <2>1. c.to = s /\ c.msg.kind = "BYE" /\ c.msg.ssrc = user[u].ssrc
    BY <1>7 DEF Farewell
  <2>2. CASE \A o \in Range(conn'[s]) : o.ssrc # user[u].ssrc
    BY <1>2, <2>2 DEF Unlisted
  <2>3. ASSUME NEW o \in Range(conn[s]), o.ssrc = user[u].ssrc,
               \A e \in Range(conn'[s]) : e.name # o.name
        PROVE  Unlisted(u, s)'
    <3>1. o.ssrc \in Draws[o.name] /\ user[u].ssrc \in Draws[u]
      BY DEF OriginInv
    <3>2. o.name \in User
      BY EntryIs DEF StaleInv, Entry
    <3>3. o.name = u
      BY <2>3, <3>1, <3>2, LwlAssumption DEF LwlAssumption
    <3>4. QED
      BY <2>3, <3>3 DEF Unlisted
  <2>4. QED
    BY <2>1, <2>2, <2>3, HeardIs
<1>8. QED
  BY <1>3, <1>4, <1>5, <1>6, <1>7

LEMMA GoodbyeStep ==
  StaleInv /\ OriginInv /\ GoodbyeInv /\ [Next]_vars => GoodbyeInv'
<1> SUFFICES ASSUME StaleInv, OriginInv, GoodbyeInv, [Next]_vars PROVE GoodbyeInv'
  OBVIOUS
<1>1. /\ user \in [User -> Speaking] /\ net \subseteq Connection
      /\ now \in Nat /\ Retransmit \in Nat
      /\ srv \in [Server -> [up: BOOLEAN, since: Nat, sweep: Nat]]
      /\ conn \in [Server -> Seq(Entry)]
  BY LwlAssumption
     DEF LwlAssumption, StaleInv, ChainInv, LoopInv, QueueInv, SweepInv
<1>2. ASSUME NEW u \in User, Start(u) PROVE GoodbyeInv'
  <2>1. PICK x \in Draws[u] :
          /\ user' = [user EXCEPT ![u] = [up |-> TRUE, ssrc |-> x, bye |-> FALSE,
                        due |-> now + Retransmit, since |-> now]]
          /\ Call(u, "SDES", x, [s \in Server |-> 0])
    BY <1>2 DEF Start
  <2>2. /\ user'[u].up /\ user'[u].due = now + Retransmit /\ user'[u].since = now
        /\ user' = [user EXCEPT ![u] = user'[u]]
    BY <1>1, <2>1
  <2>3. UNCHANGED <<now, srv, conn>>
    BY <1>2 DEF Start, serverVars
  <2>4. \A s \in Server : ~Left(u, s)'
    BY <2>2 DEF Left
  <2>5. user'[u].since <= now /\ "SDES" \in Kind
    BY <1>1, <2>2 DEF Kind
  <2> DEFINE h == [s \in Server |-> 0]
  <2>6. Call(u, "SDES", x, h)
    BY <2>1
  <2> HIDE DEF h
  <2>7. QED
    BY <2>2, <2>3, <2>4, <2>5, <2>6, CallOthers
<1>3. ASSUME NEW u \in User, Refresh(u) PROVE GoodbyeInv'
  <2>1. user[u] \in Speaking /\ user[u].up
    BY <1>1, <1>3 DEF Refresh
  <2>2. /\ user'[u].up /\ user'[u].due = now + Retransmit
        /\ user'[u].since = user[u].since /\ user' = [user EXCEPT ![u] = user'[u]]
    BY <1>1, <1>3, <2>1 DEF Refresh, Speaking
  <2>3. UNCHANGED <<now, srv, conn>> /\ Call(u, "SDES", user[u].ssrc, strikes[u])
    BY <1>3 DEF Refresh, serverVars
  <2>4. \A s \in Server : ~Left(u, s)'
    BY <2>2 DEF Left
  <2>5. user'[u].since <= now
    BY <2>2 DEF GoodbyeInv
  <2>6. QED
    BY <2>2, <2>3, <2>4, <2>5, CallOthers DEF Kind
<1>4. ASSUME NEW u \in User, Exit(u) PROVE GoodbyeInv'
  <2>1. user[u] \in Speaking /\ user[u].up
    BY <1>1, <1>4 DEF Exit
  <2>2. /\ user'[u].due = user[u].due /\ user'[u].since = now
        /\ user' = [user EXCEPT ![u] = user'[u]]
    <3> DEFINE r == [user[u] EXCEPT !.up = FALSE, !.bye = TRUE, !.since = now]
    <3>1. user' = [user EXCEPT ![u] = r]
      BY <1>4 DEF Exit
    <3>2. r.due = user[u].due /\ r.since = now
      BY <2>1 DEF Speaking
    <3> HIDE DEF r
    <3>3. user'[u] = r
      BY <1>1, <3>1
    <3>4. QED
      BY <3>1, <3>2, <3>3
  <2>3. UNCHANGED <<now, srv, conn>> /\ Call(u, "BYE", user[u].ssrc, strikes[u])
    BY <1>4 DEF Exit, serverVars
  <2>4. \A s \in Server : Left(u, s)' => Farewell(u, s)' \in net'
    BY <1>4, ExitLeaves
  <2>5. QED
    BY <1>1, <2>1, <2>2, <2>3, <2>4, CallOthers DEF Kind
<1>5. ASSUME NEW u \in User, Vanish(u) PROVE GoodbyeInv'
  <2>1. /\ user'[u].since = 0 /\ ~user'[u].up /\ ~user'[u].bye
        /\ \A v \in User : v # u => user'[v] = user[v]
    BY <1>1, <1>5 DEF Vanish
  <2>2. UNCHANGED <<now, strikes, net, srv, conn>>
    BY <1>5 DEF Vanish, serverVars
  <2>3. \A v \in User : user'[v].since <= now
    BY <1>1, <2>1 DEF GoodbyeInv
  <2>4. \A c \in net : JustSent(c)'
    BY <1>1, <2>1, <2>2 DEF GoodbyeInv, JustSent, Connection, Message
  <2>5. ASSUME NEW v \in User, NEW s \in Server, Left(v, s)'
        PROVE  Unlisted(v, s)' \/ Farewell(v, s)' \in net'
    BY <2>1, <2>2, <2>5 DEF GoodbyeInv, Left, Told, Unlisted, Farewell
  <2>6. QED
    BY <2>2, <2>3, <2>4, <2>5 DEF GoodbyeInv
<1>6. ASSUME UNCHANGED <<now, user, strikes>>, \A c \in net' : JustSent(c),
             \A u \in User, s \in Server : Left(u, s)' =>
               \/ ~Left(u, s)
               \/ Unlisted(u, s)'
               \/ Farewell(u, s) \in net'
               \/ conn'[s] = conn[s] /\ net \subseteq net',
             \A u \in User, s \in Server : Left(u, s)' => Left(u, s)
      PROVE  GoodbyeInv'
  <2>1. \A c \in net' : JustSent(c)'
    BY <1>6 DEF JustSent
  <2>2. ASSUME NEW u \in User, NEW s \in Server, Left(u, s)'
        PROVE  Unlisted(u, s)' \/ Farewell(u, s)' \in net'
    <3>1. Unlisted(u, s) \/ Farewell(u, s) \in net
      BY <1>6, <2>2 DEF GoodbyeInv
    <3>2. QED
      BY <1>6, <2>2, <3>1 DEF Unlisted, Farewell
  <2>3. QED
    BY <1>6, <2>1, <2>2 DEF GoodbyeInv
<1>7. ASSUME NEW s \in Server, Sweep(s) PROVE GoodbyeInv'
  <2>1. UNCHANGED <<now, user, strikes, net>>
    BY <1>7 DEF Sweep, userVars
  <2>2. \A t \in Server : srv'[t].up = srv[t].up /\ srv'[t].since = srv[t].since
    BY <1>1, <1>7 DEF Sweep
  <2>3. \A t \in Server : Range(conn'[t]) \subseteq Range(conn[t])
    <3>1. \A t \in Server : t # s => conn'[t] = conn[t]
      BY <1>1, <1>7, SweepIs DEF StaleInv
    <3>2. Range(conn'[s]) \subseteq Range(conn[s])
      BY <1>7, SweepIs DEF StaleInv
    <3>3. QED
      BY <3>1, <3>2
  <2>4. \A c \in net : JustSent(c)'
    BY <2>1 DEF GoodbyeInv, JustSent
  <2>5. ASSUME NEW u \in User, NEW t \in Server, Left(u, t)'
        PROVE  Unlisted(u, t)' \/ Farewell(u, t)' \in net'
    <3>1. Left(u, t)
      BY <2>1, <2>2, <2>5 DEF Left, Told
    <3>2. QED
      BY <2>1, <2>3, <3>1 DEF GoodbyeInv, Unlisted, Farewell
  <2>6. QED
    BY <2>1, <2>4, <2>5 DEF GoodbyeInv
<1>8. ASSUME NEW s \in Server, Crash(s) PROVE GoodbyeInv'
  <2>1. UNCHANGED <<now, user, strikes>> /\ net' = {c \in net : c.to # s}
    BY <1>8 DEF Crash, userVars
  <2>2. ~srv'[s].up /\ \A t \in Server : t # s => srv'[t] = srv[t] /\ conn'[t] = conn[t]
    BY <1>1, <1>8 DEF Crash
  <2>3. \A c \in net' : JustSent(c)'
    BY <2>1 DEF GoodbyeInv, JustSent
  <2>4. ASSUME NEW u \in User, NEW t \in Server, Left(u, t)'
        PROVE  Unlisted(u, t)' \/ Farewell(u, t)' \in net'
    <3>1. t # s
      BY <2>2, <2>4 DEF Left
    <3>2. Left(u, t)
      BY <2>1, <2>2, <2>4, <3>1 DEF Left, Told
    <3>3. Unlisted(u, t) \/ Farewell(u, t) \in net
      BY <3>2 DEF GoodbyeInv
    <3>4. QED
      BY <2>1, <2>2, <3>1, <3>3 DEF Unlisted, Farewell
  <2>5. QED
    BY <2>1, <2>3, <2>4 DEF GoodbyeInv
<1>9. ASSUME NEW s \in Server, Restart(s) PROVE GoodbyeInv'
  <2>1. UNCHANGED <<now, user, strikes, net, conn>>
    BY <1>9 DEF Restart, userVars
  <2>2. srv'[s].since = now /\ \A t \in Server : t # s => srv'[t] = srv[t]
    BY <1>1, <1>9 DEF Restart
  <2>3. \A u \in User : user[u].since \in Nat /\ user[u].since <= now
    BY <1>1 DEF Speaking, GoodbyeInv
  <2>4. ASSUME NEW u \in User, NEW t \in Server, Left(u, t)' PROVE Left(u, t)
    <3>1. t # s
      BY <1>1, <2>1, <2>2, <2>3, <2>4 DEF Left
    <3>2. QED
      BY <2>1, <2>2, <2>4, <3>1 DEF Left, Told
  <2>5. \A c \in net' : JustSent(c)
    BY <2>1 DEF GoodbyeInv
  <2>6. QED
    BY <1>6, <2>1, <2>4, <2>5
<1>10. ASSUME NEW s \in Server, NEW t \in Forwards[s], Pass(s, t) PROVE GoodbyeInv'
  <2>1. /\ UNCHANGED <<now, user, strikes, srv, conn>> /\ net \subseteq net'
        /\ net' = net \cup {[to |-> t,
                             msg |-> [Head(queue[s][t]) EXCEPT !.hops = @ + 1]]}
    BY <1>10 DEF Pass, userVars
  <2>2. t \in Server /\ queue[s][t] \in Seq(Message) /\ queue[s][t] # << >>
    BY <1>10, LwlAssumption
       DEF LwlAssumption, Pass, StaleInv, ChainInv, LoopInv, QueueInv
  <2>3. Head(queue[s][t]) \in Message
    BY <2>2
  <2> DEFINE m == [Head(queue[s][t]) EXCEPT !.hops = @ + 1]
  <2>4. m.hops # 0
    BY <2>3 DEF Message
  <2> HIDE DEF m
  <2>5. \A c \in net' : JustSent(c)
    <3>1. \A c \in net' : c \in net \/ c.msg = m
      BY <2>1 DEF m
    <3>2. QED
      BY <2>4, <3>1 DEF GoodbyeInv, JustSent
  <2>6. QED
    BY <1>6, <2>1, <2>5 DEF Left, Told
<1>11. ASSUME NEW c \in net, Serve(c) PROVE GoodbyeInv'
  <2>1. UNCHANGED <<now, user, strikes, srv>> /\ net' \subseteq net
    BY <1>11 DEF Serve, Handle, userVars
  <2>2. \A u \in User, s \in Server : Left(u, s)' => Left(u, s)
    BY <2>1 DEF Left, Told
  <2>3. \A u \in User, s \in Server : Left(u, s) =>
          Unlisted(u, s)' \/ Farewell(u, s) \in net'
    BY <1>11, ServeLeaves
  <2>4. \A d \in net' : JustSent(d)
    BY <2>1 DEF GoodbyeInv
  <2>5. QED
    BY <1>6, <2>1, <2>2, <2>3, <2>4
<1>12. CASE Tick
  <2>1. net = {} /\ now' = now + 1 /\ UNCHANGED <<user, strikes, srv, conn, net>>
    BY <1>12 DEF Tick, userVars, serverVars
  <2>2. \A u \in User : user[u].since <= now'
    BY <1>1, <2>1 DEF GoodbyeInv, Speaking
  <2>3. ASSUME NEW u \in User, NEW s \in Server, Left(u, s)'
        PROVE  Unlisted(u, s)'
    <3>1. Left(u, s)
      BY <2>1, <2>3 DEF Left, Told
    <3>2. QED
      BY <2>1, <3>1 DEF GoodbyeInv, Unlisted
  <2>4. QED
    BY <2>1, <2>2, <2>3 DEF GoodbyeInv
<1>13. CASE UNCHANGED vars
  BY <1>13 DEF vars, userVars, serverVars, GoodbyeInv, JustSent, Left, Told,
               Unlisted, Farewell
<1>14. QED
  BY <1>2, <1>3, <1>4, <1>5, <1>7, <1>8, <1>9, <1>10, <1>11, <1>12, <1>13
     DEF Next, Speaker, Sflwld

(* Who is gone is not listed for long (lwld.c 793-830, 1273-1301): one that*)
(* said BYE has no entry left with any server it told, once its messages   *)
(* have been served, however sessions, refreshes, forwarded copies and     *)
(* restarts of the servers cross; one that did not is dropped in time.     *)
THEOREM GoneAreUnlisted == Spec => []GoneUnlisted
<1>1. Spec => [](StaleInv /\ OriginInv /\ GoodbyeInv)
  BY StaleInit, StaleStep, OriginInit, OriginStep, GoodbyeInit, GoodbyeStep, PTL
     DEF Spec
<1>2. StaleInv /\ OriginInv /\ GoodbyeInv => ByeHeard
  <2> SUFFICES ASSUME StaleInv, OriginInv, GoodbyeInv, NEW u \in User, NEW s \in Server,
                      ~user[u].up, user[u].bye, s \in Told(u),
                      ~\E o \in Range(Tells[u]) : s \in Forwards[o],
                      srv[s].since < user[u].since,
                      user[u].due - Retransmit < user[u].since,
                      now > user[u].since
               PROVE  Unlisted(u, s)
    BY DEF ByeHeard, Unlisted
  <2>1. CASE ~srv[s].up
    BY <2>1 DEF StaleInv, SweepInv, Unlisted
  <2>2. CASE srv[s].up
    <3>1. Left(u, s)
      BY <2>2 DEF Left, Second, Tellers
    <3>2. CASE Farewell(u, s) \in net
      <4>1. JustSent(Farewell(u, s))
        BY <3>2 DEF GoodbyeInv
      <4>2. user[u].since = now
        BY <4>1 DEF JustSent, Farewell
      <4>3. now \in Nat
        BY DEF StaleInv, ChainInv, LoopInv, QueueInv
      <4>4. QED
        BY <4>2, <4>3
    <3>3. QED
      BY <3>1, <3>2 DEF GoodbyeInv
  <2>3. QED
    BY <2>1, <2>2
<1>3. QED
  BY <1>1, <1>2, StaleAreDropped, PTL DEF GoneUnlisted

-----------------------------------------------------------------------------
(* Who runs is listed.  How long a message takes. *)

(* When a speaker announced itself last, and when it said what m says.     *)
Recent(u) == user[u].due - Retransmit
Moment(m) == IF m.kind = "BYE" THEN user[m.name].since ELSE Recent(m.name)

(* What comes from a speaker that runs is of this moment; what was passed  *)
(* on to a server waited for the forwarder at most once after both were    *)
(* there.                                                                  *)
InTime(c) ==
    user[c.msg.name].up =>
      now <= IF c.msg.hops = 0 THEN Moment(c.msg)
             ELSE Larger(Moment(c.msg), srv[c.to].since) + ForwarderSleep

WaitsInTime(s, t) ==
    queue[s][t] # << >> =>
      /\ srv[s].up /\ wake[s][t] <= now + ForwarderSleep
      /\ srv[t].up => now <= Larger(wake[s][t], srv[t].since + ForwarderSleep)
      /\ \A i \in 1..Len(queue[s][t]) :
           user[queue[s][t][i].name].up =>
             wake[s][t] <= Moment(queue[s][t][i]) + ForwarderSleep

ClockInv ==
    /\ \A u \in User : user[u].up =>
         user[u].since <= Recent(u) /\ Recent(u) <= now /\ now <= user[u].due
    /\ \A s \in Server : srv[s].since <= now

PromptInv ==
    /\ ClockInv
    /\ \A c \in net : InTime(c)
    /\ \A s, t \in Server : WaitsInTime(s, t)

(* What is known of the state, for the arithmetic.                         *)
Typed ==
    /\ now \in Nat /\ user \in [User -> Speaking] /\ net \subseteq Connection
    /\ \A u \in User : user[u].due \in Nat /\ user[u].since \in Nat
                       /\ user[u].up \in BOOLEAN
    /\ srv \in [Server -> [up: BOOLEAN, since: Nat, sweep: Nat]]
    /\ \A s \in Server : srv[s].since \in Nat /\ srv[s].up \in BOOLEAN
    /\ conn \in [Server -> Seq(Entry)]
    /\ queue \in [Server -> [Server -> Seq(Message)]]
    /\ wake \in [Server -> [Server -> Nat]]
    /\ dropped \in [Server -> [Server -> Nat]]
    /\ \A c \in net : c.to \in Server /\ c.msg \in Message
                      /\ c.msg.name \in User /\ c.msg.hops \in Nat
                      /\ srv[c.to].up
    /\ \A s, t \in Server : queue[s][t] \in Seq(Message)
                            /\ wake[s][t] \in Nat /\ dropped[s][t] \in Nat

LEMMA StateIs == StaleInv => Typed
<1> SUFFICES ASSUME StaleInv PROVE Typed
  OBVIOUS
<1>1. /\ now \in Nat /\ user \in [User -> Speaking] /\ net \subseteq Connection
      /\ srv \in [Server -> [up: BOOLEAN, since: Nat, sweep: Nat]]
      /\ conn \in [Server -> Seq(Entry)]
      /\ queue \in [Server -> [Server -> Seq(Message)]]
      /\ wake \in [Server -> [Server -> Nat]]
      /\ dropped \in [Server -> [Server -> Nat]]
      /\ \A c \in net : srv[c.to].up
  BY DEF StaleInv, ChainInv, LoopInv, QueueInv, SweepInv
<1>2. \A u \in User : user[u].due \in Nat /\ user[u].since \in Nat
                       /\ user[u].up \in BOOLEAN
  BY <1>1 DEF Speaking
<1>3. \A s \in Server : srv[s].since \in Nat /\ srv[s].up \in BOOLEAN
  BY <1>1
<1>4. \A c \in net : /\ c.to \in Server /\ c.msg \in Message
                      /\ c.msg.name \in User /\ c.msg.hops \in Nat
  BY <1>1 DEF Connection, Message
<1>5. \A s, t \in Server : queue[s][t] \in Seq(Message)
                            /\ wake[s][t] \in Nat /\ dropped[s][t] \in Nat
  BY <1>1
<1>6. QED
  BY <1>1, <1>2, <1>3, <1>4, <1>5 DEF Typed

LEMMA NextStateIs == StaleInv /\ [Next]_vars => Typed'
<1>1. StaleInv' => Typed'
  BY StateIs, PTL
<1>2. QED
  BY <1>1, StaleStep

LEMMA TimesAre ==
  /\ Retransmit \in Nat /\ ForwarderSleep \in Nat /\ TimeoutTime \in Nat
  /\ 0 < ForwarderSleep /\ ForwarderSleep < Retransmit
  /\ Retransmit + ForwarderSleep <= TimeoutTime
BY LwlAssumption DEF LwlAssumption

LEMMA PromptInit == Init => PromptInv
<1> SUFFICES ASSUME Init PROVE PromptInv
  OBVIOUS
<1>1. \A u \in User : ~user[u].up
  BY DEF Init
<1>2. \A s, t \in Server : queue[s][t] = << >> /\ srv[s].since = 0
  BY DEF Init
<1>3. now = 0 /\ net = {}
  BY DEF Init
<1>4. QED
  BY <1>1, <1>2, <1>3 DEF PromptInv, ClockInv, WaitsInTime

(* What a step makes of a speaker.                                         *)
LEMMA UserSteps ==
  ASSUME StaleInv, [Next]_vars, NEW u \in User
  PROVE  \/ user'[u] = user[u] /\ strikes'[u] = strikes[u]
         \/ ~user'[u].up
         \/ /\ now' = now /\ user'[u].up
            /\ user'[u].since = now /\ user'[u].due = now + Retransmit
         \/ /\ Refresh(u) /\ now' = now /\ user[u].up /\ user'[u].up
            /\ user'[u].since = user[u].since /\ user'[u].due = now + Retransmit
            /\ user[u].due <= now
<1>1. user \in [User -> Speaking]
  BY StateIs DEF Typed
<1>2. ASSUME NEW v \in User, NEW k, NEW x, NEW h, Call(v, k, x, h), v # u,
             user' = [user EXCEPT ![v] = user'[v]]
      PROVE  user'[u] = user[u] /\ strikes'[u] = strikes[u]
  BY <1>1, <1>2 DEF Call, StaleInv, SweepInv
<1>3. ASSUME NEW v \in User, Start(v)
      PROVE  \/ user'[u] = user[u] /\ strikes'[u] = strikes[u]
             \/ /\ now' = now /\ user'[u].up
                /\ user'[u].since = now /\ user'[u].due = now + Retransmit
  <2>1. PICK x \in Draws[v] :
          /\ user' = [user EXCEPT ![v] = [up |-> TRUE, ssrc |-> x, bye |-> FALSE,
                        due |-> now + Retransmit, since |-> now]]
          /\ Call(v, "SDES", x, [s \in Server |-> 0])
    BY <1>3 DEF Start
  <2>2. CASE v = u
    BY <1>1, <1>3, <2>1, <2>2 DEF Start
  <2>3. CASE v # u
    <3>1. user' = [user EXCEPT ![v] = user'[v]]
      BY <1>1, <2>1
    <3> DEFINE h == [s \in Server |-> 0]
    <3>2. Call(v, "SDES", x, h)
      BY <2>1
    <3> HIDE DEF h
    <3>3. QED
      BY <1>2, <2>3, <3>1, <3>2
  <2>4. QED
    BY <2>2, <2>3
<1>4. ASSUME NEW v \in User, Refresh(v)
      PROVE  \/ user'[u] = user[u] /\ strikes'[u] = strikes[u]
             \/ /\ Refresh(u) /\ now' = now /\ user[u].up /\ user'[u].up
                /\ user'[u].since = user[u].since /\ user'[u].due = now + Retransmit
                /\ user[u].due <= now
  <2>1. user[v] \in Speaking
    BY <1>1
  <2>2. /\ user'[v].up = user[v].up /\ user'[v].due = now + Retransmit
        /\ user'[v].since = user[v].since /\ user' = [user EXCEPT ![v] = user'[v]]
    BY <1>1, <1>4, <2>1 DEF Refresh, Speaking
  <2>3. CASE v = u
    BY <1>4, <2>2, <2>3 DEF Refresh
  <2>4. CASE v # u
    BY <1>2, <1>4, <2>2, <2>4 DEF Refresh
  <2>5. QED
    BY <2>3, <2>4
<1>5. ASSUME NEW v \in User, Exit(v)
      PROVE  (user'[u] = user[u] /\ strikes'[u] = strikes[u]) \/ ~user'[u].up
  <2>1. user[v] \in Speaking
    BY <1>1
  <2> DEFINE r == [user[v] EXCEPT !.up = FALSE, !.bye = TRUE, !.since = now]
  <2>2. user' = [user EXCEPT ![v] = r] /\ Call(v, "BYE", user[v].ssrc, strikes[v])
    BY <1>5 DEF Exit
  <2>3. ~r.up
    BY <2>1 DEF Speaking
  <2> HIDE DEF r
  <2>4. user'[v] = r /\ user' = [user EXCEPT ![v] = user'[v]]
    BY <1>1, <2>2
  <2>5. QED
    BY <1>2, <2>2, <2>3, <2>4
<1>6. ASSUME NEW v \in User, Vanish(v)
      PROVE  (user'[u] = user[u] /\ strikes'[u] = strikes[u]) \/ ~user'[u].up
  BY <1>1, <1>6 DEF Vanish
<1>7. CASE UNCHANGED <<user, strikes>>
  BY <1>7
<1>8. QED
  BY <1>3, <1>4, <1>5, <1>6, <1>7
     DEF Next, Speaker, Sflwld, Sweep, Crash, Restart, Pass, Serve, Handle, Tick,
         userVars, vars

(* What a step makes of a server.                                          *)
LEMMA ServerSteps ==
  ASSUME StaleInv, [Next]_vars, NEW s \in Server
  PROVE  \/ srv'[s].up = srv[s].up /\ srv'[s].since = srv[s].since
         \/ Crash(s) /\ ~srv'[s].up /\ srv'[s].since = 0
         \/ now' = now /\ ~srv[s].up /\ srv'[s].up /\ srv'[s].since = now
<1>1. srv \in [Server -> [up: BOOLEAN, since: Nat, sweep: Nat]]
  BY StateIs DEF Typed
<1>2. ASSUME NEW t \in Server, Sweep(t)
      PROVE  srv'[s].up = srv[s].up /\ srv'[s].since = srv[s].since
  BY <1>1, <1>2 DEF Sweep
<1>3. ASSUME NEW t \in Server, Crash(t)
      PROVE  srv'[s] = srv[s] \/ (Crash(s) /\ ~srv'[s].up /\ srv'[s].since = 0)
  <2>1. srv' = [srv EXCEPT ![t] = [up |-> FALSE, since |-> 0, sweep |-> 0]]
    BY <1>3 DEF Crash
  <2>2. QED
    BY <1>1, <1>3, <2>1
<1>4. ASSUME NEW t \in Server, Restart(t)
      PROVE  srv'[s] = srv[s]
             \/ (now' = now /\ ~srv[s].up /\ srv'[s].up /\ srv'[s].since = now)
  BY <1>1, <1>4 DEF Restart
<1>5. CASE UNCHANGED srv
  BY <1>5
<1>6. QED
  BY <1>2, <1>3, <1>4, <1>5
     DEF Next, Speaker, Sflwld, Start, Refresh, Exit, Vanish, Pass, Serve, Handle,
         Tick, serverVars, vars

(* A message is no later than it was, but for the time that passes.        *)
LEMMA MomentSteps ==
  ASSUME StaleInv, ClockInv, [Next]_vars, NEW m, m.name \in User, user'[m.name].up
  PROVE  /\ Moment(m) \in Int /\ Moment(m)' \in Int
         /\ (user[m.name].up /\ Moment(m) <= Moment(m)') \/ now <= Moment(m)'
<1>1. /\ now \in Nat /\ Retransmit \in Nat
      /\ user[m.name].due \in Nat /\ user[m.name].since \in Nat
      /\ user'[m.name].due \in Nat /\ user'[m.name].since \in Nat
  BY StateIs, NextStateIs, TimesAre DEF Typed
<1>2. QED
  BY <1>1, UserSteps DEF Moment, Recent, ClockInv

LEMMA ClockStep ==
  StaleInv /\ OriginInv /\ PromptInv /\ [Next]_vars => ClockInv'
<1> SUFFICES ASSUME StaleInv, ClockInv, [Next]_vars PROVE ClockInv'
  BY DEF PromptInv
<1>1. now' = now \/ (Tick /\ now' = now + 1 /\ UNCHANGED <<user, srv>>)
  BY DEF Next, Speaker, Sflwld, Start, Refresh, Exit, Vanish, Sweep, Crash, Restart,
         Pass, Serve, Handle, Tick, userVars, serverVars, vars
<1>2. now \in Nat /\ Retransmit \in Nat
  BY StateIs, TimesAre DEF Typed
<1>3. ASSUME NEW u \in User, user'[u].up
      PROVE  /\ user'[u].since <= Recent(u)' /\ Recent(u)' <= now'
             /\ now' <= user'[u].due
  <2>1. user[u].due \in Nat /\ user[u].since \in Nat
    BY StateIs DEF Typed
  <2>2. user[u].up => /\ user[u].since <= Recent(u) /\ Recent(u) <= now
                      /\ now <= user[u].due
    BY DEF ClockInv
  <2>3. CASE now' = now
    BY <1>2, <1>3, <2>1, <2>2, <2>3, UserSteps DEF Recent
  <2>4. CASE Tick /\ now' = now + 1 /\ UNCHANGED <<user, srv>>
    <3>1. user[u].up /\ now < user[u].due
      BY <1>3, <2>4 DEF Tick
    <3>2. QED
      BY <1>2, <2>1, <2>2, <2>4, <3>1 DEF Recent
  <2>5. QED
    BY <1>1, <2>3, <2>4
<1>4. ASSUME NEW s \in Server PROVE srv'[s].since <= now'
  <2>1. srv[s].since \in Nat /\ srv[s].since <= now
    BY StateIs DEF Typed, ClockInv
  <2>2. CASE now' = now
    BY <1>2, <2>1, <2>2, ServerSteps
  <2>3. CASE now' = now + 1 /\ UNCHANGED srv
    BY <1>2, <2>1, <2>3
  <2>4. QED
    BY <1>1, <2>2, <2>3
<1>5. QED
  BY <1>3, <1>4 DEF ClockInv

(* A message that stays on its way is still in time.                       *)
LEMMA StaysInTime ==
  ASSUME StaleInv, PromptInv, [Next]_vars, now' = now, NEW c \in net, c \in net'
  PROVE  InTime(c)'
<1>1. /\ c.to \in Server /\ c.msg.name \in User /\ c.msg.hops \in Nat
      /\ srv[c.to].up /\ srv'[c.to].up
      /\ srv[c.to].since \in Nat /\ srv'[c.to].since \in Nat
  BY StateIs, NextStateIs DEF Typed
<1>2. srv'[c.to].since = srv[c.to].since
  BY <1>1, ServerSteps
<1>3. InTime(c) /\ now \in Nat /\ ForwarderSleep \in Nat
  BY StateIs, TimesAre DEF Typed, PromptInv
<1>4. SUFFICES ASSUME user'[c.msg.name].up PROVE InTime(c)'
  BY DEF InTime
<1>5. /\ Moment(c.msg) \in Int /\ Moment(c.msg)' \in Int
      /\ \/ user[c.msg.name].up /\ Moment(c.msg) <= Moment(c.msg)'
         \/ now <= Moment(c.msg)'
  BY <1>1, <1>4, MomentSteps DEF PromptInv
<1>6. now <= IF c.msg.hops = 0 THEN Moment(c.msg)'
             ELSE Larger(Moment(c.msg)', srv[c.to].since) + ForwarderSleep
  BY <1>1, <1>3, <1>5 DEF InTime, Larger
<1>7. QED
  BY <1>2, <1>6 DEF InTime, Larger

(* A queue a step leaves alone is still in time.                           *)
LEMMA QueueStaysInTime ==
  ASSUME StaleInv, PromptInv, [Next]_vars, now' = now,
         NEW s \in Server, NEW t \in Server, ~Crash(s),
         queue'[s][t] = queue[s][t], wake'[s][t] = wake[s][t]
  PROVE  WaitsInTime(s, t)'
<1> DEFINE q == queue[s][t]
<1> SUFFICES ASSUME q # << >> PROVE WaitsInTime(s, t)'
  BY DEF WaitsInTime
<1>1. /\ now \in Nat /\ ForwarderSleep \in Nat /\ wake[s][t] \in Nat
      /\ srv[t].since \in Nat /\ q \in Seq(Message)
  BY StateIs, TimesAre DEF Typed
<1>2. /\ srv[s].up /\ wake[s][t] <= now + ForwarderSleep
      /\ srv[t].up => now <= Larger(wake[s][t], srv[t].since + ForwarderSleep)
      /\ \A i \in 1..Len(q) :
           user[q[i].name].up => wake[s][t] <= Moment(q[i]) + ForwarderSleep
  BY DEF PromptInv, WaitsInTime
<1>3. srv'[s].up
  BY <1>2, ServerSteps
<1>4. srv'[t].up => now <= Larger(wake[s][t], srv'[t].since + ForwarderSleep)
  BY <1>1, <1>2, ServerSteps DEF Larger
<1>5. ASSUME NEW m \in Message, NEW i \in 1..Len(q), m = q[i], user'[m.name].up
      PROVE  wake[s][t] <= Moment(m)' + ForwarderSleep
  <2>1. m.name \in User
    BY DEF Message
  <2>2. user[m.name].up => wake[s][t] <= Moment(m) + ForwarderSleep
    BY <1>2, <1>5
  <2>3. /\ Moment(m) \in Int /\ Moment(m)' \in Int
        /\ (user[m.name].up /\ Moment(m) <= Moment(m)') \/ now <= Moment(m)'
    BY <1>5, <2>1, MomentSteps DEF PromptInv
  <2>4. QED
    BY <1>1, <1>2, <2>2, <2>3
<1>6. ASSUME NEW i \in 1..Len(q), user'[q[i].name].up
      PROVE  wake[s][t] <= Moment(queue[s][t][i])' + ForwarderSleep
  <2>1. PICK m \in Message : m = q[i]
    BY <1>1
  <2>2. wake[s][t] <= Moment(m)' + ForwarderSleep
    BY <1>5, <1>6, <2>1
  <2>3. queue'[s][t][i] = m
    BY <2>1
  <2>4. QED
    BY <2>2, <2>3 DEF Moment, Recent
<1>7. QED
  BY <1>2, <1>3, <1>4, <1>6 DEF WaitsInTime

(* What a speaker says is of this moment.                                  *)
LEMMA CallInTime ==
  ASSUME StaleInv, PromptInv, [Next]_vars, now' = now,
         NEW u \in User, NEW k \in Kind, NEW x, NEW h, Call(u, k, x, h),
         user'[u].up => k = "SDES" /\ user'[u].due = now + Retransmit
  PROVE  \A c \in net' : InTime(c)'
<1> SUFFICES ASSUME NEW c \in net', c \notin net PROVE InTime(c)'
  BY StaysInTime
<1>1. c.msg = [kind |-> k, name |-> u, ssrc |-> x, hops |-> 0]
  BY CallIs
<1>2. c.msg.kind = k /\ c.msg.name = u /\ c.msg.hops = 0
  BY <1>1
<1>3. now \in Nat /\ Retransmit \in Nat
  BY StateIs, TimesAre DEF Typed
<1>4. user'[u].up => now <= Moment(c.msg)'
  BY <1>2, <1>3 DEF Moment, Recent
<1>5. QED
  BY <1>2, <1>4 DEF InTime

(* What is passed on waited for the forwarder at most once.                *)
LEMMA PassInTime ==
  ASSUME StaleInv, OriginInv, PromptInv, [Next]_vars,
         NEW s \in Server, NEW t \in Forwards[s], Pass(s, t)
  PROVE  (\A c \in net' : InTime(c)') /\ \A a, b \in Server : WaitsInTime(a, b)'
<1>1. t \in Server /\ queue[s][t] \in Seq(Message) /\ queue[s][t] # << >>
      /\ srv[s].up /\ srv[t].up
  BY LwlAssumption, StateIs DEF LwlAssumption, Pass, Typed
<1>2. /\ now \in Nat /\ ForwarderSleep \in Nat /\ wake[s][t] \in Nat
      /\ srv[t].since \in Nat /\ now' = now /\ UNCHANGED <<user, srv>>
  BY <1>1, StateIs, TimesAre DEF Typed, Pass, userVars
<1>3. /\ wake[s][t] <= now + ForwarderSleep
      /\ now <= Larger(wake[s][t], srv[t].since + ForwarderSleep)
      /\ \A i \in 1..Len(queue[s][t]) :
           user[queue[s][t][i].name].up =>
             wake[s][t] <= Moment(queue[s][t][i]) + ForwarderSleep
  BY <1>1 DEF PromptInv, WaitsInTime
<1>4. ASSUME NEW c \in net' PROVE InTime(c)'
  <2>1. CASE c \in net
    BY <1>2, <2>1, StaysInTime
  <2>2. CASE c \notin net
    <3>1. PICK m \in Message : m = queue[s][t][1] /\ m = Head(queue[s][t])
      BY <1>1
    <3>2. c = [to |-> t, msg |-> [m EXCEPT !.hops = @ + 1]]
      BY <2>2, <3>1 DEF Pass
    <3>3. /\ c.to = t /\ c.msg.kind = m.kind /\ c.msg.name = m.name
          /\ c.msg.hops # 0
      BY <3>1, <3>2 DEF Message
    <3>4. 1 \in 1..Len(queue[s][t])
      BY <1>1
    <3>5. user[m.name].up => wake[s][t] <= Moment(m) + ForwarderSleep
      BY <1>3, <3>1, <3>4
    <3>6. m.name \in User
      BY DEF Message
    <3>7. /\ user[m.name].due \in Nat /\ user[m.name].since \in Nat
          /\ Retransmit \in Nat
      BY <3>6, StateIs, TimesAre DEF Typed
    <3>8. Moment(m) \in Int
      BY <3>7 DEF Moment, Recent
    <3>9. user[m.name].up =>
            now <= Larger(Moment(m), srv[t].since) + ForwarderSleep
      BY <1>2, <1>3, <3>5, <3>8 DEF Larger
    <3>10. Moment(c.msg)' = Moment(m)
      BY <1>2, <3>3 DEF Moment, Recent
    <3>11. QED
      BY <1>2, <3>3, <3>9, <3>10 DEF InTime
  <2>3. QED
    BY <2>1, <2>2
<1>5. ASSUME NEW a \in Server, NEW b \in Server PROVE WaitsInTime(a, b)'
  <2>1. CASE ~(a = s /\ b = t)
    <3>1. queue'[a][b] = queue[a][b] /\ wake'[a][b] = wake[a][b]
      BY <2>1, StateIs DEF Pass, Typed
    <3>2. ~Crash(a)
      BY <1>1, <1>2, StateIs DEF Crash, Typed
    <3>3. QED
      BY <1>2, <3>1, <3>2, QueueStaysInTime
  <2>2. CASE a = s /\ b = t /\ Tail(queue[s][t]) = << >>
    <3>1. queue'[s][t] = << >>
      BY <1>1, <2>2, StateIs DEF Pass, Typed
    <3>2. QED
      BY <2>2, <3>1 DEF WaitsInTime
  <2>3. CASE a = s /\ b = t /\ Tail(queue[s][t]) # << >>
    <3>1. queue'[s][t] = Tail(queue[s][t]) /\ wake'[s][t] = wake[s][t]
      BY <1>1, <2>3, StateIs DEF Pass, Typed
    <3>2. ASSUME NEW i \in 1..Len(Tail(queue[s][t]))
          PROVE  /\ i + 1 \in 1..Len(queue[s][t])
                 /\ Tail(queue[s][t])[i] = queue[s][t][i + 1]
      BY <1>1
    <3>3. ASSUME NEW i \in 1..Len(queue'[s][t]), user[queue'[s][t][i].name].up
          PROVE  wake[s][t] <= Moment(queue[s][t][i])' + ForwarderSleep
      <4>1. /\ i + 1 \in 1..Len(queue[s][t])
            /\ queue'[s][t][i] = queue[s][t][i + 1]
        BY <3>1, <3>2, <3>3
      <4>2. user[queue[s][t][i + 1].name].up
        BY <3>3, <4>1
      <4>3. wake[s][t] <= Moment(queue[s][t][i + 1]) + ForwarderSleep
        BY <1>3, <4>1, <4>2
      <4>4. Moment(queue[s][t][i])' = Moment(queue[s][t][i + 1])
        BY <1>2, <4>1 DEF Moment, Recent
      <4>5. QED
        BY <4>3, <4>4
    <3>4. QED
      BY <1>1, <1>2, <1>3, <2>3, <3>1, <3>3 DEF WaitsInTime
  <2>4. QED
    BY <2>1, <2>2, <2>3
<1>6. QED
  BY <1>4, <1>5

(* A queue takes a message at its end or, when it is full, not at all.     *)
LEMMA RelayIs ==
  ASSUME StaleInv, NEW s \in Server, NEW to, NEW m \in Message, Relay(s, to, m),
         NEW a \in Server, NEW b \in Server
  PROVE  \/ /\ ~(a = s /\ b \in to) /\ queue'[a][b] = queue[a][b]
            /\ wake'[a][b] = wake[a][b] /\ dropped'[a][b] = dropped[a][b]
         \/ /\ a = s /\ b \in to /\ queue[a][b] # << >>
            /\ queue'[a][b] = queue[a][b]
            /\ wake'[a][b] = wake[a][b] /\ dropped'[a][b] = now
         \/ /\ a = s /\ b \in to /\ queue'[a][b] = Append(queue[a][b], m)
            /\ wake'[a][b] = IF queue[a][b] = << >> THEN now + ForwarderSleep
                                                   ELSE wake[a][b]
            /\ dropped'[a][b] = dropped[a][b]
<1>1. /\ queue \in [Server -> [Server -> Seq(Message)]]
      /\ wake \in [Server -> [Server -> Nat]]
      /\ dropped \in [Server -> [Server -> Nat]]
      /\ queue[a][b] \in Seq(Message)
  BY StateIs DEF Typed
<1>2. queue'[a][b] = IF a = s /\ b \in to THEN Queued(queue[a][b], m) ELSE queue[a][b]
  BY <1>1 DEF Relay
<1>3. wake'[a][b] = IF a = s /\ b \in to /\ queue[a][b] = << >>
                    THEN now + ForwarderSleep ELSE wake[a][b]
  BY <1>1 DEF Relay
<1>4. dropped'[a][b] =
        IF a = s /\ b \in to /\ Queued(queue[a][b], m) = queue[a][b]
        THEN now ELSE dropped[a][b]
  <2> DEFINE full == {t \in to : Queued(queue[s][t], m) = queue[s][t]}
  <2>1. dropped' = [dropped EXCEPT ![s] =
          [t \in Server |-> IF t \in full THEN now ELSE dropped[s][t]]]
    BY <1>1 DEF Relay
  <2>2. b \in full <=> b \in to /\ Queued(queue[s][b], m) = queue[s][b]
    OBVIOUS
  <2> HIDE DEF full
  <2>3. QED
    BY <1>1, <2>1, <2>2
<1>5. CASE Len(queue[a][b]) > ForwarderMaxQ
  <2>1. Queued(queue[a][b], m) = queue[a][b]
    BY <1>5 DEF Queued
  <2>2. queue[a][b] # << >>
    BY <1>5, LwlAssumption DEF LwlAssumption
  <2>3. QED
    BY <1>2, <1>3, <1>4, <2>1, <2>2
<1>6. CASE ~(Len(queue[a][b]) > ForwarderMaxQ)
  <2>1. Queued(queue[a][b], m) = Append(queue[a][b], m)
    BY <1>6 DEF Queued
  <2>2. Append(queue[a][b], m) # queue[a][b]
    <3>1. Len(Append(queue[a][b], m)) = Len(queue[a][b]) + 1 /\ Len(queue[a][b]) \in Nat
      BY <1>1
    <3>2. QED
      BY <3>1
  <2>3. QED
    BY <1>2, <1>3, <1>4, <2>1, <2>2
<1>7. QED
  BY <1>5, <1>6

LEMMA ServeInTime ==
  ASSUME StaleInv, OriginInv, PromptInv, [Next]_vars, NEW c \in net, Serve(c)
  PROVE  (\A d \in net' : InTime(d)') /\ \A a, b \in Server : WaitsInTime(a, b)'
<1> DEFINE to == IF IsForwarded(c.msg) THEN {} ELSE Forwards[c.to]
<1>1. /\ c.to \in Server /\ c.msg \in Message /\ c.msg.name \in User
      /\ srv[c.to].up /\ c.msg.hops \in Nat
  BY StateIs DEF Typed
<1>2. to # {} => c.msg.hops = 0
  BY <1>1 DEF IsForwarded
<1>3. /\ Relay(c.to, to, c.msg) /\ net' \subseteq net
      /\ now' = now /\ UNCHANGED <<user, srv>>
  BY DEF Serve, Handle, userVars
<1> HIDE DEF to
<1>4. \A d \in net' : InTime(d)'
  BY <1>3, StaysInTime
<1>5. ASSUME NEW a \in Server, NEW b \in Server PROVE WaitsInTime(a, b)'
  <2>1. ~Crash(a)
    BY <1>3, <1>1, StateIs DEF Crash, Typed
  <2>2. CASE queue'[a][b] = queue[a][b] /\ wake'[a][b] = wake[a][b]
    BY <1>3, <2>1, <2>2, QueueStaysInTime
  <2>3. CASE /\ a = c.to /\ b \in to /\ queue'[a][b] = Append(queue[a][b], c.msg)
             /\ wake'[a][b] = IF queue[a][b] = << >> THEN now + ForwarderSleep
                                                    ELSE wake[a][b]
    <3> DEFINE q == queue[a][b]
               w == wake'[a][b]
    <3>1. /\ q \in Seq(Message) /\ wake[a][b] \in Nat /\ now \in Nat
          /\ ForwarderSleep \in Nat /\ srv[b].since \in Nat /\ w \in Nat
      <4>1. /\ q \in Seq(Message) /\ wake[a][b] \in Nat /\ now \in Nat
            /\ ForwarderSleep \in Nat /\ srv[b].since \in Nat
        BY StateIs, TimesAre DEF Typed
      <4>2. QED
        BY <2>3, <4>1
    <3>2. q # << >> =>
            /\ wake[a][b] <= now + ForwarderSleep
            /\ srv[b].up => now <= Larger(wake[a][b], srv[b].since + ForwarderSleep)
            /\ \A i \in 1..Len(q) :
                 user[q[i].name].up => wake[a][b] <= Moment(q[i]) + ForwarderSleep
      BY DEF PromptInv, WaitsInTime
    <3>3. w <= now + ForwarderSleep
      BY <2>3, <3>1, <3>2
    <3>4. srv[b].up => now <= Larger(w, srv[b].since + ForwarderSleep)
      BY <2>3, <3>1, <3>2 DEF Larger
    <3>5. user[c.msg.name].up => w <= Moment(c.msg) + ForwarderSleep
      <4>1. user[c.msg.name].up => now <= Moment(c.msg)
        BY <1>2, <2>3 DEF PromptInv, InTime
      <4>2. Moment(c.msg) \in Int
        <5>1. /\ user[c.msg.name].due \in Nat /\ user[c.msg.name].since \in Nat
              /\ Retransmit \in Nat
          BY <1>1, StateIs, TimesAre DEF Typed
        <5>2. QED
          BY <5>1 DEF Moment, Recent
      <4>3. QED
        BY <3>1, <3>3, <4>1, <4>2
    <3>6. ASSUME NEW i \in 1..Len(q) + 1
          PROVE  queue'[a][b][i] = IF i = Len(q) + 1 THEN c.msg ELSE q[i]
      BY <2>3, <3>1
    <3>7. Len(queue'[a][b]) = Len(q) + 1 /\ Len(q) \in Nat
      BY <2>3, <3>1
    <3> HIDE DEF q
    <3>8. ASSUME NEW i \in 1..Len(q) + 1, user[queue'[a][b][i].name].up
          PROVE  w <= Moment(queue[a][b][i])' + ForwarderSleep
      <4>1. CASE i = Len(q) + 1
        <5>1. queue'[a][b][i] = c.msg
          BY <3>6, <4>1
        <5>2. user[c.msg.name].up /\ Moment(queue[a][b][i])' = Moment(c.msg)
          BY <1>3, <3>8, <5>1 DEF Moment, Recent
        <5>3. QED
          BY <3>5, <5>2
      <4>2. CASE i # Len(q) + 1
        <5>1. i \in 1..Len(q) /\ queue'[a][b][i] = q[i] /\ q # << >>
          BY <3>6, <3>7, <4>2
        <5>2. user[q[i].name].up /\ Moment(queue[a][b][i])' = Moment(q[i])
          BY <1>3, <3>8, <5>1 DEF Moment, Recent
        <5>3. wake[a][b] <= Moment(q[i]) + ForwarderSleep /\ w = wake[a][b]
          BY <2>3, <3>2, <5>1, <5>2 DEF q
        <5>4. QED
          BY <5>2, <5>3
      <4>3. QED
        BY <4>1, <4>2
    <3>9. QED
      BY <1>1, <1>3, <2>3, <3>3, <3>4, <3>7, <3>8 DEF WaitsInTime
  <2>4. QED
    BY <1>1, <1>3, <2>2, <2>3, RelayIs
<1>6. QED
  BY <1>4, <1>5

LEMMA PromptStep ==
  StaleInv /\ OriginInv /\ PromptInv /\ [Next]_vars => PromptInv'
<1> SUFFICES ASSUME StaleInv, OriginInv, PromptInv, [Next]_vars
             PROVE  (\A c \in net' : InTime(c)')
                    /\ \A s, t \in Server : WaitsInTime(s, t)'
  BY ClockStep DEF PromptInv
<1>1. ASSUME now' = now, UNCHANGED <<srv, queue, wake>>
      PROVE  \A s, t \in Server : WaitsInTime(s, t)'
  <2>1. ASSUME NEW s \in Server, NEW t \in Server, queue[s][t] # << >>
        PROVE  ~Crash(s)
    BY <1>1, <2>1, StateIs DEF Crash, Typed, PromptInv, WaitsInTime
  <2>2. QED
    BY <1>1, <2>1, QueueStaysInTime DEF WaitsInTime
<1>2. ASSUME NEW u \in User, Start(u) \/ Refresh(u) \/ Exit(u)
      PROVE  \A c \in net' : InTime(c)'
  <2>1. user \in [User -> Speaking] /\ user[u] \in Speaking
    BY StateIs DEF Typed
  <2>2. CASE Start(u)
    <3>1. PICK x \in Draws[u] :
            /\ user' = [user EXCEPT ![u] = [up |-> TRUE, ssrc |-> x, bye |-> FALSE,
                          due |-> now + Retransmit, since |-> now]]
            /\ Call(u, "SDES", x, [s \in Server |-> 0])
      BY <2>2 DEF Start
    <3>2. user'[u].due = now + Retransmit /\ now' = now
      BY <2>1, <2>2, <3>1 DEF Start
    <3> DEFINE h == [s \in Server |-> 0]
    <3>3. Call(u, "SDES", x, h)
      BY <3>1
    <3> HIDE DEF h
    <3>4. QED
      BY <3>2, <3>3, CallInTime DEF Kind
  <2>3. CASE Refresh(u)
    <3>1. user'[u].due = now + Retransmit /\ now' = now
      BY <2>1, <2>3 DEF Refresh, Speaking
    <3>2. QED
      BY <2>3, <3>1, CallInTime DEF Kind, Refresh
  <2>4. CASE Exit(u)
    <3>1. ~user'[u].up /\ now' = now
      <4> DEFINE r == [user[u] EXCEPT !.up = FALSE, !.bye = TRUE, !.since = now]
      <4>1. user' = [user EXCEPT ![u] = r] /\ now' = now
        BY <2>4 DEF Exit
      <4>2. ~r.up
        BY <2>1 DEF Speaking
      <4> HIDE DEF r
      <4>3. QED
        BY <2>1, <4>1, <4>2
    <3>2. QED
      BY <2>4, <3>1, CallInTime DEF Kind, Exit
  <2>5. QED
    BY <1>2, <2>2, <2>3, <2>4
<1>3. ASSUME NEW u \in User, Speaker(u) PROVE \A s, t \in Server : WaitsInTime(s, t)'
  BY <1>1, <1>3 DEF Speaker, Start, Refresh, Exit, Vanish, serverVars
<1>4. ASSUME NEW u \in User, Vanish(u) PROVE \A c \in net' : InTime(c)'
  BY <1>4, StaysInTime DEF Vanish
<1>5. ASSUME NEW s \in Server, Sweep(s) \/ Restart(s)
      PROVE  (\A c \in net' : InTime(c)') /\ \A a, b \in Server : WaitsInTime(a, b)'
  <2>1. now' = now /\ UNCHANGED <<net, queue, wake>>
    BY <1>5 DEF Sweep, Restart, userVars
  <2>2. \A a \in Server : ~Crash(a)
    <3>1. srv \in [Server -> [up: BOOLEAN, since: Nat, sweep: Nat]]
      BY StateIs DEF Typed
    <3>2. \A a \in Server : srv[a].up => srv'[a].up
      <4>1. CASE Sweep(s)
        BY <3>1, <4>1 DEF Sweep
      <4>2. CASE Restart(s)
        BY <3>1, <4>2 DEF Restart
      <4>3. QED
        BY <1>5, <4>1, <4>2
    <3>3. \A a \in Server : Crash(a) => srv[a].up /\ ~srv'[a].up
      BY <3>1 DEF Crash
    <3>4. QED
      BY <3>2, <3>3
  <2>3. QED
    BY <2>1, <2>2, StaysInTime, QueueStaysInTime
<1>6. ASSUME NEW s \in Server, Crash(s)
      PROVE  (\A c \in net' : InTime(c)') /\ \A a, b \in Server : WaitsInTime(a, b)'
  <2>1. now' = now /\ net' \subseteq net
    BY <1>6 DEF Crash
  <2>2. ASSUME NEW a \in Server, NEW b \in Server PROVE WaitsInTime(a, b)'
    <3>1. CASE a = s
      <4>1. queue'[a][b] = << >>
        BY <1>6, <3>1, StateIs DEF Crash, Typed
      <4>2. QED
        BY <4>1 DEF WaitsInTime
    <3>2. CASE a # s
      <4>1. queue'[a][b] = queue[a][b] /\ wake'[a][b] = wake[a][b]
            /\ srv'[a] = srv[a]
        BY <1>6, <3>2, StateIs DEF Crash, Typed
      <4>2. ~Crash(a)
        <5>1. Crash(a) => ~srv'[a].up /\ srv[a].up
          BY StateIs DEF Crash, Typed
        <5>2. QED
          BY <4>1, <5>1
      <4>3. QED
        BY <2>1, <4>1, <4>2, QueueStaysInTime
    <3>3. QED
      BY <3>1, <3>2
  <2>3. QED
    BY <2>1, <2>2, StaysInTime
<1>7. ASSUME NEW s \in Server, NEW t \in Forwards[s], Pass(s, t)
      PROVE  (\A c \in net' : InTime(c)') /\ \A a, b \in Server : WaitsInTime(a, b)'
  BY <1>7, PassInTime
<1>8. ASSUME NEW c \in net, Serve(c)
      PROVE  (\A d \in net' : InTime(d)') /\ \A a, b \in Server : WaitsInTime(a, b)'
  BY <1>8, ServeInTime
<1>9. CASE Tick
  <2>1. /\ now' = now + 1 /\ net = {} /\ net' = {}
        /\ UNCHANGED <<user, srv, queue, wake>>
    BY <1>9 DEF Tick, userVars, serverVars
  <2>2. ASSUME NEW s \in Server, NEW t \in Server, queue[s][t] # << >>
        PROVE  WaitsInTime(s, t)'
    <3>1. /\ queue[s][t] \in Seq(Message) /\ wake[s][t] \in Nat /\ now \in Nat
          /\ ForwarderSleep \in Nat /\ srv[t].since \in Nat
      BY StateIs, TimesAre DEF Typed
    <3>2. /\ srv[s].up /\ wake[s][t] <= now + ForwarderSleep
          /\ \A i \in 1..Len(queue[s][t]) :
               user[queue[s][t][i].name].up =>
                 wake[s][t] <= Moment(queue[s][t][i]) + ForwarderSleep
      BY <2>2 DEF PromptInv, WaitsInTime
    <3>3. t \in Forwards[s]
      <4>1. 1 \in 1..Len(queue[s][t])
        BY <2>2, <3>1
      <4>2. QED
        BY <4>1 DEF OriginInv, Waits
    <3>4. ~PassDue(s, t)
      BY <1>9, <3>2, <3>3 DEF Tick, Awake
    <3>5. srv[t].up => now + 1 <= Larger(wake[s][t], srv[t].since + ForwarderSleep)
      BY <2>2, <3>1, <3>4 DEF PassDue, Larger
    <3>6. wake[s][t] <= now + 1 + ForwarderSleep
      BY <3>1, <3>2
    <3>7. QED
      BY <2>1, <3>2, <3>5, <3>6 DEF WaitsInTime, Moment, Recent
  <2>3. QED
    BY <2>1, <2>2 DEF WaitsInTime
<1>10. CASE UNCHANGED vars
  BY <1>10 DEF vars, userVars, serverVars, PromptInv, InTime, WaitsInTime, Moment,
               Recent
<1>11. QED
  BY <1>2, <1>3, <1>4, <1>5, <1>6, <1>7, <1>8, <1>9, <1>10
     DEF Next, Speaker, Sflwld

(* A chain has an entry of a speaker that is not older than a moment.      *)
Has(chain, u, w) == \E e \in Range(chain) : e.name = u /\ e.ltime >= w

(* An announcement on its way to a server, and behind one server to a      *)
(* server that one forwards to.                                            *)
Announces(m, u) == m.kind = "SDES" /\ m.name = u
OnTheWay(u, s) == \E c \in net : c.to = s /\ Announces(c.msg, u) /\ c.msg.hops = 0
Queues(u, s, t) == \E i \in 1..Len(queue[s][t]) : Announces(queue[s][t][i], u)
OnItsWay(u, s, t) ==
    \/ OnTheWay(u, s)
    \/ Queues(u, s, t)
    \/ \E c \in net : c.to = t /\ Announces(c.msg, u)

(* A server that hears an announcement lists the speaker from this moment. *)
LEMMA HeardLists ==
  ASSUME StaleInv, NEW c \in net, Serve(c), NEW u, Announces(c.msg, u)
  PROVE  \A w \in Int : w <= now => Has(conn'[c.to], u, w)
<1>1. /\ c.to \in Server /\ c.msg \in Message
      /\ conn' = [conn EXCEPT ![c.to] = Announced(conn[c.to], c.msg)]
  BY ServedIs DEF StaleInv, Announces
<1>2. now \in Nat /\ OneEach(conn[c.to]) /\ conn \in [Server -> Seq(Entry)]
  BY <1>1 DEF StaleInv, ChainInv, LoopInv, QueueInv
<1>3. conn'[c.to] = Announced(conn[c.to], c.msg)
  BY <1>1, <1>2
<1> DEFINE e == [name |-> c.msg.name, ssrc |-> c.msg.ssrc, ltime |-> now]
<1>4. e \in Range(conn'[c.to])
  BY <1>1, <1>2, <1>3, AnnouncedIs
<1>5. e.name = u /\ e.ltime = now
  BY DEF Announces
<1> HIDE DEF e
<1>6. QED
  BY <1>2, <1>4, <1>5 DEF Has

(* A farewell leaves the entries of other sources.                         *)
LEMMA DismissedKeeps ==
  ASSUME NEW chain, OneEach(chain), NEW m, NEW e \in Range(chain), e.ssrc # m.ssrc
  PROVE  e \in Range(Dismissed(chain, m))
<1> DEFINE left == Dismissed(chain, m)
<1>1. \/ Range(left) = Range(chain)
      \/ \E o \in Range(chain) : o.ssrc = m.ssrc /\ Range(left) = Range(chain) \ {o}
  BY DismissedIs
<1> HIDE DEF left
<1>2. QED
  BY <1>1 DEF left

(* An entry stays until its speaker says BYE or it is too old.             *)
LEMMA HasStays ==
  ASSUME StaleInv, OriginInv, [Next]_vars, NEW u \in User, NEW x \in Server,
         srv'[x].up, NEW w \in Int, Has(conn[x], u, w), w <= now,
         now <= w + Retransmit + ForwarderSleep,
         \A c \in net : c.to = x /\ c.msg.name = u /\ c.msg.kind # "SDES" => ~Serve(c)
  PROVE  Has(conn'[x], u, w)
<1>1. PICK e \in Range(conn[x]) : e.name = u /\ e.ltime >= w
  BY DEF Has
<1>2. /\ now \in Nat /\ conn \in [Server -> Seq(Entry)] /\ ChainInv
      /\ OneEach(conn[x])
  BY DEF StaleInv, ChainInv, LoopInv, QueueInv
<1>3. e \in Entry /\ e.ltime \in Nat
  BY <1>2, EntryIs DEF Entry
<1>4. ASSUME NEW c \in net, Serve(c) PROVE Has(conn'[x], u, w)
  <2>1. /\ c.to \in Server /\ c.msg \in Message
        /\ conn' = [conn EXCEPT ![c.to] =
                      IF c.msg.kind = "SDES" THEN Announced(conn[c.to], c.msg)
                                             ELSE Dismissed(conn[c.to], c.msg)]
    BY <1>2, <1>4, ServedIs
  <2>2. CASE c.to # x
    <3>1. conn'[x] = conn[x]
      BY <1>2, <2>1, <2>2
    <3>2. QED
      BY <3>1
  <2>3. CASE c.to = x /\ Announces(c.msg, u)
    BY <1>4, <2>3, HeardLists
  <2>4. CASE c.to = x /\ c.msg.kind = "SDES" /\ c.msg.name # u
    <3>1. conn'[x] = Announced(conn[x], c.msg)
      BY <1>2, <2>1, <2>4
    <3>2. e \in Range(Announced(conn[x], c.msg))
      BY <1>1, <1>2, <2>1, <2>4, AnnouncedIs
    <3>3. QED
      BY <1>1, <3>1, <3>2 DEF Has
  <2>5. CASE c.to = x /\ c.msg.kind # "SDES"
    <3>1. conn'[x] = Dismissed(conn[x], c.msg)
      BY <1>2, <2>1, <2>5
    <3>2. c.msg.name # u /\ c.msg.name \in User
      BY <1>4, <2>1, <2>5 DEF Message
    <3>3. c.msg.ssrc \in Draws[c.msg.name] /\ e.ssrc \in Draws[u]
      BY <1>1 DEF OriginInv, Genuine
    <3>4. e.ssrc # c.msg.ssrc
      BY <3>2, <3>3, LwlAssumption DEF LwlAssumption
    <3>5. e \in Range(Dismissed(conn[x], c.msg))
      BY <1>1, <1>2, <3>4, DismissedKeeps
    <3>6. QED
      BY <1>1, <3>1, <3>5 DEF Has
  <2>6. QED
    BY <2>2, <2>3, <2>4, <2>5 DEF Announces
<1>5. ASSUME NEW s \in Server, Sweep(s) PROVE Has(conn'[x], u, w)
  <2>1. conn' = [conn EXCEPT ![s] = conn'[s]]
        /\ Range(conn'[s]) = {o \in Range(conn[s]) : Fresh(o)}
    BY <1>2, <1>5, SweepIs
  <2>2. Fresh(e)
    BY <1>1, <1>2, <1>3, TimesAre DEF Fresh
  <2>3. e \in Range(conn'[x])
    <3>1. CASE s = x
      BY <1>1, <2>1, <2>2, <3>1
    <3>2. CASE s # x
      <4>1. conn'[x] = conn[x]
        BY <1>2, <2>1, <3>2
      <4>2. QED
        BY <1>1, <4>1
    <3>3. QED
      BY <3>1, <3>2
  <2>4. QED
    BY <1>1, <2>3 DEF Has
<1>6. ASSUME NEW s \in Server, Crash(s) PROVE Has(conn'[x], u, w)
  <2>1. s # x
    BY <1>6, StateIs DEF Crash, Typed
  <2>2. conn'[x] = conn[x]
    BY <1>2, <1>6, <2>1 DEF Crash
  <2>3. QED
    BY <2>2
<1>7. CASE UNCHANGED conn
  BY <1>7
<1>8. QED
  BY <1>4, <1>5, <1>6, <1>7, OthersLeave

(* A connection is there until it is served or the server stops.           *)
LEMMA NetSteps ==
  ASSUME [Next]_vars, NEW c \in net
  PROVE  c \in net' \/ Serve(c) \/ \E s \in Server : Crash(s) /\ s = c.to
BY DEF Next, Speaker, Sflwld, Start, Refresh, Exit, Vanish, Sweep, Crash, Restart,
       Pass, Serve, Tick, Call, serverVars, vars

(* A message is queued until it is passed on or the server stops.          *)
LEMMA QueueSteps ==
  ASSUME StaleInv, [Next]_vars, NEW u, NEW s \in Server, NEW t \in Server,
         srv'[s].up, Queues(u, s, t)
  PROVE  Queues(u, s, t)' \/ \E c \in net' : c.to = t /\ Announces(c.msg, u)
<1> DEFINE q == queue[s][t]
<1>1. /\ q \in Seq(Message) /\ queue \in [Server -> [Server -> Seq(Message)]]
      /\ srv \in [Server -> [up: BOOLEAN, since: Nat, sweep: Nat]]
  BY StateIs DEF Typed
<1>2. PICK i \in 1..Len(q) : Announces(q[i], u)
  BY DEF Queues
<1>3. CASE queue'[s][t] = q
  BY <1>3 DEF Queues
<1>4. ASSUME NEW c \in net, Serve(c) PROVE Queues(u, s, t)'
  <2> DEFINE to == IF IsForwarded(c.msg) THEN {} ELSE Forwards[c.to]
  <2>1. c.to \in Server /\ c.msg \in Message /\ Relay(c.to, to, c.msg)
    BY <1>4, StateIs DEF Serve, Handle, Typed
  <2> HIDE DEF to
  <2>2. queue'[s][t] = q \/ queue'[s][t] = Append(q, c.msg)
    BY <2>1, RelayIs
  <2>3. CASE queue'[s][t] = Append(q, c.msg)
    <3>1. i \in 1..Len(queue'[s][t]) /\ queue'[s][t][i] = q[i]
      BY <1>1, <1>2, <2>1, <2>3
    <3>2. QED
      BY <1>2, <3>1 DEF Queues
  <2>4. CASE queue'[s][t] = q
    BY <1>2, <2>4 DEF Queues
  <2>5. QED
    BY <2>2, <2>3, <2>4
<1>5. ASSUME NEW a \in Server, NEW b \in Forwards[a], Pass(a, b)
      PROVE  Queues(u, s, t)' \/ \E c \in net' : c.to = t /\ Announces(c.msg, u)
  <2>1. CASE ~(a = s /\ b = t)
    <3>1. queue'[s][t] = q
      BY <1>1, <1>5, <2>1 DEF Pass
    <3>2. QED
      BY <1>3, <3>1
  <2>2. CASE a = s /\ b = t /\ i = 1
    <3>1. PICK m \in Message : m = q[1] /\ m = Head(q)
      BY <1>1, <1>2, <2>2
    <3> DEFINE c == [to |-> t, msg |-> [m EXCEPT !.hops = @ + 1]]
    <3>2. c \in net'
      BY <1>5, <2>2, <3>1 DEF Pass
    <3>3. c.to = t /\ c.msg.kind = m.kind /\ c.msg.name = m.name
      BY DEF Message
    <3> HIDE DEF c
    <3>4. QED
      BY <1>2, <2>2, <3>1, <3>2, <3>3 DEF Announces
  <2>3. CASE a = s /\ b = t /\ i # 1
    <3>1. queue'[s][t] = Tail(q)
      BY <1>1, <1>5, <2>3 DEF Pass
    <3>2. i - 1 \in 1..Len(Tail(q)) /\ Tail(q)[i - 1] = q[i]
      BY <1>1, <1>2, <2>3
    <3>3. QED
      BY <1>2, <3>1, <3>2 DEF Queues
  <2>4. QED
    BY <2>1, <2>2, <2>3
<1>6. ASSUME NEW a \in Server, Crash(a) PROVE queue'[s][t] = q
  <2>1. a # s
    BY <1>1, <1>6 DEF Crash
  <2>2. QED
    BY <1>1, <1>6, <2>1 DEF Crash
<1>7. CASE UNCHANGED queue
  BY <1>3, <1>7
<1>8. QED
  BY <1>3, <1>4, <1>5, <1>6, <1>7
     DEF Next, Speaker, Sflwld, Start, Refresh, Exit, Vanish, Sweep, Restart, Tick,
         serverVars, vars

(* What is on its way arrives, or stays on its way.                        *)
LEMMA WayGoesOn ==
  ASSUME StaleInv, [Next]_vars, NEW u, NEW s \in Server, srv'[s].up,
         NEW w \in Int, w <= now, OnTheWay(u, s)
  PROVE  OnTheWay(u, s)' \/ Has(conn'[s], u, w)
<1>1. PICK c \in net : c.to = s /\ Announces(c.msg, u) /\ c.msg.hops = 0
  BY DEF OnTheWay
<1>2. ~Crash(s)
  BY StateIs DEF Crash, Typed
<1>3. CASE c \in net'
  BY <1>1, <1>3 DEF OnTheWay
<1>4. CASE Serve(c)
  BY <1>1, <1>4, HeardLists
<1>5. QED
  BY <1>1, <1>2, <1>3, <1>4, NetSteps

LEMMA ItsWayGoesOn ==
  ASSUME StaleInv, [Next]_vars, NEW u, NEW s \in Server, srv'[s].up,
         NEW t \in Forwards[s], srv'[t].up,
         NEW w \in Int, w <= now, OnItsWay(u, s, t)
  PROVE  \/ OnItsWay(u, s, t)' \/ Has(conn'[t], u, w)
         \/ dropped'[s][t] = now
<1>1. t \in Server
  BY LwlAssumption DEF LwlAssumption
<1>2. ~Crash(s) /\ ~Crash(t)
  <2>1. \A a \in Server : Crash(a) => ~srv'[a].up
    BY StateIs DEF Crash, Typed
  <2>2. QED
    BY <1>1, <2>1
<1>3. CASE OnTheWay(u, s)
  <2>1. PICK c \in net : c.to = s /\ Announces(c.msg, u) /\ c.msg.hops = 0
    BY <1>3 DEF OnTheWay
  <2>2. CASE c \in net'
    BY <2>1, <2>2 DEF OnItsWay, OnTheWay
  <2>3. CASE Serve(c)
    <3>1. c.msg \in Message /\ Relay(s, Forwards[s], c.msg)
      BY <2>1, <2>3, StateIs DEF Serve, Handle, IsForwarded, Typed
    <3>2. \/ dropped'[s][t] = now
          \/ queue'[s][t] = Append(queue[s][t], c.msg)
      BY <1>1, <3>1, RelayIs
    <3>3. CASE queue'[s][t] = Append(queue[s][t], c.msg)
      <4>1. queue[s][t] \in Seq(Message)
        BY <1>1, StateIs DEF Typed
      <4>2. /\ Len(queue[s][t]) + 1 \in 1..Len(queue'[s][t])
            /\ queue'[s][t][Len(queue[s][t]) + 1] = c.msg
        BY <3>1, <3>3, <4>1
      <4>3. QED
        BY <2>1, <4>2 DEF OnItsWay, Queues
    <3>4. QED
      BY <3>2, <3>3
  <2>4. QED
    BY <1>2, <2>1, <2>2, <2>3, NetSteps
<1>4. CASE Queues(u, s, t)
  BY <1>1, <1>4, QueueSteps DEF OnItsWay
<1>5. ASSUME NEW c \in net, c.to = t, Announces(c.msg, u)
      PROVE  OnItsWay(u, s, t)' \/ Has(conn'[t], u, w)
  <2>1. CASE c \in net'
    BY <1>5, <2>1 DEF OnItsWay
  <2>2. CASE Serve(c)
    BY <1>5, <2>2, HeardLists
  <2>3. QED
    BY <1>2, <1>5, <2>1, <2>2, NetSteps
<1>6. QED
  BY <1>3, <1>4, <1>5 DEF OnItsWay

(* What was announced last is on its way or listed, and what was announced *)
(* before stays listed until that has arrived.                             *)
Direct(u, s) ==
    /\ Recent(u) > Reached(u, s) => OnTheWay(u, s) \/ Has(conn[s], u, Recent(u))
    /\ Recent(u) - Retransmit > Reached(u, s) /\ now <= Recent(u) =>
         Has(conn[s], u, Recent(u) - Retransmit)
Behind(u, s, t) ==
    /\ Recent(u) > ReachedBehind(u, s, t) =>
         OnItsWay(u, s, t) \/ Has(conn[t], u, Recent(u))
    /\ /\ Recent(u) - Retransmit > ReachedBehind(u, s, t)
       /\ now <= Recent(u) + ForwarderSleep
       => Has(conn[t], u, Recent(u) - Retransmit)

ListInv ==
    \A u \in User, s \in Server :
      user[u].up /\ srv[s].up /\ s \in Told(u) =>
        Direct(u, s) /\ \A t \in Forwards[s] : srv[t].up => Behind(u, s, t)

(* The times from which on a speaker reaches a server.                     *)
LEMMA ReachIs ==
  ASSUME StaleInv, NEW u \in User, NEW s \in Server, NEW t \in Server
  PROVE  /\ Recent(u) \in Int /\ Reached(u, s) \in Nat
         /\ user[u].since \in Nat /\ srv[s].since \in Nat /\ srv[t].since \in Nat
         /\ ReachedBehind(u, s, t) \in Nat
         /\ user[u].since <= Reached(u, s) /\ srv[s].since <= Reached(u, s)
         /\ user[u].since + ForwarderSleep <= ReachedBehind(u, s, t)
         /\ srv[s].since + ForwarderSleep <= ReachedBehind(u, s, t)
         /\ srv[t].since + ForwarderSleep <= ReachedBehind(u, s, t)
         /\ dropped[s][t] <= ReachedBehind(u, s, t)
<1>1. /\ user[u].since \in Nat /\ srv[s].since \in Nat /\ srv[t].since \in Nat
      /\ user[u].due \in Nat /\ dropped[s][t] \in Nat
      /\ ForwarderSleep \in Nat /\ Retransmit \in Nat
  BY StateIs, TimesAre DEF Typed
<1>2. BothUp(u, s) \in Nat /\ user[u].since <= BothUp(u, s)
      /\ srv[s].since <= BothUp(u, s)
  BY <1>1 DEF BothUp, Larger
<1>3. Reached(u, s) \in Nat /\ BothUp(u, s) <= Reached(u, s)
  BY <1>1, <1>2 DEF Reached
<1>4. /\ ReachedBehind(u, s, t) \in Nat
      /\ BothUp(u, s) + ForwarderSleep <= ReachedBehind(u, s, t)
      /\ srv[t].since + ForwarderSleep <= ReachedBehind(u, s, t)
      /\ dropped[s][t] <= ReachedBehind(u, s, t)
  BY <1>1, <1>2 DEF ReachedBehind, Larger
<1>5. Recent(u) \in Int
  BY <1>1 DEF Recent
<1>6. QED
  BY <1>1, <1>2, <1>3, <1>4, <1>5

LEMMA NextReachIs ==
  ASSUME StaleInv, [Next]_vars, NEW u \in User, NEW s \in Server, NEW t \in Server
  PROVE  /\ Recent(u)' \in Int /\ Reached(u, s)' \in Nat
         /\ ReachedBehind(u, s, t)' \in Nat
         /\ user'[u].since <= Reached(u, s)' /\ srv'[s].since <= Reached(u, s)'
         /\ user'[u].since <= ReachedBehind(u, s, t)'
         /\ srv'[s].since <= ReachedBehind(u, s, t)'
         /\ srv'[t].since <= ReachedBehind(u, s, t)'
         /\ dropped'[s][t] <= ReachedBehind(u, s, t)'
<1>1. /\ user'[u].since \in Nat /\ srv'[s].since \in Nat /\ srv'[t].since \in Nat
      /\ user'[u].due \in Nat /\ dropped'[s][t] \in Nat
      /\ ForwarderSleep \in Nat /\ Retransmit \in Nat
  BY NextStateIs, TimesAre DEF Typed
<1>2. BothUp(u, s)' \in Nat /\ user'[u].since <= BothUp(u, s)'
      /\ srv'[s].since <= BothUp(u, s)'
  BY <1>1 DEF BothUp, Larger
<1>3. Reached(u, s)' \in Nat /\ BothUp(u, s)' <= Reached(u, s)'
  BY <1>1, <1>2 DEF Reached
<1>4. /\ ReachedBehind(u, s, t)' \in Nat
      /\ BothUp(u, s)' + ForwarderSleep <= ReachedBehind(u, s, t)'
      /\ srv'[t].since + ForwarderSleep <= ReachedBehind(u, s, t)'
      /\ dropped'[s][t] <= ReachedBehind(u, s, t)'
  BY <1>1, <1>2 DEF ReachedBehind, Larger
<1>5. Recent(u)' \in Int
  BY <1>1 DEF Recent
<1>6. QED
  BY <1>1, <1>2, <1>3, <1>4, <1>5

(* An old BYE of a speaker that runs again is on its way no longer than it *)
(* takes the speaker to reach the server.                                  *)
LEMMA OldBye ==
  ASSUME StaleInv, OriginInv, PromptInv, NEW c \in net, user[c.msg.name].up,
         c.msg.kind # "SDES", NEW s \in Server, NEW t \in Server
  PROVE  /\ c.to = s => now <= Reached(c.msg.name, s)
         /\ c.to = t => now <= ReachedBehind(c.msg.name, s, t)
<1>1. /\ c.msg \in Message /\ c.msg.name \in User /\ c.msg.hops \in Nat
      /\ c.to \in Server /\ now \in Nat /\ ForwarderSleep \in Nat
      /\ srv[c.to].since \in Nat /\ user[c.msg.name].since \in Nat
  BY StateIs, TimesAre DEF Typed
<1>2. Moment(c.msg) = user[c.msg.name].since
  BY <1>1 DEF Moment, Message, Kind
<1>3. now <= IF c.msg.hops = 0 THEN user[c.msg.name].since
             ELSE Larger(user[c.msg.name].since, srv[c.to].since) + ForwarderSleep
  BY <1>2 DEF PromptInv, InTime
<1>4. c.msg.hops # 0 => \E o \in Range(Tells[c.msg.name]) : c.to \in Forwards[o]
  BY DEF OriginInv, Arrives, Second, Tellers
<1>5. c.to = s => now <= Reached(c.msg.name, s)
  <2>1. CASE c.msg.hops = 0
    BY <1>1, <1>3, <2>1, ReachIs
  <2>2. CASE c.msg.hops # 0
    BY <1>3, <1>4, <2>2 DEF Reached, BothUp
  <2>3. QED
    BY <2>1, <2>2
<1>6. c.to = t => now <= ReachedBehind(c.msg.name, s, t)
  <2>1. /\ user[c.msg.name].since + ForwarderSleep <= ReachedBehind(c.msg.name, s, t)
        /\ srv[t].since + ForwarderSleep <= ReachedBehind(c.msg.name, s, t)
        /\ ReachedBehind(c.msg.name, s, t) \in Nat
    BY <1>1, ReachIs
  <2>2. QED
    BY <1>1, <1>3, <2>1 DEF Larger
<1>7. QED
  BY <1>5, <1>6

(* An announcement is on its way to a server for no time, and to one       *)
(* behind it for as long as the forwarder sleeps.                          *)
LEMMA WayIsShort ==
  ASSUME StaleInv, PromptInv, NEW u \in User, user[u].up, NEW s \in Server,
         OnTheWay(u, s)
  PROVE  now <= Recent(u)
BY DEF OnTheWay, Announces, PromptInv, InTime, Moment

LEMMA ItsWayIsShort ==
  ASSUME StaleInv, PromptInv, NEW u \in User, user[u].up,
         NEW s \in Server, NEW t \in Server, srv[t].up, OnItsWay(u, s, t)
  PROVE  now <= Recent(u) + ForwarderSleep \/ now <= ReachedBehind(u, s, t)
<1>1. /\ now \in Nat /\ ForwarderSleep \in Nat /\ wake[s][t] \in Nat
      /\ srv[t].since \in Nat /\ Recent(u) \in Int
      /\ ReachedBehind(u, s, t) \in Nat
      /\ srv[t].since + ForwarderSleep <= ReachedBehind(u, s, t)
      /\ queue[s][t] \in Seq(Message)
  BY StateIs, TimesAre, ReachIs DEF Typed
<1>2. CASE OnTheWay(u, s)
  BY <1>1, <1>2, WayIsShort
<1>3. CASE Queues(u, s, t)
  <2>1. PICK i \in 1..Len(queue[s][t]) : Announces(queue[s][t][i], u)
    BY <1>3 DEF Queues
  <2>2. queue[s][t] # << >>
    BY <1>1, <2>1
  <2>3. /\ now <= Larger(wake[s][t], srv[t].since + ForwarderSleep)
        /\ wake[s][t] <= Moment(queue[s][t][i]) + ForwarderSleep
    BY <2>1, <2>2 DEF PromptInv, WaitsInTime, Announces
  <2>4. Moment(queue[s][t][i]) = Recent(u)
    BY <2>1 DEF Moment, Announces
  <2>5. QED
    BY <1>1, <2>3, <2>4 DEF Larger
<1>4. ASSUME NEW c \in net, c.to = t, Announces(c.msg, u)
      PROVE  now <= Recent(u) + ForwarderSleep \/ now <= ReachedBehind(u, s, t)
  <2>1. Moment(c.msg) = Recent(u) /\ user[c.msg.name].up
    BY <1>4 DEF Moment, Announces
  <2>2. now <= IF c.msg.hops = 0 THEN Recent(u)
               ELSE Larger(Recent(u), srv[t].since) + ForwarderSleep
    BY <1>4, <2>1 DEF PromptInv, InTime
  <2>3. QED
    BY <1>1, <2>2 DEF Larger
<1>5. QED
  BY <1>2, <1>3, <1>4 DEF OnItsWay

LEMMA DroppedSteps ==
  ASSUME StaleInv, [Next]_vars, NEW s \in Server, NEW t \in Server, srv'[s].up
  PROVE  dropped'[s][t] = dropped[s][t] \/ dropped'[s][t] = now
<1>1. /\ dropped \in [Server -> [Server -> Nat]]
      /\ srv \in [Server -> [up: BOOLEAN, since: Nat, sweep: Nat]]
  BY StateIs DEF Typed
<1>2. ASSUME NEW a \in Server, Crash(a) PROVE dropped'[s][t] = dropped[s][t]
  <2>1. a # s
    BY <1>1, <1>2 DEF Crash
  <2>2. QED
    BY <1>1, <1>2, <2>1 DEF Crash
<1>3. ASSUME NEW c \in net, Serve(c)
      PROVE  dropped'[s][t] = dropped[s][t] \/ dropped'[s][t] = now
  <2> DEFINE to == IF IsForwarded(c.msg) THEN {} ELSE Forwards[c.to]
  <2>1. c.to \in Server /\ c.msg \in Message /\ Relay(c.to, to, c.msg)
    BY <1>3, StateIs DEF Serve, Handle, Typed
  <2> HIDE DEF to
  <2>2. QED
    BY <2>1, RelayIs
<1>4. CASE UNCHANGED dropped
  BY <1>4
<1>5. QED
  BY <1>2, <1>3, <1>4
     DEF Next, Speaker, Sflwld, Start, Refresh, Exit, Vanish, Sweep, Restart, Pass,
         Tick, serverVars, vars

(* Who refreshes has just announced itself to whom it tells.               *)
LEMMA RefreshAnnounces ==
  ASSUME StaleInv, NEW u \in User, Refresh(u), NEW s \in Server, srv[s].up,
         s \in Told(u)'
  PROVE  s \in Told(u) /\ OnTheWay(u, s)'
<1>1. /\ strikes \in [User -> [Server -> 0..StrikeOut]] /\ StrikeOut \in Nat
      /\ Call(u, "SDES", user[u].ssrc, strikes[u])
  BY LwlAssumption DEF LwlAssumption, StaleInv, SweepInv, Refresh
<1>2. s \in Tellers(u) /\ strikes'[u][s] < StrikeOut
  BY DEF Told, Tellers
<1>3. strikes[u][s] < StrikeOut
  <2>1. CASE ~(strikes[u][s] < StrikeOut)
    <3>1. strikes'[u][s] = strikes[u][s]
      BY <1>1, <2>1 DEF Call
    <3>2. QED
      BY <1>2, <2>1, <3>1
  <2>2. QED
    BY <2>1
<1> DEFINE m == [kind |-> "SDES", name |-> u, ssrc |-> user[u].ssrc, hops |-> 0]
           c == [to |-> s, msg |-> m]
<1>4. c \in net'
  BY <1>1, <1>2, <1>3, CallIs
<1>5. c.to = s /\ c.msg = m /\ m.kind = "SDES" /\ m.name = u /\ m.hops = 0
  OBVIOUS
<1> HIDE DEF c, m
<1>6. QED
  BY <1>2, <1>3, <1>4, <1>5 DEF Told, Tellers, OnTheWay, Announces

(* A speaker is not heard of any more than before in a step that is not    *)
(* its own.                                                                *)
LEMMA DirectSteps ==
  ASSUME StaleInv, OriginInv, PromptInv, ListInv, [Next]_vars,
         NEW u \in User, user'[u].up, NEW s \in Server, srv'[s].up, s \in Told(u)'
  PROVE  Direct(u, s)'
<1>1. /\ now \in Nat /\ Retransmit \in Nat /\ ForwarderSleep \in Nat
      /\ 0 < Retransmit /\ user[u].due \in Nat /\ now' \in Nat
      /\ Recent(u) \in Int /\ Reached(u, s) \in Nat
      /\ Recent(u)' \in Int /\ Reached(u, s)' \in Nat
      /\ user'[u].since <= Reached(u, s)' /\ srv'[s].since <= Reached(u, s)'
      /\ user'[u].due \in Nat
  BY StateIs, NextStateIs, TimesAre, ReachIs, NextReachIs DEF Typed
<1>2. now <= now'
  <2>1. now' = now \/ now' = now + 1
    BY DEF Next, Speaker, Sflwld, Start, Refresh, Exit, Vanish, Sweep, Crash,
           Restart, Pass, Serve, Handle, Tick, vars
  <2>2. QED
    BY <1>1, <2>1
<1>3. user[u].up => /\ Recent(u) <= now /\ now <= Recent(u) + Retransmit
                    /\ user[u].due = Recent(u) + Retransmit
  BY <1>1 DEF PromptInv, ClockInv, Recent
<1>4. CASE user'[u] = user[u] /\ strikes'[u] = strikes[u]
  <2>1. Recent(u)' = Recent(u) /\ user[u].up /\ s \in Told(u)
    BY <1>4 DEF Recent, Told
  <2>2. CASE srv'[s].since = now
    BY <1>1, <1>3, <2>1, <2>2 DEF Direct
  <2>3. CASE srv[s].up /\ srv'[s].since = srv[s].since
    <3>1. Reached(u, s)' = Reached(u, s) /\ Direct(u, s)
      BY <1>4, <2>1, <2>3 DEF Reached, BothUp, ListInv
    <3>2. ASSUME now > Reached(u, s), NEW w \in Int, w <= now,
                 now <= w + Retransmit + ForwarderSleep, Has(conn[s], u, w)
          PROVE  Has(conn'[s], u, w)
      <4>1. \A c \in net : ~(c.to = s /\ c.msg.name = u /\ c.msg.kind # "SDES")
        BY <1>1, <2>1, <3>2, OldBye
      <4>2. QED
        BY <3>2, <4>1, HasStays
    <3>3. ASSUME Recent(u) > Reached(u, s)
          PROVE  OnTheWay(u, s)' \/ Has(conn'[s], u, Recent(u))
      <4>1. OnTheWay(u, s) \/ Has(conn[s], u, Recent(u))
        BY <3>1, <3>3 DEF Direct
      <4>2. CASE OnTheWay(u, s)
        BY <1>3, <1>1, <2>1, <4>2, WayGoesOn
      <4>3. CASE Has(conn[s], u, Recent(u))
        BY <1>1, <1>3, <2>1, <3>2, <3>3, <4>3
      <4>4. QED
        BY <4>1, <4>2, <4>3
    <3>4. ASSUME Recent(u) - Retransmit > Reached(u, s), now' <= Recent(u)
          PROVE  Has(conn'[s], u, Recent(u) - Retransmit)
      <4>1. Has(conn[s], u, Recent(u) - Retransmit)
        BY <1>1, <1>2, <3>1, <3>4 DEF Direct
      <4>2. QED
        BY <1>1, <1>2, <1>3, <2>1, <3>2, <3>4, <4>1
    <3>5. QED
      BY <2>1, <3>1, <3>3, <3>4 DEF Direct
  <2>4. ~Crash(s)
    BY StateIs DEF Typed, Crash
  <2>5. QED
    BY <2>2, <2>3, <2>4, ServerSteps
<1>5. CASE user'[u].since = now /\ user'[u].due = now + Retransmit
  <2>1. Recent(u)' = now
    BY <1>1, <1>5 DEF Recent
  <2>2. QED
    BY <1>1, <1>5, <2>1 DEF Direct
<1>6. CASE /\ Refresh(u) /\ now' = now /\ user[u].up
           /\ user'[u].since = user[u].since /\ user'[u].due = now + Retransmit
           /\ user[u].due <= now
  <2>1. Recent(u)' = now /\ now = Recent(u) + Retransmit
    BY <1>1, <1>3, <1>6 DEF Recent
  <2>2. UNCHANGED <<srv, conn>> /\ srv[s].up
    BY <1>6 DEF Refresh, serverVars
  <2>3. Reached(u, s)' = Reached(u, s)
    BY <1>6, <2>2 DEF Reached, BothUp
  <2>4. s \in Told(u) /\ OnTheWay(u, s)'
    BY <1>6, <2>2, RefreshAnnounces
  <2>5. ASSUME Recent(u) > Reached(u, s) PROVE Has(conn[s], u, Recent(u))
    <3>1. OnTheWay(u, s) \/ Has(conn[s], u, Recent(u))
      BY <1>6, <2>2, <2>4, <2>5 DEF ListInv, Direct
    <3>2. ~OnTheWay(u, s)
      BY <1>1, <1>6, <2>1, WayIsShort
    <3>3. QED
      BY <3>1, <3>2
  <2>6. Recent(u)' - Retransmit = Recent(u)
    BY <1>1, <2>1
  <2>7. QED
    BY <2>2, <2>3, <2>4, <2>5, <2>6 DEF Direct
<1>7. QED
  BY <1>4, <1>5, <1>6, UserSteps

LEMMA BehindSteps ==
  ASSUME StaleInv, OriginInv, PromptInv, ListInv, [Next]_vars,
         NEW u \in User, user'[u].up, NEW s \in Server, srv'[s].up, s \in Told(u)',
         NEW t \in Forwards[s], srv'[t].up
  PROVE  Behind(u, s, t)'
<1>0. t \in Server
  BY LwlAssumption DEF LwlAssumption
<1>1. /\ now \in Nat /\ Retransmit \in Nat /\ ForwarderSleep \in Nat
      /\ ForwarderSleep < Retransmit /\ user[u].due \in Nat /\ now' \in Nat
      /\ Recent(u) \in Int /\ ReachedBehind(u, s, t) \in Nat
      /\ Recent(u)' \in Int /\ ReachedBehind(u, s, t)' \in Nat
      /\ user'[u].since <= ReachedBehind(u, s, t)'
      /\ srv'[s].since <= ReachedBehind(u, s, t)'
      /\ srv'[t].since <= ReachedBehind(u, s, t)'
      /\ dropped'[s][t] <= ReachedBehind(u, s, t)'
      /\ user'[u].due \in Nat
  BY <1>0, StateIs, NextStateIs, TimesAre, ReachIs, NextReachIs DEF Typed
<1>2. now <= now'
  <2>1. now' = now \/ now' = now + 1
    BY DEF Next, Speaker, Sflwld, Start, Refresh, Exit, Vanish, Sweep, Crash,
           Restart, Pass, Serve, Handle, Tick, vars
  <2>2. QED
    BY <1>1, <2>1
<1>3. user[u].up => /\ Recent(u) <= now /\ now <= Recent(u) + Retransmit
                    /\ user[u].due = Recent(u) + Retransmit
  BY <1>1 DEF PromptInv, ClockInv, Recent
<1>4. CASE user'[u] = user[u] /\ strikes'[u] = strikes[u]
  <2>1. Recent(u)' = Recent(u) /\ user[u].up /\ s \in Told(u)
    BY <1>4 DEF Recent, Told
  <2>2. CASE srv'[s].since = now \/ srv'[t].since = now \/ dropped'[s][t] = now
    BY <1>1, <1>3, <2>1, <2>2 DEF Behind
  <2>3. CASE /\ srv[s].up /\ srv'[s].since = srv[s].since
             /\ srv[t].up /\ srv'[t].since = srv[t].since
             /\ dropped'[s][t] = dropped[s][t] /\ dropped'[s][t] # now
    <3>1. ReachedBehind(u, s, t)' = ReachedBehind(u, s, t) /\ Behind(u, s, t)
      BY <1>4, <2>1, <2>3 DEF ReachedBehind, BothUp, ListInv
    <3>2. ASSUME now > ReachedBehind(u, s, t), NEW w \in Int, w <= now,
                 now <= w + Retransmit + ForwarderSleep, Has(conn[t], u, w)
          PROVE  Has(conn'[t], u, w)
      <4>1. \A c \in net : ~(c.to = t /\ c.msg.name = u /\ c.msg.kind # "SDES")
        BY <1>0, <1>1, <2>1, <3>2, OldBye
      <4>2. QED
        BY <1>0, <3>2, <4>1, HasStays
    <3>3. ASSUME Recent(u) > ReachedBehind(u, s, t)
          PROVE  OnItsWay(u, s, t)' \/ Has(conn'[t], u, Recent(u))
      <4>1. OnItsWay(u, s, t) \/ Has(conn[t], u, Recent(u))
        BY <3>1, <3>3 DEF Behind
      <4>2. CASE OnItsWay(u, s, t)
        BY <1>1, <1>3, <2>1, <2>3, <4>2, ItsWayGoesOn
      <4>3. CASE Has(conn[t], u, Recent(u))
        BY <1>1, <1>3, <2>1, <3>2, <3>3, <4>3
      <4>4. QED
        BY <4>1, <4>2, <4>3
    <3>4. ASSUME Recent(u) - Retransmit > ReachedBehind(u, s, t),
                 now' <= Recent(u) + ForwarderSleep
          PROVE  Has(conn'[t], u, Recent(u) - Retransmit)
      <4>1. Has(conn[t], u, Recent(u) - Retransmit)
        BY <1>1, <1>2, <3>1, <3>4 DEF Behind
      <4>2. QED
        BY <1>1, <1>2, <1>3, <2>1, <3>2, <3>4, <4>1
    <3>5. QED
      BY <2>1, <3>1, <3>3, <3>4 DEF Behind
  <2>4. \A x \in Server : Crash(x) => ~srv'[x].up
    BY StateIs DEF Typed, Crash
  <2>5. \A x \in {s, t} : srv'[x].since = now
                           \/ (srv[x].up /\ srv'[x].since = srv[x].since)
    BY <1>0, <2>4, ServerSteps
  <2>6. dropped'[s][t] = dropped[s][t] \/ dropped'[s][t] = now
    BY <1>0, DroppedSteps
  <2>7. QED
    BY <2>2, <2>3, <2>5, <2>6
<1>5. CASE user'[u].since = now /\ user'[u].due = now + Retransmit
  <2>1. Recent(u)' = now
    BY <1>1, <1>5 DEF Recent
  <2>2. QED
    BY <1>1, <1>5, <2>1 DEF Behind
<1>6. CASE /\ Refresh(u) /\ now' = now /\ user[u].up
           /\ user'[u].since = user[u].since /\ user'[u].due = now + Retransmit
           /\ user[u].due <= now
  <2>1. Recent(u)' = now /\ now = Recent(u) + Retransmit
    BY <1>1, <1>3, <1>6 DEF Recent
  <2>2. UNCHANGED <<srv, conn, dropped>> /\ srv[s].up /\ srv[t].up
    BY <1>6 DEF Refresh, serverVars
  <2>3. ReachedBehind(u, s, t)' = ReachedBehind(u, s, t)
    BY <1>6, <2>2 DEF ReachedBehind, BothUp
  <2>4. s \in Told(u) /\ OnItsWay(u, s, t)'
    BY <1>6, <2>2, RefreshAnnounces DEF OnItsWay
  <2>5. ASSUME Recent(u) > ReachedBehind(u, s, t) PROVE Has(conn[t], u, Recent(u))
    <3>1. OnItsWay(u, s, t) \/ Has(conn[t], u, Recent(u))
      BY <1>6, <2>2, <2>4, <2>5 DEF ListInv, Behind
    <3>2. ~OnItsWay(u, s, t)
      <4>1. ~(now <= Recent(u) + ForwarderSleep) /\ ~(now <= ReachedBehind(u, s, t))
        BY <1>1, <2>1, <2>5
      <4>2. QED
        BY <1>0, <1>6, <2>2, <4>1, ItsWayIsShort
    <3>3. QED
      BY <3>1, <3>2
  <2>6. Recent(u)' - Retransmit = Recent(u)
    BY <1>1, <2>1
  <2>7. QED
    BY <2>2, <2>3, <2>4, <2>5, <2>6 DEF Behind
<1>7. QED
  BY <1>4, <1>5, <1>6, UserSteps

LEMMA ListStep ==
  StaleInv /\ OriginInv /\ PromptInv /\ ListInv /\ [Next]_vars => ListInv'
<1> SUFFICES ASSUME StaleInv, OriginInv, PromptInv, ListInv, [Next]_vars,
                    NEW u \in User, NEW s \in Server,
                    user'[u].up, srv'[s].up, s \in Told(u)'
             PROVE  /\ Direct(u, s)'
                    /\ \A t \in Forwards[s] : srv'[t].up => Behind(u, s, t)'
  BY DEF ListInv
<1>1. QED
  BY DirectSteps, BehindSteps

(* A speaker that runs is listed by the servers it tells and by those they *)
(* forward to (lwld.c 655-683, 1018-1035, 1209-1301; speaker.c,            *)
(* sendLwlMessage), for any lists of servers, forwarding in circles too:   *)
(* from the first refresh after they are all up, and while no queue was    *)
(* full, neither late BYEs of its former sessions nor sweeps nor restarts  *)
(* of servers take it out.                                                 *)
THEOREM RunnersAreListed == Spec => []KeptListed
<1>1. Init => ListInv
  BY DEF Init, ListInv
<1>2. Spec => [](StaleInv /\ OriginInv /\ PromptInv /\ ListInv)
  BY <1>1, StaleInit, StaleStep, OriginInit, OriginStep, PromptInit, PromptStep,
     ListStep, PTL DEF Spec
<1>3. StaleInv /\ PromptInv /\ ListInv => KeptListed
  <2> SUFFICES ASSUME StaleInv, PromptInv, ListInv, NEW u \in User, NEW s \in Server,
                      user[u].up, srv[s].up, s \in Told(u)
               PROVE  /\ now > Reached(u, s) + Retransmit => u \in Names(conn[s])
                      /\ \A t \in Forwards[s] :
                           /\ srv[t].up
                           /\ now > ReachedBehind(u, s, t) + Retransmit
                                      + ForwarderSleep
                           => u \in Names(conn[t])
    BY DEF KeptListed
  <2>1. /\ now \in Nat /\ Retransmit \in Nat /\ ForwarderSleep \in Nat
        /\ user[u].due \in Nat /\ Recent(u) \in Int /\ Reached(u, s) \in Nat
    BY StateIs, TimesAre, ReachIs DEF Typed
  <2>2. Recent(u) <= now /\ now <= Recent(u) + Retransmit
    BY <2>1 DEF PromptInv, ClockInv, Recent
  <2>3. \A chain, w : Has(chain, u, w) => u \in Names(chain)
    BY DEF Has, Names
  <2>4. ASSUME now > Reached(u, s) + Retransmit PROVE u \in Names(conn[s])
    <3>1. Direct(u, s)
      BY DEF ListInv
    <3>2. CASE now <= Recent(u) /\ Recent(u) - Retransmit > Reached(u, s)
      BY <2>3, <3>1, <3>2 DEF Direct
    <3>3. CASE ~(now <= Recent(u))
      <4>1. Recent(u) > Reached(u, s)
        BY <2>1, <2>2, <2>4
      <4>2. ~OnTheWay(u, s)
        BY <3>3, WayIsShort
      <4>3. QED
        BY <2>3, <3>1, <4>1, <4>2 DEF Direct
    <3>4. QED
      BY <2>1, <2>2, <2>4, <3>2, <3>3
  <2>5. ASSUME NEW t \in Forwards[s], srv[t].up,
               now > ReachedBehind(u, s, t) + Retransmit + ForwarderSleep
        PROVE  u \in Names(conn[t])
    <3>1. Behind(u, s, t) /\ t \in Server
      BY <2>5, LwlAssumption DEF ListInv, LwlAssumption
    <3>2. ReachedBehind(u, s, t) \in Nat
      BY <3>1, ReachIs
    <3>3. CASE /\ now <= Recent(u) + ForwarderSleep
               /\ Recent(u) - Retransmit > ReachedBehind(u, s, t)
      BY <2>3, <3>1, <3>3 DEF Behind
    <3>4. CASE ~(now <= Recent(u) + ForwarderSleep)
      <4>1. Recent(u) > ReachedBehind(u, s, t) /\ ~(now <= ReachedBehind(u, s, t))
        BY <2>1, <2>2, <2>5, <3>2
      <4>2. ~OnItsWay(u, s, t)
        BY <2>5, <3>1, <3>4, <4>1, ItsWayIsShort
      <4>3. QED
        BY <2>3, <3>1, <4>1, <4>2 DEF Behind
    <3>5. QED
      BY <2>1, <2>2, <2>5, <3>2, <3>3, <3>4
  <2>6. QED
    BY <2>4, <2>5
<1>4. QED
  BY <1>2, <1>3, PTL
=============================================================================
