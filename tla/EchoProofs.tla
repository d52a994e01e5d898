----------------------------- MODULE EchoProofs -----------------------------
(***************************************************************************)
(* Proofs about Echo for every value of its constants.                     *)
(***************************************************************************)
EXTENDS Echo, SequenceTheorems, TLAPS

(* A shuffle permutes the packets and leaves every position its time.      *)
LEMMA ShuffledProperties ==
    ASSUME queue \in Seq(Packet), NEW n \in 1..ShuffleDepth, n < Len(queue)
    PROVE  /\ Shuffled(n) \in Seq(Packet)
           /\ DOMAIN Shuffled(n) = DOMAIN queue
           /\ \A i \in DOMAIN queue :
                /\ Shuffled(n)[i].when = queue[i].when
                /\ \E j \in DOMAIN queue :
                     /\ Shuffled(n)[i].host = queue[j].host
                     /\ Shuffled(n)[i].live = queue[j].live
<1>0. ShuffleDepth \in Nat
  BY EchoAssumption DEF EchoAssumption
<1> DEFINE s == Shuffled(n)
<1>1. DOMAIN queue = 1..Len(queue) /\ Len(queue) \in Nat
  OBVIOUS
<1>2. n + 1 \in 1..Len(queue) /\ 1 \in 1..Len(queue) /\ n + 1 # 1
  BY <1>1, <1>0
<1>3. DOMAIN s = DOMAIN queue
  BY DEF Shuffled
<1>4. \A i \in 1..Len(queue) : queue[i] \in Packet
  BY <1>1
<1>5. ASSUME NEW i \in 1..Len(queue)
      PROVE  /\ s[i] \in Packet /\ s[i].when = queue[i].when
             /\ \E j \in 1..Len(queue) : /\ s[i].host = queue[j].host
                                        /\ s[i].live = queue[j].live
  <2>1. CASE i = 1
    <3>1. s[i] = [queue[n + 1] EXCEPT !.when = queue[1].when]
      BY <2>1, <1>1, <1>2 DEF Shuffled
    <3> QED BY <3>1, <2>1, <1>2, <1>4 DEF Packet
  <2>2. CASE i = n + 1
    <3>1. s[i] = [queue[1] EXCEPT !.when = queue[n + 1].when]
      BY <2>2, <1>1, <1>2 DEF Shuffled
    <3> QED BY <3>1, <2>2, <1>2, <1>4 DEF Packet
  <2>3. CASE i # 1 /\ i # n + 1
    <3>1. s[i] = queue[i]
      BY <2>3, <1>1, <1>2 DEF Shuffled
    <3> QED BY <3>1, <1>4
  <2> QED BY <2>1, <2>2, <2>3
<1>6. s \in Seq(Packet)
  <2>1. s = [i \in 1..Len(queue) |-> s[i]]
    BY <1>1 DEF Shuffled
  <2> QED BY <2>1, <1>1, <1>5
<1> QED BY <1>1, <1>3, <1>5, <1>6

-----------------------------------------------------------------------------
(* Every reachable state of the echo server is well typed. *)
THEOREM TypeCorrect == Spec => []TypeOK
<1>a. EchoTime \in Nat
  BY EchoAssumption DEF EchoAssumption
<1>b. MaxPackets \in Nat
  BY EchoAssumption DEF EchoAssumption
<1>c. TickTock \in Nat /\ TockTock \in Nat /\ Latency \in Nat
  BY EchoAssumption DEF EchoAssumption
<1>d. LwlRetransmit \in Nat
  BY EchoAssumption DEF EchoAssumption
<1>e. ShuffleDepth \in Nat
  BY EchoAssumption DEF EchoAssumption
<1>1. Init => TypeOK
  <2> SUFFICES ASSUME Init PROVE TypeOK
    OBVIOUS
  <2>1. pkt \in Datagram
    BY <1>b DEF Init, Datagram
  <2>2. conn \in [DOMAIN conn -> Connection] /\ DOMAIN conn \subseteq Host
    BY DEF Init, NoConnection, Connection
  <2>3. rel \in [Caller -> Activation]
    BY DEF Init, Outside, Activation
  <2>4. sdes \in BOOLEAN
    BY EchoFlags DEF EchoFlags, Init
  <2>5. queue \in Seq(Packet) /\ echoed \in Seq(Reply)
    BY DEF Init
  <2>6. /\ now \in Nat /\ alarm \in Nat /\ lwltimer \in Nat /\ published \in Nat
        /\ received \in 0..MaxPackets
    BY <1>b, <1>c, <1>d DEF Init
  <2> QED BY <2>1, <2>2, <2>3, <2>4, <2>5, <2>6 DEF Init, TypeOK
<1>2. TypeOK /\ [Next]_vars => TypeOK'
  <2> SUFFICES ASSUME TypeOK, [Next]_vars PROVE TypeOK'
    OBVIOUS
  <2> USE DEF TypeOK
  <2>a. ASSUME NEW step \in Int
        PROVE  Ularm(step) \in Nat \cup {Off}
    BY <2>a DEF Ularm
  <2>1. ASSUME NEW h \in Host, NEW bye \in BOOLEAN, Receive(h, bye)
        PROVE  TypeOK'
    <3>1. pkt' \in Datagram
      BY <2>1, <1>a, <1>b DEF Receive, Datagram
    <3> QED BY <2>1, <3>1, <1>b DEF Receive, lwlVars
  <2>2. CASE EnterCritical
    BY <2>2 DEF EnterCritical, lwlVars
  <2>3. CASE Connect
    <3>1. pkt.host \in Host /\ pkt.when \in Nat
      BY DEF Datagram
    <3>2. [timeout |-> pkt.when, bye |-> FALSE] \in Connection
      BY <3>1 DEF Connection
    <3>3. DOMAIN conn' \subseteq Host /\ conn' \in [DOMAIN conn' -> Connection]
      BY <2>3, <3>1, <3>2 DEF Connect
    <3>4. gone' \subseteq Host
      BY <2>3, <3>1 DEF Connect
    <3> QED BY <2>3, <3>3, <3>4 DEF Connect, lwlVars
  <2>4. CASE ServeBye
    <3>1. DOMAIN conn' \subseteq Host /\ conn' \in [DOMAIN conn' -> Connection]
      BY <2>4 DEF ServeBye, Connection, Datagram
    <3>2. queue' \in Seq(Packet)
      <4>1. DOMAIN queue = 1..Len(queue) /\ Len(queue) \in Nat
        OBVIOUS
      <4>2. ASSUME NEW i \in 1..Len(queue)
            PROVE  [queue[i] EXCEPT !.live = @ /\ queue[i].host # pkt.host]
                     \in Packet
        <5>1. queue[i] \in Packet
          BY <4>2
        <5>2. (queue[i].live /\ queue[i].host # pkt.host) \in BOOLEAN
          OBVIOUS
        <5> QED BY <5>1, <5>2, Zenon DEF Packet
      <4>3. queue' = [i \in 1..Len(queue) |->
                 [queue[i] EXCEPT !.live = @ /\ queue[i].host # pkt.host]]
        BY <2>4, <4>1 DEF ServeBye
      <4> QED BY <4>1, <4>2, <4>3
    <3>3. gone' \subseteq Host
      BY <2>4 DEF ServeBye, Datagram
    <3> QED BY <2>4, <3>1, <3>2, <3>3 DEF ServeBye, lwlVars
  <2>5. CASE ServeEcho
    <3>1. [id |-> pkt.id, host |-> pkt.host, when |-> pkt.when,
           live |-> TRUE] \in Packet
      BY <1>b DEF Datagram, Packet
    <3>2. Append(queue, [id |-> pkt.id, host |-> pkt.host, when |-> pkt.when,
                         live |-> TRUE]) \in Seq(Packet)
      BY <3>1, AppendProperties
    <3>3. queue' \in Seq(Packet)
      BY <2>5, <3>2 DEF ServeEcho
    <3>4. alarm' \in Nat \cup {Off}
      BY <2>5, <2>a, <1>a DEF ServeEcho
    <3> QED BY <2>5, <3>3, <3>4 DEF ServeEcho, lwlVars
  <2>6. CASE LeaveCritical
    BY <2>6 DEF LeaveCritical, lwlVars
  <2>7. CASE Retry
    <3>1. rel' \in [Caller -> Activation]
      BY <2>7 DEF Retry, Activation
    <3> QED BY <2>7, <3>1 DEF Retry, lwlVars
  <2>8. CASE Sigalrm
    <3>1. rel' \in [Caller -> Activation]
      BY <2>8 DEF Sigalrm, Activation
    <3>2. alarm' \in Nat \cup {Off}
      BY <2>8, <2>a, <1>c DEF Sigalrm
    <3> QED BY <2>8, <3>1, <3>2 DEF Sigalrm, lwlVars
  <2>9. ASSUME NEW who \in Caller, SendDue(who)
        PROVE  TypeOK'
    <3>1. PICK n \in 0..ShuffleDepth :
             /\ n < Len(queue)
             /\ queue' = IF n = 0 THEN queue ELSE Shuffled(n)
      BY <2>9 DEF SendDue
    <3>2. queue' \in Seq(Packet) /\ 1 \in DOMAIN queue'
      <4>1. Len(queue) \in Nat /\ Len(queue) > 0 /\ DOMAIN queue = 1..Len(queue)
        BY <3>1, <1>e
      <4>2. CASE n = 0
        BY <4>1, <4>2, <3>1
      <4>3. CASE n # 0
        <5>1. n \in 1..ShuffleDepth
          BY <4>3, <1>e
        <5>2. /\ Shuffled(n) \in Seq(Packet)
              /\ DOMAIN Shuffled(n) = DOMAIN queue
          BY <5>1, <3>1, ShuffledProperties
        <5> QED BY <5>2, <4>1, <4>3, <3>1
      <4> QED BY <4>2, <4>3
    <3>3. queue'[1] \in Packet
      BY <3>2
    <3>4. [id |-> queue'[1].id, host |-> queue'[1].host]
            \in Reply
      BY <3>3 DEF Packet, Reply
    <3>5. echoed' \in Seq(Reply)
      BY <2>9, <3>4 DEF SendDue
    <3>6. rel' \in [Caller -> Activation]
      BY <2>9 DEF SendDue, Activation
    <3> QED BY <2>9, <3>2, <3>5, <3>6 DEF SendDue, lwlVars
  <2>10. ASSUME NEW who \in Caller, Unlink(who)
         PROVE  TypeOK'
    <3>1. rel' \in [Caller -> Activation]
      BY <2>10 DEF Unlink, Activation
    <3>2. queue' \in Seq(Packet)
      <4>1. CASE queue = <<>>
        BY <2>10, <4>1 DEF Unlink
      <4>2. CASE queue # <<>>
        BY <2>10, <4>2, HeadTailProperties DEF Unlink
      <4> QED BY <4>1, <4>2
    <3> QED BY <2>10, <3>1, <3>2 DEF Unlink, lwlVars
  <2>11. ASSUME NEW who \in Caller, NothingDue(who)
         PROVE  TypeOK'
    <3>1. rel' \in [Caller -> Activation]
      BY <2>11 DEF NothingDue, Activation
    <3> QED BY <2>11, <3>1 DEF NothingDue, lwlVars
  <2>12. ASSUME NEW who \in Caller, SweepHosts(who)
         PROVE  TypeOK'
    <3>1. rel' \in [Caller -> Activation] /\ rel[who].td \in Nat
      BY <2>12 DEF SweepHosts, Activation
    <3>2. DOMAIN conn' \subseteq Host /\ conn' \in [DOMAIN conn' -> Connection]
      BY <2>12 DEF SweepHosts
    <3>3. sdes' \in BOOLEAN /\ lwltimer' \in Nat /\ published' \in Nat
      <4>1. rel[who].td + LwlRetransmit \in Nat
        BY <3>1, <1>d
      <4> QED BY <2>12, <4>1 DEF SweepHosts, lwlVars
    <3> QED BY <2>12, <3>1, <3>2, <3>3 DEF SweepHosts
  <2>13. ASSUME NEW who \in Caller, Rearm(who)
         PROVE  TypeOK'
    <3>1. rel[who].td \in Nat
      BY DEF Activation
    <3>2. queue # <<>> => queue[1].when \in Nat
      <4>1. queue # <<>> => queue[1] \in Packet
        OBVIOUS
      <4> QED BY <4>1 DEF Packet
    <3>3. TimerStep(rel[who].td) \in Int
      BY SMTT(40), <3>1, <3>2, <1>c DEF TimerStep
    <3>4. alarm' \in Nat \cup {Off}
      BY <2>13, <2>a, <3>3 DEF Rearm
    <3>5. rel' \in [Caller -> Activation]
      BY <2>13 DEF Rearm, Outside, Activation
    <3> QED BY <2>13, <3>4, <3>5 DEF Rearm, lwlVars
  <2>14. CASE Tick
    BY <2>14 DEF Tick, lwlVars
  <2>15. CASE UNCHANGED vars
    BY <2>15 DEF vars
  <2> QED
    BY <2>1, <2>2, <2>3, <2>4, <2>5, <2>6, <2>7, <2>8, <2>9, <2>10, <2>11,
       <2>12, <2>13, <2>14, <2>15 DEF Next, MainLoop, Release
<1> QED BY <1>1, <1>2, PTL DEF Spec

-----------------------------------------------------------------------------
(* Each part of the inductive invariant is preserved by every step, given  *)
(* that release() is not re-entered.                                       *)

(* Who holds the queue. *)
LEMMA LockStep ==
    ASSUME TypeOK, LockInv, ReleaseInv, ~Reentrant, [Next]_vars
    PROVE  LockInv'
<1> USE DEF LockInv, Active, MainRuns, Runs, Outside
<1>a. rel \in [Caller -> Activation]
  BY DEF TypeOK
<1>b. Caller = {"main", "signal"}
  BY DEF Caller
<1>1. CASE \E h \in Host, bye \in BOOLEAN : Receive(h, bye)
  BY <1>1 DEF Receive
<1>2. CASE EnterCritical
  BY <1>2 DEF EnterCritical
<1>3. CASE Connect
  BY <1>3 DEF Connect
<1>4. CASE ServeBye
  BY <1>4 DEF ServeBye
<1>5. CASE ServeEcho
  BY <1>5 DEF ServeEcho
<1>6. CASE LeaveCritical
  BY <1>6 DEF LeaveCritical
<1>7. CASE Retry
  BY <1>7, <1>a, <1>b DEF Retry
<1>8. CASE Sigalrm
  BY <1>8, <1>a, <1>b DEF Sigalrm
<1>9. ASSUME NEW who \in Caller, SendDue(who)
      PROVE  LockInv'
  BY <1>9, <1>a, <1>b DEF SendDue
<1>10. ASSUME NEW who \in Caller, Unlink(who)
       PROVE  LockInv'
  <2>1. queue # <<>>
    BY <1>10 DEF Unlink, ReleaseInv
  <2>2. UNCHANGED <<pc, crit>> /\ rel' = [rel EXCEPT ![who].at = "due"]
    BY <1>10, <2>1 DEF Unlink
  <2>3. \A w \in Caller : (rel'[w].at # "out") <=> (rel[w].at # "out")
    BY <1>10, <2>2, <1>a DEF Unlink
  <2> QED BY <2>2, <2>3, <1>b
<1>11. ASSUME NEW who \in Caller, NothingDue(who)
       PROVE  LockInv'
  BY <1>11, <1>a, <1>b DEF NothingDue
<1>12. ASSUME NEW who \in Caller, SweepHosts(who)
       PROVE  LockInv'
  BY <1>12, <1>a, <1>b DEF SweepHosts
<1>13. ASSUME NEW who \in Caller, Rearm(who)
       PROVE  LockInv'
  BY <1>13, <1>a, <1>b DEF Rearm
<1>14. CASE Tick
  BY <1>14 DEF Tick
<1>15. CASE UNCHANGED vars
  BY <1>15 DEF vars
<1> QED
  BY <1>1, <1>2, <1>3, <1>4, <1>5, <1>6, <1>7, <1>8, <1>9, <1>10, <1>11,
     <1>12, <1>13, <1>14, <1>15 DEF Next, MainLoop, Release

(* The times in the queue. *)
LEMMA TimeStep ==
    ASSUME TypeOK, LockInv, TimeInv, [Next]_vars
    PROVE  TimeInv'
<1>a. EchoTime \in Nat /\ ShuffleDepth \in Nat
  BY EchoAssumption DEF EchoAssumption
<1>b. /\ now \in Nat /\ pkt.when \in Nat /\ queue \in Seq(Packet)
      /\ \A i \in DOMAIN queue : queue[i] \in Packet /\ queue[i].when \in Nat
  <2>1. now \in Nat /\ pkt.when \in Nat /\ queue \in Seq(Packet)
    BY DEF TypeOK, Datagram
  <2>2. \A i \in DOMAIN queue : queue[i] \in Packet
    BY <2>1
  <2> QED BY <2>1, <2>2 DEF Packet
<1>c. DOMAIN queue = 1..Len(queue) /\ Len(queue) \in Nat
  BY <1>b
<1> USE DEF TimeInv, QueueOrdered, Serving
<1>d. ASSUME UNCHANGED <<now, queue, pkt>>, pc' \in Serving => pc \in Serving
      PROVE  TimeInv'
  BY <1>d
<1>e. ASSUME UNCHANGED <<now, pkt, pc>>,
             DOMAIN queue' = DOMAIN queue,
             \A i \in DOMAIN queue : queue'[i].when = queue[i].when
      PROVE  TimeInv'
  BY <1>e
<1>1. ASSUME NEW h \in Host, NEW bye \in BOOLEAN, Receive(h, bye)
      PROVE  TimeInv'
  <2>1. pkt'.when = now + EchoTime /\ UNCHANGED <<now, queue>>
    BY <1>1 DEF Receive
  <2> QED BY <2>1, <1>a, <1>b
<1>2. CASE EnterCritical
  BY <1>2, <1>d DEF EnterCritical
<1>3. CASE Connect
  BY <1>3, <1>d DEF Connect
<1>4. CASE ServeBye
  <2>1. /\ DOMAIN queue' = DOMAIN queue
        /\ \A i \in DOMAIN queue : queue'[i].when = queue[i].when
    BY <1>4, <1>b DEF ServeBye, Packet
  <2>2. UNCHANGED <<now, pkt>> /\ pc' = "leave"
    BY <1>4 DEF ServeBye
  <2> QED BY <2>1, <2>2
<1>5. CASE ServeEcho
  <2> DEFINE p == [id |-> pkt.id, host |-> pkt.host, when |-> pkt.when,
                   live |-> TRUE]
  <2>1. UNCHANGED <<now, pkt>> /\ pc' = "leave" /\ pc = "serve"
    BY <1>5 DEF ServeEcho
  <2>2. CASE queue' = queue
    BY <2>1, <2>2
  <2>3. CASE queue' = Append(queue, p)
    <3>1. /\ DOMAIN queue' = 1..(Len(queue) + 1)
          /\ \A i \in 1..Len(queue) : queue'[i] = queue[i]
          /\ queue'[Len(queue) + 1].when = pkt.when
      BY <2>3, <1>b, <1>c
    <3>2. \A i \in DOMAIN queue' : queue'[i].when <= now + EchoTime
      BY <3>1, <1>b, <1>c, <1>a
    <3>3. \A i, j \in DOMAIN queue' : i < j =>
             queue'[i].when <= queue'[j].when
      BY <3>1, <2>1, <1>b, <1>c
    <3> QED BY <2>1, <3>2, <3>3
  <2> QED BY <1>5, <2>2, <2>3 DEF ServeEcho
<1>6. CASE LeaveCritical
  BY <1>6, <1>d DEF LeaveCritical
<1>7. CASE Retry
  BY <1>7, <1>d DEF Retry
<1>8. CASE Sigalrm
  BY <1>8, <1>d DEF Sigalrm
<1>9. ASSUME NEW who \in Caller, SendDue(who)
      PROVE  TimeInv'
  <2>1. PICK n \in 0..ShuffleDepth :
           /\ n < Len(queue)
           /\ queue' = IF n = 0 THEN queue ELSE Shuffled(n)
    BY <1>9 DEF SendDue
  <2>2. UNCHANGED <<now, pkt, pc>>
    BY <1>9 DEF SendDue
  <2>3. CASE n = 0
    BY <2>1, <2>2, <2>3, <1>e
  <2>4. CASE n # 0
    <3>1. n \in 1..ShuffleDepth
      BY <2>4, <1>a
    <3> QED BY <3>1, <2>1, <2>2, <2>4, <1>b, <1>e, ShuffledProperties
  <2> QED BY <2>3, <2>4
<1>10. ASSUME NEW who \in Caller, Unlink(who)
       PROVE  TimeInv'
  <2>1. CASE queue = <<>>
    BY <1>10, <2>1, <1>d DEF Unlink
  <2>2. CASE queue # <<>>
    <3>1. UNCHANGED <<now, pkt, pc>> /\ queue' = Tail(queue)
      BY <1>10, <2>2 DEF Unlink
    <3>2. /\ DOMAIN queue' = 1..(Len(queue) - 1)
          /\ \A i \in DOMAIN queue' : i + 1 \in DOMAIN queue
                                      /\ queue'[i] = queue[i + 1]
      BY <3>1, <2>2, <1>b, <1>c, HeadTailProperties
    <3>3. \A i, j \in DOMAIN queue' : i < j =>
             queue'[i].when <= queue'[j].when
      BY <3>2, <1>c
    <3> QED BY <3>1, <3>2, <3>3, <1>b
  <2> QED BY <2>1, <2>2
<1>11. ASSUME NEW who \in Caller, NothingDue(who)
       PROVE  TimeInv'
  BY <1>11, <1>d DEF NothingDue
<1>12. ASSUME NEW who \in Caller, SweepHosts(who)
       PROVE  TimeInv'
  BY <1>12, <1>d DEF SweepHosts
<1>13. ASSUME NEW who \in Caller, Rearm(who)
       PROVE  TimeInv'
  BY <1>13, <1>d DEF Rearm
<1>14. CASE Tick
  BY <1>14, <1>a, <1>b DEF Tick
<1>15. CASE UNCHANGED vars
  BY <1>15, <1>d DEF vars
<1> QED
  BY <1>1, <1>2, <1>3, <1>4, <1>5, <1>6, <1>7, <1>8, <1>9, <1>10, <1>11,
     <1>12, <1>13, <1>14, <1>15 DEF Next, MainLoop, Release

(* At most one release() is in progress, and none in the critical section. *)
LEMMA OneRelease ==
    ASSUME TypeOK, LockInv
    PROVE  /\ crit => \A w \in Caller : rel[w].at = "out"
           /\ pc = "retry" => rel["main"].at = "out"
           /\ \A who \in Caller : Active(who) =>
                \A w \in Caller : w # who => rel[w].at = "out"
BY DEF TypeOK, LockInv, Active, Caller

(* The release() in progress. *)
LEMMA ReleaseStep ==
    ASSUME TypeOK, LockInv, ReleaseInv, ~Reentrant, [Next]_vars
    PROVE  ReleaseInv'
<1>a. now \in Nat /\ \A w \in Caller : rel[w] \in Activation /\ rel[w].td \in Nat
  BY DEF TypeOK, Activation
<1>b. /\ rel \in [Caller -> Activation] /\ queue \in Seq(Packet)
      /\ "main" \in Caller /\ "signal" \in Caller
  BY DEF TypeOK, Caller
<1>c. /\ crit => \A w \in Caller : rel[w].at = "out"
      /\ pc = "retry" => rel["main"].at = "out"
      /\ \A who \in Caller : Active(who) =>
           \A w \in Caller : w # who => rel[w].at = "out"
  BY OneRelease
<1> USE DEF ReleaseInv
<1>d. ASSUME UNCHANGED <<now, queue, rel>>
      PROVE  ReleaseInv'
  BY <1>d DEF Due
<1>1. CASE \E h \in Host, bye \in BOOLEAN : Receive(h, bye)
  BY <1>1, <1>d DEF Receive
<1>2. CASE EnterCritical
  BY <1>2, <1>d DEF EnterCritical
<1>3. CASE Connect
  BY <1>3, <1>d DEF Connect
<1>4. CASE ServeBye
  <2>1. crit /\ UNCHANGED <<now, rel>>
    BY <1>4 DEF ServeBye, LockInv
  <2> QED BY <2>1, <1>c
<1>5. CASE ServeEcho
  <2>1. crit /\ UNCHANGED <<now, rel>>
    BY <1>5 DEF ServeEcho, LockInv
  <2> QED BY <2>1, <1>c
<1>6. CASE LeaveCritical
  BY <1>6, <1>d DEF LeaveCritical
<1>7. CASE Retry
  <2>1. CASE ~clash
    BY <1>7, <2>1, <1>d DEF Retry
  <2>2. CASE clash
    <3>1. /\ UNCHANGED <<now, queue>>
          /\ rel' = [rel EXCEPT !["main"] = [at |-> "due", td |-> now]]
      BY <1>7, <2>2 DEF Retry
    <3> QED BY <3>1, <1>a, <1>b DEF Due
  <2> QED BY <2>1, <2>2
<1>8. CASE Sigalrm
  <2>1. CASE crit
    BY <1>8, <2>1, <1>d DEF Sigalrm
  <2>2. CASE ~crit
    <3>1. /\ UNCHANGED <<now, queue>>
          /\ rel' = [rel EXCEPT !["signal"] = [at |-> "due", td |-> now]]
      BY <1>8, <2>2 DEF Sigalrm
    <3> QED BY <3>1, <1>a, <1>b DEF Due
  <2> QED BY <2>1, <2>2
<1>9. ASSUME NEW who \in Caller, SendDue(who)
      PROVE  ReleaseInv'
  <2>1. /\ Active(who) /\ UNCHANGED now
        /\ rel' = [rel EXCEPT ![who].at = "unlink"]
    BY <1>9 DEF SendDue, Runs
  <2>2. queue' # <<>>
    <3>1. PICK n \in 0..ShuffleDepth :
             /\ n < Len(queue)
             /\ queue' = IF n = 0 THEN queue ELSE Shuffled(n)
      BY <1>9 DEF SendDue
    <3>2. ShuffleDepth \in Nat
      BY EchoAssumption DEF EchoAssumption
    <3>3. Len(queue) > 0 /\ DOMAIN queue = 1..Len(queue) /\ Len(queue) \in Nat
      BY <3>1, <3>2, <1>b
    <3>4. DOMAIN queue' = DOMAIN queue
      BY <3>1, <3>2, <1>b DEF Shuffled
    <3> QED BY <3>3, <3>4
  <2>3. ASSUME NEW w \in Caller
        PROVE  /\ rel'[w].td = rel[w].td
               /\ rel'[w].at = IF w = who THEN "unlink" ELSE "out"
    BY <2>1, <2>3, <1>a, <1>b, <1>c DEF Activation
  <2> QED BY <2>1, <2>2, <2>3
<1>10. ASSUME NEW who \in Caller, Unlink(who)
       PROVE  ReleaseInv'
  <2>1. queue # <<>> /\ Active(who)
    BY <1>10 DEF Unlink, Runs
  <2>2. UNCHANGED now /\ rel' = [rel EXCEPT ![who].at = "due"]
    BY <1>10, <2>1 DEF Unlink
  <2>3. ASSUME NEW w \in Caller
        PROVE  /\ rel'[w].td = rel[w].td
               /\ rel'[w].at = IF w = who THEN "due" ELSE "out"
    BY <2>1, <2>2, <2>3, <1>a, <1>b, <1>c DEF Activation
  <2> QED BY <2>2, <2>3
<1>11. ASSUME NEW who \in Caller, NothingDue(who)
       PROVE  ReleaseInv'
  <2>1. /\ UNCHANGED <<now, queue>> /\ rel' = [rel EXCEPT ![who].at = "hosts"]
        /\ queue # <<>> => ~Due(queue[1], rel[who].td)
    BY <1>11 DEF NothingDue
  <2> QED BY <2>1, <1>a, <1>b DEF Due
<1>12. ASSUME NEW who \in Caller, SweepHosts(who)
       PROVE  ReleaseInv'
  <2>1. /\ UNCHANGED <<now, queue>> /\ rel' = [rel EXCEPT ![who].at = "arm"]
        /\ rel[who].at = "hosts"
    BY <1>12 DEF SweepHosts
  <2> QED BY <2>1, <1>a, <1>b DEF Due
<1>13. ASSUME NEW who \in Caller, Rearm(who)
       PROVE  ReleaseInv'
  <2>1. UNCHANGED <<now, queue>> /\ rel' = [rel EXCEPT ![who] = Outside]
    BY <1>13 DEF Rearm
  <2> QED BY <2>1, <1>a, <1>b DEF Due, Outside
<1>14. CASE Tick
  <2>1. now' = now + 1 /\ UNCHANGED <<queue, rel>>
    BY <1>14 DEF Tick
  <2> QED BY <2>1, <1>a DEF Due
<1>15. CASE UNCHANGED vars
  BY <1>15, <1>d DEF vars
<1> QED
  BY <1>1, <1>2, <1>3, <1>4, <1>5, <1>6, <1>7, <1>8, <1>9, <1>10, <1>11,
     <1>12, <1>13, <1>14, <1>15 DEF Next, MainLoop, Release

(* The timer. *)
LEMMA TimerStepAlive ==
    ASSUME TypeOK, LockInv, ReleaseInv, TimerAlive, [Next]_vars
    PROVE  TimerAlive'
<1>a. /\ EchoTime \in Nat \ {0} /\ TickTock \in Nat \ {0}
      /\ TockTock \in Nat \ {0}
  BY EchoAssumption DEF EchoAssumption
<1>b. Latency \in Nat /\ Epsilon \in Nat /\ Latency < Epsilon
  BY EchoAssumption DEF EchoAssumption
<1>c. /\ now \in Nat /\ alarm \in Nat \cup {Off}
      /\ rel \in [Caller -> Activation] /\ queue \in Seq(Packet)
      /\ "main" \in Caller /\ "signal" \in Caller
  BY DEF TypeOK, Caller
<1>d. ASSUME NEW step \in Int, step > 0
      PROVE  Ularm(step) # Off
  BY <1>d, <1>c DEF Ularm, Off
<1>e. ASSUME UNCHANGED alarm, Active("signal") => Active("signal")'
      PROVE  TimerAlive'
  BY <1>e DEF TimerAlive
<1>1. CASE \E h \in Host, bye \in BOOLEAN : Receive(h, bye)
  BY <1>1, <1>e DEF Receive, Active
<1>2. CASE EnterCritical
  BY <1>2, <1>e DEF EnterCritical, Active
<1>3. CASE Connect
  BY <1>3, <1>e DEF Connect, Active
<1>4. CASE ServeBye
  BY <1>4, <1>e DEF ServeBye, Active
<1>5. CASE ServeEcho
  <2>1. alarm' = alarm \/ alarm' = Ularm(EchoTime)
    BY <1>5 DEF ServeEcho
  <2>2. ~Active("signal") /\ UNCHANGED rel
    BY <1>5 DEF ServeEcho, MainRuns
  <2> QED BY <2>1, <2>2, <1>a, <1>d DEF TimerAlive
<1>6. CASE LeaveCritical
  BY <1>6, <1>e DEF LeaveCritical, Active
<1>7. CASE Retry
  <2>1. UNCHANGED alarm /\ rel'["signal"] = rel["signal"]
    BY <1>7, <1>c DEF Retry
  <2> QED BY <2>1, <1>e DEF Active
<1>8. CASE Sigalrm
  <2>1. CASE crit
    BY <1>8, <2>1, <1>a, <1>d DEF Sigalrm, TimerAlive
  <2>2. CASE ~crit
    <3>1. rel'["signal"] = [at |-> "due", td |-> now]
      BY <1>8, <2>2, <1>c DEF Sigalrm
    <3> QED BY <3>1 DEF TimerAlive, Active
  <2> QED BY <2>1, <2>2
<1>9. ASSUME NEW who \in Caller, SendDue(who)
      PROVE  TimerAlive'
  <2>1. UNCHANGED alarm /\ rel' = [rel EXCEPT ![who].at = "unlink"]
    BY <1>9 DEF SendDue
  <2> QED BY <2>1, <1>c, <1>e DEF Active, Activation
<1>10. ASSUME NEW who \in Caller, Unlink(who)
       PROVE  TimerAlive'
  <2>1. UNCHANGED alarm
    BY <1>10 DEF Unlink
  <2>2. rel' = rel \/ rel' = [rel EXCEPT ![who].at = "due"]
    BY <1>10 DEF Unlink
  <2> QED BY <2>1, <2>2, <1>c, <1>e DEF Active, Activation
<1>11. ASSUME NEW who \in Caller, NothingDue(who)
       PROVE  TimerAlive'
  <2>1. UNCHANGED alarm /\ rel' = [rel EXCEPT ![who].at = "hosts"]
    BY <1>11 DEF NothingDue
  <2> QED BY <2>1, <1>c, <1>e DEF Active, Activation
<1>12. ASSUME NEW who \in Caller, SweepHosts(who)
       PROVE  TimerAlive'
  <2>1. UNCHANGED alarm /\ rel' = [rel EXCEPT ![who].at = "arm"]
    BY <1>12 DEF SweepHosts
  <2> QED BY <2>1, <1>c, <1>e DEF Active, Activation
<1>13. ASSUME NEW who \in Caller, Rearm(who)
       PROVE  TimerAlive'
  <2>1. rel[who].td \in Nat /\ rel[who].at = "arm"
    BY <1>13, <1>c DEF Rearm, Activation
  <2>2. TimerStep(rel[who].td) \in Int /\ TimerStep(rel[who].td) > 0
    <3>1. CASE queue # <<>>
      <4>1. queue[1] \in Packet
        BY <3>1, <1>c
      <4>2. queue[1].when \in Nat
        BY <4>1 DEF Packet
      <4>3. ~(queue[1].when - rel[who].td < Epsilon)
        BY <2>1, <3>1 DEF ReleaseInv, Due
      <4> QED BY <2>1, <3>1, <4>2, <4>3, <1>b DEF TimerStep
    <3>2. CASE queue = <<>>
      BY <3>2, <1>a DEF TimerStep
    <3> QED BY <3>1, <3>2
  <2>3. alarm' = Ularm(TimerStep(rel[who].td))
    BY <1>13 DEF Rearm
  <2> QED BY <2>2, <2>3, <1>d DEF TimerAlive
<1>14. CASE Tick
  BY <1>14, <1>e DEF Tick, Active
<1>15. CASE UNCHANGED vars
  BY <1>15, <1>e DEF vars, Active
<1> QED
  BY <1>1, <1>2, <1>3, <1>4, <1>5, <1>6, <1>7, <1>8, <1>9, <1>10, <1>11,
     <1>12, <1>13, <1>14, <1>15 DEF Next, MainLoop, Release

(* The connection being served. *)
LEMMA ServeStep ==
    ASSUME TypeOK, LockInv, ServeInv, [Next]_vars
    PROVE  ServeInv'
<1> USE DEF ServeInv
<1>a. /\ pkt.host \in Host /\ rel \in [Caller -> Activation]
      /\ conn \in [DOMAIN conn -> Connection]
  BY DEF TypeOK, Datagram
<1>b. ASSUME UNCHANGED <<pkt, conn>>, pc' = "serve" => pc = "serve"
      PROVE  ServeInv'
  BY <1>b
<1>c. crit => \A w \in Caller : rel[w].at = "out"
  BY OneRelease
<1>d. pc = "serve" => crit
  BY DEF LockInv
<1>1. CASE \E h \in Host, bye \in BOOLEAN : Receive(h, bye)
  BY <1>1 DEF Receive
<1>2. CASE EnterCritical
  BY <1>2 DEF EnterCritical
<1>3. CASE Connect
  BY <1>3, <1>a DEF Connect
<1>4. CASE ServeBye
  BY <1>4 DEF ServeBye
<1>5. CASE ServeEcho
  BY <1>5 DEF ServeEcho
<1>6. CASE LeaveCritical
  BY <1>6 DEF LeaveCritical
<1>7. CASE Retry
  BY <1>7 DEF Retry
<1>8. CASE Sigalrm
  BY <1>8, <1>b DEF Sigalrm
<1>9. ASSUME NEW who \in Caller, SendDue(who)
      PROVE  ServeInv'
  BY <1>9, <1>b DEF SendDue
<1>10. ASSUME NEW who \in Caller, Unlink(who)
       PROVE  ServeInv'
  BY <1>10, <1>b DEF Unlink
<1>11. ASSUME NEW who \in Caller, NothingDue(who)
       PROVE  ServeInv'
  BY <1>11, <1>b DEF NothingDue
<1>12. ASSUME NEW who \in Caller, SweepHosts(who)
       PROVE  ServeInv'
  <2>1. rel[who].at # "out" /\ pc' = pc
    BY <1>12 DEF SweepHosts
  <2> QED BY <2>1, <1>c, <1>d
<1>13. ASSUME NEW who \in Caller, Rearm(who)
       PROVE  ServeInv'
  BY <1>13, <1>b DEF Rearm
<1>14. CASE Tick
  BY <1>14, <1>b DEF Tick
<1>15. CASE UNCHANGED vars
  BY <1>15, <1>b DEF vars
<1> QED
  BY <1>1, <1>2, <1>3, <1>4, <1>5, <1>6, <1>7, <1>8, <1>9, <1>10, <1>11,
     <1>12, <1>13, <1>14, <1>15 DEF Next, MainLoop, Release

(* The queue after a step: without shuffling a release() only removes its  *)
(* head.                                                                   *)
LEMMA NoShuffle ==
    ASSUME TypeOK, ShuffleDepth = 0, NEW who \in Caller, SendDue(who)
    PROVE  UNCHANGED queue
<1>1. PICK n \in 0..ShuffleDepth :
           queue' = IF n = 0 THEN queue ELSE Shuffled(n)
  BY DEF SendDue
<1>2. n = 0
  BY <1>1
<1> QED BY <1>1, <1>2

(* Without shuffling, the hosts of queued packets stay known. *)
LEMMA KnownStep ==
    ASSUME TypeOK, LockInv, TimeInv, ReleaseInv, ServeInv, ShuffleDepth = 0,
           QueuedHostsKnown, [Next]_vars
    PROVE  QueuedHostsKnown'
<1>a. /\ queue \in Seq(Packet) /\ conn \in [DOMAIN conn -> Connection]
      /\ DOMAIN queue = 1..Len(queue) /\ Len(queue) \in Nat
      /\ pkt.when \in Nat
  BY DEF TypeOK, Datagram
<1>b. \A i \in DOMAIN queue : queue[i] \in Packet /\ queue[i].when \in Nat
  <2>1. \A i \in DOMAIN queue : queue[i] \in Packet
    BY <1>a
  <2> QED BY <2>1 DEF Packet
<1>c. \A h \in DOMAIN conn : conn[h].timeout \in Nat /\ conn[h].bye \in BOOLEAN
  BY <1>a DEF Connection
<1> USE DEF QueuedHostsKnown
<1>d. ASSUME UNCHANGED <<queue, conn>>
      PROVE  QueuedHostsKnown'
  BY <1>d
<1>1. CASE \E h \in Host, bye \in BOOLEAN : Receive(h, bye)
  BY <1>1, <1>d DEF Receive
<1>2. CASE EnterCritical
  BY <1>2, <1>d DEF EnterCritical
<1>3. CASE Connect
  <2>1. \A i \in DOMAIN queue : queue[i].when <= pkt.when
    BY <1>3 DEF Connect, TimeInv, Serving
  <2>2. CASE UNCHANGED conn
    BY <1>3, <2>2 DEF Connect
  <2>3. CASE conn' = [h \in DOMAIN conn \cup {pkt.host} |->
                        IF h = pkt.host
                        THEN [timeout |-> pkt.when, bye |-> FALSE]
                        ELSE conn[h]]
    <3>1. UNCHANGED queue
      BY <1>3 DEF Connect
    <3> QED BY <2>1, <2>3, <3>1
  <2> QED BY <1>3, <2>2, <2>3 DEF Connect
<1>4. CASE ServeBye
  <2>1. conn' = [conn EXCEPT ![pkt.host].bye = TRUE]
    BY <1>4 DEF ServeBye
  <2>2. /\ DOMAIN queue' = DOMAIN queue
        /\ \A i \in DOMAIN queue :
             /\ queue'[i].host = queue[i].host
             /\ queue'[i].when = queue[i].when
             /\ queue'[i].live => queue[i].live /\ queue[i].host # pkt.host
    BY <1>4, <1>b DEF ServeBye, Packet
  <2> QED BY <2>1, <2>2, <1>a
<1>5. CASE ServeEcho
  <2> DEFINE p == [id |-> pkt.id, host |-> pkt.host, when |-> pkt.when,
                   live |-> TRUE]
  <2>1. /\ UNCHANGED conn
        /\ pkt.host \in DOMAIN conn
        /\ conn[pkt.host] = [timeout |-> pkt.when, bye |-> FALSE]
    BY <1>5 DEF ServeEcho, ServeInv
  <2>2. CASE queue' = queue
    BY <2>1, <2>2
  <2>3. CASE queue' = Append(queue, p)
    <3>1. /\ DOMAIN queue' = 1..(Len(queue) + 1)
          /\ \A i \in 1..Len(queue) : queue'[i] = queue[i]
          /\ queue'[Len(queue) + 1] = p
      BY <2>3, <1>a
    <3> QED BY <2>1, <3>1, <1>a
  <2> QED BY <1>5, <2>2, <2>3 DEF ServeEcho
<1>6. CASE LeaveCritical
  BY <1>6, <1>d DEF LeaveCritical
<1>7. CASE Retry
  BY <1>7, <1>d DEF Retry
<1>8. CASE Sigalrm
  BY <1>8, <1>d DEF Sigalrm
<1>9. ASSUME NEW who \in Caller, SendDue(who)
      PROVE  QueuedHostsKnown'
  BY <1>9, <1>d, NoShuffle DEF SendDue
<1>10. ASSUME NEW who \in Caller, Unlink(who)
       PROVE  QueuedHostsKnown'
  <2>1. UNCHANGED conn /\ queue # <<>> /\ queue' = Tail(queue)
    BY <1>10 DEF Unlink, ReleaseInv
  <2>2. /\ DOMAIN queue' = 1..(Len(queue) - 1)
        /\ \A i \in DOMAIN queue' : i + 1 \in DOMAIN queue
                                    /\ queue'[i] = queue[i + 1]
    BY <2>1, <1>a, HeadTailProperties
  <2> QED BY <2>1, <2>2
<1>11. ASSUME NEW who \in Caller, NothingDue(who)
       PROVE  QueuedHostsKnown'
  BY <1>11, <1>d DEF NothingDue
<1>12. ASSUME NEW who \in Caller, SweepHosts(who)
       PROVE  QueuedHostsKnown'
  <2> DEFINE td == rel[who].td
  <2>0. td \in Nat /\ HostTimeout \in Nat /\ Epsilon \in Nat /\ Epsilon > 0
    BY SMTT(40), EchoAssumption DEF EchoAssumption, TypeOK, Activation
  <2>1. /\ UNCHANGED queue
        /\ conn' = [h \in {g \in DOMAIN conn : StillActive(g, td)} |-> conn[h]]
        /\ rel[who].at = "hosts"
    BY <1>12 DEF SweepHosts
  <2>2. ASSUME NEW i \in DOMAIN queue, queue[i].live
        PROVE  StillActive(queue[i].host, td)
    <3>1. 1 \in DOMAIN queue /\ queue # <<>>
      BY <2>2, <1>a
    <3>2. ~(queue[1].when - td < Epsilon)
      BY <3>1, <2>1 DEF ReleaseInv, Due
    <3>3. queue[1].when <= queue[i].when
      BY <2>2, <3>1, <1>a, <1>b DEF TimeInv, QueueOrdered
    <3>4. td < queue[i].when
      BY <3>1, <3>2, <3>3, <2>0, <2>2, <1>b
    <3>5. /\ queue[i].host \in DOMAIN conn /\ ~conn[queue[i].host].bye
          /\ queue[i].when <= conn[queue[i].host].timeout
      BY <2>2
    <3> QED BY <3>4, <3>5, <2>0, <2>2, <1>b, <1>c DEF StillActive
  <2> QED BY <2>1, <2>2
<1>13. ASSUME NEW who \in Caller, Rearm(who)
       PROVE  QueuedHostsKnown'
  BY <1>13, <1>d DEF Rearm
<1>14. CASE Tick
  BY <1>14, <1>d DEF Tick
<1>15. CASE UNCHANGED vars
  BY <1>15, <1>d DEF vars
<1> QED
  BY <1>1, <1>2, <1>3, <1>4, <1>5, <1>6, <1>7, <1>8, <1>9, <1>10, <1>11,
     <1>12, <1>13, <1>14, <1>15 DEF Next, MainLoop, Release

(* Nothing is queued for a host that has left. *)
LEMMA PurgedStep ==
    ASSUME TypeOK, LockInv, ReleaseInv, Purged, [Next]_vars,
           ShuffleDepth = 0 => QueuedHostsKnown,
           ShuffleDepth = 0 \/ ~MayFail
    PROVE  Purged'
<1>a. /\ queue \in Seq(Packet)
      /\ DOMAIN queue = 1..Len(queue) /\ Len(queue) \in Nat
  BY DEF TypeOK
<1>b. \A i \in DOMAIN queue : queue[i] \in Packet
  BY <1>a
<1> USE DEF Purged
<1>d. ASSUME UNCHANGED <<queue, gone>>
      PROVE  Purged'
  BY <1>d
<1>1. CASE \E h \in Host, bye \in BOOLEAN : Receive(h, bye)
  BY <1>1, <1>d DEF Receive
<1>2. CASE EnterCritical
  BY <1>2, <1>d DEF EnterCritical
<1>3. CASE Connect
  <2>1. CASE UNCHANGED gone
    BY <1>3, <2>1 DEF Connect
  <2>2. CASE MayFail /\ pkt.host \notin DOMAIN conn
    <3>1. QueuedHostsKnown
      BY <2>2
    <3>2. UNCHANGED queue /\ gone' \subseteq gone \cup {pkt.host}
      BY <1>3 DEF Connect
    <3> QED BY <2>2, <3>1, <3>2 DEF QueuedHostsKnown
  <2> QED BY <1>3, <2>1, <2>2 DEF Connect
<1>4. CASE ServeBye
  <2>1. gone' = gone \cup {pkt.host}
    BY <1>4 DEF ServeBye
  <2>2. /\ DOMAIN queue' = DOMAIN queue
        /\ \A i \in DOMAIN queue :
             /\ queue'[i].host = queue[i].host
             /\ queue'[i].live => queue[i].live /\ queue[i].host # pkt.host
    BY <1>4, <1>b DEF ServeBye, Packet
  <2> QED BY <2>1, <2>2
<1>5. CASE ServeEcho
  <2> DEFINE p == [id |-> pkt.id, host |-> pkt.host, when |-> pkt.when,
                   live |-> TRUE]
  <2>1. gone' = gone \ {pkt.host}
    BY <1>5 DEF ServeEcho
  <2>2. CASE queue' = queue
    BY <2>1, <2>2
  <2>3. CASE queue' = Append(queue, p)
    <3>1. /\ DOMAIN queue' = 1..(Len(queue) + 1)
          /\ \A i \in 1..Len(queue) : queue'[i] = queue[i]
          /\ queue'[Len(queue) + 1].host = pkt.host
      BY <2>3, <1>a
    <3> QED BY <2>1, <3>1, <1>a
  <2> QED BY <1>5, <2>2, <2>3 DEF ServeEcho
<1>6. CASE LeaveCritical
  BY <1>6, <1>d DEF LeaveCritical
<1>7. CASE Retry
  BY <1>7, <1>d DEF Retry
<1>8. CASE Sigalrm
  BY <1>8, <1>d DEF Sigalrm
<1>9. ASSUME NEW who \in Caller, SendDue(who)
      PROVE  Purged'
  <2>1. PICK n \in 0..ShuffleDepth :
           /\ n < Len(queue)
           /\ queue' = IF n = 0 THEN queue ELSE Shuffled(n)
    BY <1>9 DEF SendDue
  <2>2. UNCHANGED gone
    BY <1>9 DEF SendDue
  <2>3. CASE n = 0
    BY <2>1, <2>2, <2>3
  <2>4. CASE n # 0
    <3>1. ShuffleDepth \in Nat
      BY EchoAssumption DEF EchoAssumption
    <3>2. n \in 1..ShuffleDepth
      BY <2>4, <3>1
    <3>3. /\ DOMAIN queue' = DOMAIN queue
          /\ \A i \in DOMAIN queue : \E j \in DOMAIN queue :
               /\ queue'[i].host = queue[j].host
               /\ queue'[i].live = queue[j].live
      BY <3>2, <2>1, <2>4, <1>a, ShuffledProperties
    <3> QED BY <3>3, <2>2
  <2> QED BY <2>3, <2>4
<1>10. ASSUME NEW who \in Caller, Unlink(who)
       PROVE  Purged'
  <2>1. UNCHANGED gone /\ queue # <<>> /\ queue' = Tail(queue)
    BY <1>10 DEF Unlink, ReleaseInv
  <2>2. /\ DOMAIN queue' = 1..(Len(queue) - 1)
        /\ \A i \in DOMAIN queue' : i + 1 \in DOMAIN queue
                                    /\ queue'[i] = queue[i + 1]
    BY <2>1, <1>a, HeadTailProperties
  <2> QED BY <2>1, <2>2
<1>11. ASSUME NEW who \in Caller, NothingDue(who)
       PROVE  Purged'
  BY <1>11, <1>d DEF NothingDue
<1>12. ASSUME NEW who \in Caller, SweepHosts(who)
       PROVE  Purged'
  BY <1>12, <1>d DEF SweepHosts
<1>13. ASSUME NEW who \in Caller, Rearm(who)
       PROVE  Purged'
  BY <1>13, <1>d DEF Rearm
<1>14. CASE Tick
  BY <1>14, <1>d DEF Tick
<1>15. CASE UNCHANGED vars
  BY <1>15, <1>d DEF vars
<1> QED
  BY <1>1, <1>2, <1>3, <1>4, <1>5, <1>6, <1>7, <1>8, <1>9, <1>10, <1>11,
     <1>12, <1>13, <1>14, <1>15 DEF Next, MainLoop, Release

(* Without shuffling, packets keep the order of their arrival. *)
LEMMA OrderStep ==
    ASSUME TypeOK, LockInv, ReleaseInv, OrderInv, ShuffleDepth = 0,
           [Next]_vars
    PROVE  OrderInv'
<1>a. /\ queue \in Seq(Packet) /\ echoed \in Seq(Reply)
      /\ DOMAIN queue = 1..Len(queue) /\ Len(queue) \in Nat
      /\ DOMAIN echoed = 1..Len(echoed) /\ Len(echoed) \in Nat
      /\ rel \in [Caller -> Activation]
  BY DEF TypeOK
<1>b. /\ \A i \in DOMAIN queue : queue[i].id \in Nat
      /\ \A k \in DOMAIN echoed : echoed[k].id \in Nat
      /\ received \in Nat /\ pkt.id \in Nat
  <2>1. MaxPackets \in Nat
    BY EchoAssumption DEF EchoAssumption
  <2>2. \A i \in DOMAIN queue : queue[i] \in Packet
    BY <1>a
  <2>3. \A k \in DOMAIN echoed : echoed[k] \in Reply
    BY <1>a
  <2> QED BY <2>1, <2>2, <2>3 DEF Packet, Reply, TypeOK, Datagram
<1>c. /\ Sent = 0 \/ Sent = 1
      /\ Sent = 1 <=> \E w \in Caller : rel[w].at = "unlink"
  BY DEF Sent
<1>d. /\ crit => \A w \in Caller : rel[w].at = "out"
      /\ pc = "retry" => rel["main"].at = "out"
      /\ \A who \in Caller : Active(who) =>
           \A w \in Caller : w # who => rel[w].at = "out"
  BY OneRelease
<1> USE DEF OrderInv, Serving
<1>e. ASSUME UNCHANGED <<queue, echoed, received, pkt, Sent>>,
             pc' \in Serving => pc \in Serving
      PROVE  OrderInv'
  BY <1>e
<1>f. ASSUME NEW who \in Caller, NEW r,
             rel[who].at # "unlink", r.at # "unlink",
             rel' = [rel EXCEPT ![who] = r]
      PROVE  UNCHANGED Sent
  BY <1>f, <1>a DEF Sent
<1>1. ASSUME NEW h \in Host, NEW bye \in BOOLEAN, Receive(h, bye)
      PROVE  OrderInv'
  <2>1. /\ UNCHANGED <<queue, echoed, rel>>
        /\ received' = received + 1 /\ pkt'.id = received + 1
    BY <1>1 DEF Receive
  <2>2. UNCHANGED Sent
    BY <2>1 DEF Sent
  <2> QED BY <2>1, <2>2, <1>b
<1>2. CASE EnterCritical
  BY <1>2, <1>e DEF EnterCritical, Sent
<1>3. CASE Connect
  BY <1>3, <1>e DEF Connect, Sent
<1>4. CASE ServeBye
  <2>1. /\ UNCHANGED <<echoed, received, pkt, rel>> /\ pc' = "leave"
        /\ DOMAIN queue' = DOMAIN queue
        /\ \A i \in DOMAIN queue : queue'[i].id = queue[i].id
    <3>1. \A i \in DOMAIN queue : queue[i] \in Packet
      BY <1>a
    <3> QED BY <1>4, <3>1 DEF ServeBye, Packet
  <2>2. UNCHANGED Sent
    BY <2>1 DEF Sent
  <2> QED BY <2>1, <2>2
<1>5. CASE ServeEcho
  <2> DEFINE p == [id |-> pkt.id, host |-> pkt.host, when |-> pkt.when,
                   live |-> TRUE]
  <2>1. /\ UNCHANGED <<echoed, received, pkt, rel>> /\ pc' = "leave"
        /\ pc = "serve"
    BY <1>5 DEF ServeEcho
  <2>2. UNCHANGED Sent
    BY <2>1 DEF Sent
  <2>3. CASE queue' = queue
    BY <2>1, <2>2, <2>3
  <2>4. CASE queue' = Append(queue, p)
    <3>1. /\ DOMAIN queue' = 1..(Len(queue) + 1)
          /\ \A i \in 1..Len(queue) : queue'[i] = queue[i]
          /\ queue'[Len(queue) + 1].id = pkt.id
      BY <2>4, <1>a
    <3>2. \A i, j \in DOMAIN queue' : i < j => queue'[i].id < queue'[j].id
      BY <3>1, <2>1, <1>a
    <3>3. \A i \in DOMAIN queue' : queue'[i].id <= received
      BY <3>1, <1>a
    <3>4. \A k \in DOMAIN echoed, i \in DOMAIN queue' :
             i > Sent => echoed[k].id < queue'[i].id
      BY <3>1, <2>1, <1>a
    <3> QED BY <2>1, <2>2, <3>2, <3>3, <3>4
  <2> QED BY <1>5, <2>3, <2>4 DEF ServeEcho
<1>6. CASE LeaveCritical
  BY <1>6, <1>e DEF LeaveCritical, Sent
<1>7. CASE Retry
  <2>1. UNCHANGED Sent
    BY <1>7, <1>d, <1>f DEF Retry, Sent, Caller
  <2> QED BY <1>7, <2>1, <1>e DEF Retry
<1>8. CASE Sigalrm
  <2>1. UNCHANGED Sent
    <3>1. rel["signal"].at = "out"
      BY <1>8 DEF Sigalrm, MainRuns, Active
    <3> QED BY <1>8, <3>1, <1>f DEF Sigalrm, Sent, Caller
  <2> QED BY <1>8, <2>1, <1>e DEF Sigalrm
<1>9. ASSUME NEW who \in Caller, SendDue(who)
      PROVE  OrderInv'
  <2>1. /\ UNCHANGED <<received, pkt, pc, queue>>
        /\ rel' = [rel EXCEPT ![who].at = "unlink"]
        /\ rel[who].at = "due" /\ queue # <<>>
    BY <1>9, NoShuffle DEF SendDue
  <2>2. Sent = 0 /\ Sent' = 1
    <3>1. \A w \in Caller : rel[w].at # "unlink"
      BY <2>1, <1>d DEF Active
    <3>2. rel'[who].at = "unlink"
      BY <2>1, <1>a DEF Activation
    <3> QED BY <3>1, <3>2 DEF Sent
  <2>3. 1 \in DOMAIN queue
    BY <2>1, <1>a
  <2>a. /\ \A k \in DOMAIN echoed, i \in DOMAIN queue : echoed[k].id < queue[i].id
        /\ \A i \in DOMAIN queue : i > 1 => queue[1].id < queue[i].id
    BY <2>2, <2>3, <1>a
  <2>4. CASE echoed' = echoed
    <3>1. \A k \in DOMAIN echoed, i \in DOMAIN queue :
             i > Sent' => echoed[k].id < queue[i].id
      BY <2>a
    <3> QED BY <2>1, <2>4, <3>1
  <2>5. CASE echoed' = Append(echoed, [id |-> queue[1].id,
                                       host |-> queue[1].host])
    <3>1. [id |-> queue[1].id, host |-> queue[1].host] \in Reply
      <4>1. queue[1] \in Packet
        BY <2>3, <1>a
      <4> QED BY <4>1 DEF Packet, Reply
    <3>2. /\ DOMAIN echoed' = 1..(Len(echoed) + 1)
          /\ \A k \in 1..Len(echoed) : echoed'[k] = echoed[k]
          /\ echoed'[Len(echoed) + 1].id = queue[1].id
      BY <2>5, <3>1, <1>a
    <3>3. \A k, l \in DOMAIN echoed' : k < l => echoed'[k].id < echoed'[l].id
      BY SMTT(40), <3>2, <2>2, <2>3, <1>a
    <3>4. \A k \in DOMAIN echoed', i \in DOMAIN queue :
             i > 1 => echoed'[k].id < queue[i].id
      BY <3>2, <2>a, <1>a
    <3>5. \A k \in DOMAIN echoed' : echoed'[k].id <= received
      BY <3>2, <2>3, <1>a
    <3>6. pc \in Serving => \A k \in DOMAIN echoed' : echoed'[k].id < pkt.id
      BY <3>2, <2>3, <1>a
    <3> QED BY <2>1, <2>2, <3>3, <3>4, <3>5, <3>6
  <2> QED BY <1>9, <2>1, <2>4, <2>5 DEF SendDue
<1>10. ASSUME NEW who \in Caller, Unlink(who)
       PROVE  OrderInv'
  <2>1. /\ queue # <<>> /\ rel[who].at = "unlink"
    BY <1>10 DEF Unlink, ReleaseInv
  <2>2. /\ UNCHANGED <<received, pkt, pc, echoed>> /\ queue' = Tail(queue)
        /\ rel' = [rel EXCEPT ![who].at = "due"]
    BY <1>10, <2>1 DEF Unlink
  <2>3. Sent = 1 /\ Sent' = 0
    <3>1. \A w \in Caller : w # who => rel[w].at = "out"
      BY <2>1, <1>d DEF Active
    <3>2. \A w \in Caller : rel'[w].at # "unlink"
      BY <2>2, <3>1, <1>a DEF Activation
    <3> QED BY <2>1, <3>2 DEF Sent
  <2>4. /\ DOMAIN queue' = 1..(Len(queue) - 1)
        /\ \A i \in DOMAIN queue' : i + 1 \in DOMAIN queue
                                    /\ queue'[i] = queue[i + 1]
    BY <2>1, <2>2, <1>a, HeadTailProperties
  <2>5. \A i, j \in DOMAIN queue' : i < j => queue'[i].id < queue'[j].id
    BY <2>4, <1>a
  <2>6. \A k \in DOMAIN echoed, i \in DOMAIN queue' :
           i > 0 => echoed[k].id < queue'[i].id
    BY <2>3, <2>4, <1>a
  <2> QED BY <2>2, <2>3, <2>4, <2>5, <2>6
<1>11. ASSUME NEW who \in Caller, NothingDue(who)
       PROVE  OrderInv'
  <2>1. /\ rel' = [rel EXCEPT ![who].at = "hosts"] /\ rel[who].at = "due"
        /\ UNCHANGED <<queue, echoed, received, pkt, pc>>
    BY <1>11 DEF NothingDue
  <2>2. UNCHANGED Sent
    BY <2>1, <1>a DEF Sent, Activation
  <2> QED BY <2>1, <2>2
<1>12. ASSUME NEW who \in Caller, SweepHosts(who)
       PROVE  OrderInv'
  <2>1. /\ rel' = [rel EXCEPT ![who].at = "arm"] /\ rel[who].at = "hosts"
        /\ UNCHANGED <<queue, echoed, received, pkt, pc>>
    BY <1>12 DEF SweepHosts
  <2>2. UNCHANGED Sent
    BY <2>1, <1>a DEF Sent, Activation
  <2> QED BY <2>1, <2>2
<1>13. ASSUME NEW who \in Caller, Rearm(who)
       PROVE  OrderInv'
  <2>1. /\ rel' = [rel EXCEPT ![who] = Outside] /\ rel[who].at = "arm"
        /\ UNCHANGED <<queue, echoed, received, pkt>>
        /\ pc' \in Serving => pc \in Serving
    BY <1>13 DEF Rearm
  <2>2. UNCHANGED Sent
    BY <2>1, <1>f DEF Outside
  <2> QED BY <2>1, <2>2, <1>e
<1>14. CASE Tick
  BY <1>14, <1>e DEF Tick, Sent
<1>15. CASE UNCHANGED vars
  BY <1>15, <1>e DEF vars, Sent
<1> QED
  BY <1>1, <1>2, <1>3, <1>4, <1>5, <1>6, <1>7, <1>8, <1>9, <1>10, <1>11,
     <1>12, <1>13, <1>14, <1>15 DEF Next, MainLoop, Release

-----------------------------------------------------------------------------
(* What the steps above add up to, for a server whose release() is never   *)
(* re-entered: the inductive invariant holds.                              *)
THEOREM EchoSafe == ASSUME ~Reentrant PROVE Spec => []EchoInv
<1>1. Init => EchoInv
  <2> SUFFICES ASSUME Init PROVE EchoInv
    OBVIOUS
  <2>a. EchoTime \in Nat /\ TockTock \in Nat /\ Caller = {"main", "signal"}
    BY EchoAssumption DEF EchoAssumption, Caller
  <2>b. queue = <<>> /\ DOMAIN queue = {} /\ echoed = <<>> /\ DOMAIN echoed = {}
    BY DEF Init
  <2>c. \A who \in Caller : rel[who] = Outside
    BY DEF Init
  <2>1. LockInv
    BY <2>a, <2>c DEF Init, LockInv, Active, Outside
  <2>2. TimeInv /\ QueueOrdered
    BY <2>a, <2>b DEF Init, TimeInv, QueueOrdered, Serving
  <2>3. ReleaseInv
    BY <2>a, <2>c DEF Init, ReleaseInv, Outside
  <2>4. TimerAlive
    BY <2>a DEF Init, TimerAlive, Off
  <2>5. ServeInv /\ Purged /\ QueuedHostsKnown
    BY <2>b DEF Init, ServeInv, Purged, QueuedHostsKnown
  <2>6. OrderInv
    BY <2>b DEF Init, OrderInv, Serving
  <2> QED BY <2>1, <2>2, <2>3, <2>4, <2>5, <2>6 DEF EchoInv
<1>2. TypeOK /\ EchoInv /\ [Next]_vars => EchoInv'
  BY LockStep, TimeStep, ReleaseStep, TimerStepAlive, ServeStep, KnownStep,
     OrderStep, PurgedStep DEF EchoInv
<1> QED BY <1>1, <1>2, TypeCorrect, PTL DEF Spec

(* The queue stays in time order, shuffled or not. *)
THEOREM Ordered == ASSUME ~Reentrant PROVE Spec => []QueueOrdered
<1>1. EchoInv => QueueOrdered
  BY DEF EchoInv, TimeInv
<1> QED BY <1>1, EchoSafe, PTL

(* The timer is never lost. *)
THEOREM TimerNeverLost == ASSUME ~Reentrant PROVE Spec => []TimerAlive
<1>1. EchoInv => TimerAlive
  BY DEF EchoInv
<1> QED BY <1>1, EchoSafe, PTL

(* The flags crit and clash do exclude the two users of the queue from     *)
(* each other as long as the release() that main calls is not interrupted. *)
THEOREM Locked == ASSUME ~Reentrant PROVE Spec => []QueueLocked
<1>1. EchoInv => QueueLocked
  BY DEF EchoInv, LockInv, QueueLocked, Caller, Active
<1> QED BY <1>1, EchoSafe, PTL

(* Without shuffling, no host with a packet in the queue is forgotten. *)
THEOREM HostsKnown ==
    ASSUME ~Reentrant, ShuffleDepth = 0 PROVE Spec => []QueuedHostsKnown
<1>1. EchoInv => QueuedHostsKnown
  BY DEF EchoInv
<1> QED BY <1>1, EchoSafe, PTL

(* Without shuffling, no datagram is sent back twice. *)
THEOREM OnlyOnce ==
    ASSUME ~Reentrant, ShuffleDepth = 0 PROVE Spec => []EchoedOnce
<1>1. TypeOK /\ EchoInv => EchoedOnce
  <2> SUFFICES ASSUME TypeOK, EchoInv,
                      NEW i \in DOMAIN echoed, NEW j \in DOMAIN echoed, i # j
               PROVE  echoed[i].id # echoed[j].id
    BY DEF EchoedOnce
  <2>1. \A k, l \in DOMAIN echoed : k < l => echoed[k].id < echoed[l].id
    BY DEF EchoInv, OrderInv
  <2>2. /\ DOMAIN echoed = 1..Len(echoed) /\ Len(echoed) \in Nat
        /\ echoed[i].id \in Nat /\ echoed[j].id \in Nat
    <3>1. MaxPackets \in Nat /\ echoed \in Seq(Reply)
      BY EchoAssumption DEF EchoAssumption, TypeOK
    <3>2. echoed[i] \in Reply /\ echoed[j] \in Reply
      BY <3>1
    <3> QED BY <3>1, <3>2 DEF Reply
  <2>3. i < j \/ j < i
    BY <2>2
  <2> QED BY <2>1, <2>2, <2>3
<1> QED BY <1>1, EchoSafe, TypeCorrect, PTL

(* Nothing is sent to a host that has left, until it comes back. *)
THEOREM ByeRespected ==
    ASSUME ~Reentrant, ShuffleDepth = 0 \/ ~MayFail
    PROVE  Spec => NoEchoAfterBye
<1>1. TypeOK /\ EchoInv /\ EchoInv' /\ [Next]_vars
        => [echoed' # echoed => echoed'[Len(echoed')].host \notin gone]_vars
  <2> SUFFICES ASSUME TypeOK, EchoInv, EchoInv', Next, echoed' # echoed
               PROVE  echoed'[Len(echoed')].host \notin gone
    BY DEF vars
  <2>1. PICK who \in Caller : SendDue(who)
    BY DEF Next, MainLoop, Release, Receive, EnterCritical, Connect, ServeBye,
           ServeEcho, LeaveCritical, Retry, Sigalrm, Unlink, NothingDue,
           SweepHosts, Rearm, Tick
  <2>2. /\ queue'[1].live
        /\ echoed' = Append(echoed, [id |-> queue'[1].id,
                                     host |-> queue'[1].host])
        /\ UNCHANGED gone /\ queue # <<>>
    BY <2>1 DEF SendDue
  <2>3. 1 \in DOMAIN queue'
    <3>1. PICK n \in 0..ShuffleDepth :
             queue' = IF n = 0 THEN queue ELSE Shuffled(n)
      BY <2>1 DEF SendDue
    <3>2. DOMAIN queue' = DOMAIN queue
      BY <3>1 DEF Shuffled
    <3> QED BY <2>2, <3>2 DEF TypeOK
  <2>4. queue'[1].host \notin gone
    BY <2>2, <2>3 DEF EchoInv, Purged
  <2>5. echoed \in Seq(Reply) /\ Len(echoed) \in Nat
    BY DEF TypeOK
  <2>6. echoed'[Len(echoed')] = [id |-> queue'[1].id, host |-> queue'[1].host]
    BY <2>2, <2>5
  <2> QED BY <2>4, <2>6
<1> QED BY <1>1, EchoSafe, TypeCorrect, PTL DEF Spec, NoEchoAfterBye

-----------------------------------------------------------------------------
(* The refinement. *)

(* Apart from the send itself and the unlinking after it, moving a         *)
(* release() along does not touch the line.                                *)
LEMMA LineKept ==
    ASSUME UNCHANGED queue, TypeOK, NEW who \in Caller, NEW r,
           rel[who].at # "unlink", r.at # "unlink",
           rel' = [rel EXCEPT ![who] = r]
    PROVE  UNCHANGED Line
<1>1. rel \in [Caller -> Activation]
  BY DEF TypeOK
<1>2. UNCHANGED Sent
  BY <1>1 DEF Sent
<1> QED BY <1>2 DEF Line

(* Without shuffling every step of the echo server is a step of the delay  *)
(* line or leaves it alone.                                                *)
THEOREM Refinement ==
    ASSUME ~Reentrant, ShuffleDepth = 0 PROVE Spec => IsDelayLine
<1>1. Init => Delay!Init
  BY DEF Init, Delay!Init, Line
<1>2. TypeOK /\ EchoInv /\ [Next]_vars => [Delay!Next]_(Delay!vars)
  <2> SUFFICES ASSUME TypeOK, EchoInv, [Next]_vars
               PROVE  [Delay!Next]_(Delay!vars)
    OBVIOUS
  <2>a. /\ queue \in Seq(Packet) /\ echoed \in Seq(Reply)
        /\ DOMAIN queue = 1..Len(queue) /\ Len(queue) \in Nat
        /\ rel \in [Caller -> Activation]
    BY DEF TypeOK
  <2>b. \A i \in DOMAIN queue : queue[i] \in Packet
    BY <2>a
  <2>c. LockInv /\ TimeInv /\ ReleaseInv /\ OrderInv
    BY DEF EchoInv
  <2>d. /\ crit => \A w \in Caller : rel[w].at = "out"
        /\ pc = "retry" => rel["main"].at = "out"
        /\ \A who \in Caller : Active(who) =>
             \A w \in Caller : w # who => rel[w].at = "out"
    BY <2>c, OneRelease
  <2>e. Sent \in {0, 1}
    BY DEF Sent
  <2>f. ASSUME UNCHANGED <<now, echoed, Line>>
        PROVE  [Delay!Next]_(Delay!vars)
    BY <2>f DEF Delay!vars
  <2>g. ASSUME UNCHANGED <<queue, rel>>
        PROVE  UNCHANGED Line
    BY <2>g DEF Line, Sent
  <2>1. ASSUME NEW h \in Host, NEW bye \in BOOLEAN, Receive(h, bye)
        PROVE  [Delay!Next]_(Delay!vars)
    BY <2>1, <2>f, <2>g DEF Receive
  <2>2. CASE EnterCritical
    BY <2>2, <2>f, <2>g DEF EnterCritical
  <2>3. CASE Connect
    BY <2>3, <2>f, <2>g DEF Connect
  <2>4. CASE ServeBye
    <3>1. /\ DOMAIN queue' = DOMAIN queue
          /\ \A i \in DOMAIN queue :
               /\ queue'[i].host = queue[i].host
               /\ queue'[i].id = queue[i].id
               /\ queue'[i].when = queue[i].when
               /\ queue'[i].live <=> queue[i].live /\ queue[i].host # pkt.host
      BY <2>4, <2>b DEF ServeBye, Packet
    <3>2. /\ UNCHANGED <<now, echoed, rel>>
          /\ pkt.host \in Host
      BY <2>4 DEF ServeBye, TypeOK, Datagram
    <3>3. UNCHANGED Sent
      BY <3>2 DEF Sent
    <3>4. Line' = {p \in Line : p.host # pkt.host}
      BY <3>1, <3>3 DEF Line
    <3> QED BY <3>2, <3>4 DEF Delay!Next, Delay!Silence
  <2>5. CASE ServeEcho
    <3> DEFINE q == [id |-> pkt.id, host |-> pkt.host, when |-> pkt.when,
                     live |-> TRUE]
               p == [id |-> pkt.id, host |-> pkt.host, due |-> pkt.when]
    <3>1. /\ UNCHANGED <<now, echoed, rel>> /\ pc = "serve"
      BY <2>5 DEF ServeEcho
    <3>2. Sent = 0 /\ Sent' = 0
      BY <3>1, <2>c, <2>d DEF LockInv, Sent
    <3>3. CASE queue' = queue
      BY <3>1, <3>3, <2>f, <2>g
    <3>4. CASE queue' = Append(queue, q)
      <4>1. /\ DOMAIN queue' = 1..(Len(queue) + 1)
            /\ \A i \in 1..Len(queue) : queue'[i] = queue[i]
            /\ queue'[Len(queue) + 1] = q
        BY <3>4, <2>a
      <4>2. Line' = Line \cup {p}
        <5>1. \A x \in Line' : x \in Line \cup {p}
          BY <4>1, <3>2, <2>a DEF Line
        <5>2. p \in Line'
          <6> DEFINE k == Len(queue) + 1
          <6>1. k \in DOMAIN queue' /\ k > 0
            BY <4>1, <2>a
          <6>2. queue'[k].live /\ p = [id |-> queue'[k].id,
                  host |-> queue'[k].host, due |-> queue'[k].when]
            BY <4>1
          <6> HIDE DEF p, k
          <6> QED BY <6>1, <6>2, <3>2 DEF Line
        <5>3. \A x \in Line : x \in Line'
          BY <4>1, <3>2, <2>a DEF Line
        <5> QED BY <5>1, <5>2, <5>3
      <4>3. /\ pkt.id \in 1..MaxPackets /\ pkt.host \in Host
            /\ pkt.when \in 0..(now + EchoTime)
        <5>1. MaxPackets \in Nat /\ EchoTime \in Nat
          BY EchoAssumption DEF EchoAssumption
        <5>2. 1 <= pkt.id /\ pkt.when <= now + EchoTime
          BY <3>1, <2>c DEF OrderInv, TimeInv, Serving
        <5>3. pkt.id \in 0..MaxPackets /\ pkt.host \in Host /\ pkt.when \in Nat
              /\ now \in Nat
          BY DEF TypeOK, Datagram
        <5> QED BY <5>1, <5>2, <5>3
      <4>4. p \in Delay!Incoming
        BY <4>3 DEF Delay!Incoming
      <4>5. \A x \in Line : x.id < p.id
        BY <3>1, <2>c DEF Line, OrderInv, Serving
      <4>6. \A i \in DOMAIN echoed : echoed[i].id < p.id
        BY <3>1, <2>c DEF OrderInv, Serving
      <4>7. Delay!Accept(p)
        BY <4>2, <4>5, <4>6, <3>1 DEF Delay!Accept
      <4> QED BY <4>4, <4>7 DEF Delay!Next
    <3> QED BY <2>5, <3>3, <3>4 DEF ServeEcho
  <2>6. CASE LeaveCritical
    BY <2>6, <2>f, <2>g DEF LeaveCritical
  <2>7. CASE Retry
    <3>1. UNCHANGED Line
      BY <2>7, <2>d, <2>g, LineKept DEF Retry, Caller
    <3> QED BY <2>7, <3>1, <2>f DEF Retry
  <2>8. CASE Sigalrm
    <3>1. rel["signal"].at = "out"
      BY <2>8 DEF Sigalrm, MainRuns, Active
    <3>2. UNCHANGED Line
      BY <2>8, <3>1, <2>g, LineKept DEF Sigalrm, Caller
    <3> QED BY <2>8, <3>2, <2>f DEF Sigalrm
  <2>9. ASSUME NEW who \in Caller, SendDue(who)
        PROVE  [Delay!Next]_(Delay!vars)
    <3> DEFINE p == [id |-> queue[1].id, host |-> queue[1].host,
                     due |-> queue[1].when]
    <3>1. /\ UNCHANGED <<now, queue>>
          /\ rel' = [rel EXCEPT ![who].at = "unlink"]
          /\ rel[who].at = "due" /\ queue # <<>>
          /\ Due(queue[1], rel[who].td)
      BY <2>9, NoShuffle DEF SendDue
    <3>2. Sent = 0 /\ Sent' = 1
      <4>1. \A w \in Caller : rel[w].at # "unlink"
        BY <3>1, <2>d DEF Active
      <4>2. rel'[who].at = "unlink"
        BY <3>1, <2>a DEF Activation
      <4> QED BY <4>1, <4>2 DEF Sent
    <3>3. 1 \in DOMAIN queue
      BY <3>1, <2>a
    <3>4. CASE ~queue[1].live
      <4>1. \A i \in DOMAIN queue : i > 0 /\ queue[i].live => i > 1
        BY <3>4, <2>a
      <4>2. \A i \in DOMAIN queue : i > 1 => i > 0
        BY <2>a
      <4>3. UNCHANGED Line
        BY <4>1, <4>2, <3>1, <3>2 DEF Line
      <4>4. UNCHANGED echoed
        BY <3>1, <3>4, <2>9 DEF SendDue
      <4> QED BY <4>3, <4>4, <3>1, <2>f
    <3>5. CASE queue[1].live
      <4>1. echoed' = Append(echoed, [id |-> p.id, host |-> p.host])
        BY <3>1, <3>5, <2>9 DEF SendDue
      <4>2. p \in Line
        BY <3>2, <3>3, <3>5 DEF Line
      <4>3. \A i \in DOMAIN queue : i > 1 => queue[1].id < queue[i].id
        BY <3>3, <2>a, <2>c DEF OrderInv
      <4>4. queue[1].id \in Nat /\ \A i \in DOMAIN queue : queue[i].id \in Nat
        <5>1. MaxPackets \in Nat
          BY EchoAssumption DEF EchoAssumption
        <5> QED BY <5>1, <3>3, <2>b DEF Packet
      <4>5. \A x \in Line : p.id <= x.id
        BY SMTT(40), <4>3, <4>4, <3>2, <2>a DEF Line
      <4>6. Line' = Line \ {p}
        <5>1. \A x \in Line' : x \in Line /\ x # p
          BY <4>3, <4>4, <3>1, <3>2, <2>a DEF Line
        <5>2. \A x \in Line : x # p => x \in Line'
          BY <3>1, <3>2, <2>a DEF Line
        <5> QED BY <5>1, <5>2
      <4>7. p.due < now + Epsilon
        <5>1. rel[who].td <= now
          BY <2>c DEF ReleaseInv
        <5>2. /\ queue[1].when \in Nat /\ rel[who].td \in Nat
              /\ now \in Nat /\ Epsilon \in Nat
          BY <3>3, <2>a, <2>b, EchoAssumption
             DEF EchoAssumption, Packet, Activation, TypeOK
        <5> QED BY <5>1, <5>2, <3>1 DEF Due
      <4>8. Delay!Emit(p)
        BY <4>1, <4>5, <4>6, <4>7, <3>1 DEF Delay!Emit
      <4> QED BY <4>2, <4>8 DEF Delay!Next
    <3> QED BY <3>4, <3>5
  <2>10. ASSUME NEW who \in Caller, Unlink(who)
         PROVE  [Delay!Next]_(Delay!vars)
    <3>1. queue # <<>> /\ rel[who].at = "unlink"
      BY <2>10, <2>c DEF Unlink, ReleaseInv
    <3>2. /\ UNCHANGED <<now, echoed>> /\ queue' = Tail(queue)
          /\ rel' = [rel EXCEPT ![who].at = "due"]
      BY <2>10, <3>1 DEF Unlink
    <3>3. Sent = 1 /\ Sent' = 0
      <4>1. \A w \in Caller : w # who => rel[w].at = "out"
        BY <3>1, <2>d DEF Active
      <4>2. \A w \in Caller : rel'[w].at # "unlink"
        BY <3>2, <4>1, <2>a DEF Activation
      <4> QED BY <3>1, <4>2 DEF Sent
    <3>4. /\ DOMAIN queue' = 1..(Len(queue) - 1)
          /\ \A i \in 1..(Len(queue) - 1) : queue'[i] = queue[i + 1]
      BY <3>1, <3>2, <2>a, HeadTailProperties
    <3>5. \A x \in Line' : x \in Line
      <4> SUFFICES ASSUME NEW i \in DOMAIN queue', i > 0, queue'[i].live
                   PROVE  [id |-> queue'[i].id, host |-> queue'[i].host,
                           due |-> queue'[i].when] \in Line
        BY <3>3 DEF Line
      <4>1. i + 1 \in DOMAIN queue /\ i + 1 > 1 /\ queue'[i] = queue[i + 1]
        BY <3>4, <2>a
      <4> QED BY <4>1, <3>3 DEF Line
    <3>6. \A x \in Line : x \in Line'
      <4> SUFFICES ASSUME NEW i \in DOMAIN queue, i > 1, queue[i].live
                   PROVE  [id |-> queue[i].id, host |-> queue[i].host,
                           due |-> queue[i].when] \in Line'
        BY <3>3 DEF Line
      <4>1. i - 1 \in 1..(Len(queue) - 1) /\ queue'[i - 1] = queue[i]
        BY <3>4, <2>a
      <4> QED BY <4>1, <3>3, <3>4 DEF Line
    <3> QED BY <3>2, <3>5, <3>6, <2>f
  <2>11. ASSUME NEW who \in Caller, NothingDue(who)
         PROVE  [Delay!Next]_(Delay!vars)
    <3>1. UNCHANGED Sent
      BY <2>11, <2>a DEF NothingDue, Sent, Activation
    <3>2. UNCHANGED Line
      BY <2>11, <3>1 DEF NothingDue, Line
    <3> QED BY <2>11, <3>2, <2>f DEF NothingDue
  <2>12. ASSUME NEW who \in Caller, SweepHosts(who)
         PROVE  [Delay!Next]_(Delay!vars)
    <3>1. UNCHANGED Sent
      BY <2>12, <2>a DEF SweepHosts, Sent, Activation
    <3>2. UNCHANGED Line
      BY <2>12, <3>1 DEF SweepHosts, Line
    <3> QED BY <2>12, <3>2, <2>f DEF SweepHosts
  <2>13. ASSUME NEW who \in Caller, Rearm(who)
         PROVE  [Delay!Next]_(Delay!vars)
    <3>1. UNCHANGED Line
      BY <2>13, LineKept DEF Rearm, Outside
    <3> QED BY <2>13, <3>1, <2>f DEF Rearm
  <2>14. CASE Tick
    <3>1. UNCHANGED Line
      BY <2>14, <2>g DEF Tick
    <3> QED BY <2>14, <3>1 DEF Tick, Delay!Tick, Delay!Next
  <2>15. CASE UNCHANGED vars
    BY <2>15, <2>f, <2>g DEF vars
  <2> QED
    BY <2>1, <2>2, <2>3, <2>4, <2>5, <2>6, <2>7, <2>8, <2>9, <2>10, <2>11,
       <2>12, <2>13, <2>14, <2>15 DEF Next, MainLoop, Release
<1> QED BY <1>1, <1>2, EchoSafe, TypeCorrect, PTL
        DEF Spec, IsDelayLine, Delay!Spec

-----------------------------------------------------------------------------
(* A prompt server is on time.  Unless a release() runs or is about to, the *)
(* timer expires no later than the head of the queue is to be sent, and    *)
(* soon enough for every host and for the LWL entry; only a packet that    *)
(* finds the queue empty puts it off, by EchoTime, and the queue is then   *)
(* not empty until the next release().                                     *)
Busy == \/ \E who \in Caller : Active(who)
        \/ clash /\ pc \in {"connect", "serve", "leave", "retry"}

PutOff == IF queue = <<>> THEN 0 ELSE EchoTime

AlarmInTime ==
    /\ now <= alarm
    /\ alarm <= now + TockTock \/ alarm <= now + EchoTime
    /\ queue # <<>> => alarm <= queue[1].when
    /\ \A h \in DOMAIN conn : alarm < conn[h].timeout + Idle + PutOff
    /\ sdes => alarm < lwltimer + TockTock + PutOff

PromptInv ==
    /\ \A who \in Caller : Active(who) => rel[who].td = now
    /\ pc \in Serving => pkt.when = now + EchoTime
    /\ \A i \in DOMAIN queue : now <= queue[i].when
    /\ SweptInTime
    /\ sdes => /\ now < lwltimer + TockTock + EchoTime
               /\ lwltimer <= published + LwlRetransmit
    /\ \A who \in Caller : rel[who].at = "arm" =>
         /\ \A h \in DOMAIN conn : now < conn[h].timeout + HostTimeout
         /\ sdes => now < lwltimer
    /\ ~Busy => AlarmInTime

LEMMA Times ==
    /\ EchoTime \in Nat \ {0} /\ TickTock \in Nat \ {0} /\ TockTock \in Nat \ {0}
    /\ TickTock <= TockTock /\ HostTimeout \in Nat /\ LwlRetransmit \in Nat \ {0}
    /\ Epsilon \in Nat /\ Latency \in Nat /\ Latency < Epsilon
    /\ Idle \in Nat /\ HostTimeout + TickTock <= Idle /\ TockTock <= Idle
    /\ PutOff \in Nat /\ PutOff <= EchoTime
BY EchoAssumption DEF EchoAssumption, Idle, PutOff

LEMMA Numbers ==
    ASSUME TypeOK
    PROVE  /\ now \in Nat /\ alarm \in Nat \cup {Off} /\ alarm \in Int
           /\ lwltimer \in Nat /\ published \in Nat /\ pkt.when \in Nat
           /\ queue \in Seq(Packet) /\ Len(queue) \in Nat
           /\ DOMAIN queue = 1..Len(queue)
           /\ queue # <<>> => 1 \in DOMAIN queue
           /\ \A i \in DOMAIN queue : queue[i].when \in Nat
           /\ \A h \in DOMAIN conn : conn[h].timeout \in Nat
           /\ \A who \in Caller : rel[who].td \in Nat
<1>1. /\ now \in Nat /\ alarm \in Nat \cup {Off} /\ pkt \in Datagram
      /\ lwltimer \in Nat /\ published \in Nat /\ queue \in Seq(Packet)
      /\ conn \in [DOMAIN conn -> Connection] /\ rel \in [Caller -> Activation]
  BY DEF TypeOK
<1>2. \A i \in DOMAIN queue : queue[i] \in Packet
  BY <1>1
<1> QED BY <1>1, <1>2 DEF Datagram, Packet, Connection, Activation, Off

(* A step that sets the timer, if at all, for a release() to come.         *)
LEMMA PromptKept ==
    ASSUME PromptInv, UNCHANGED <<now, sdes, lwltimer, published>>,
           pc' \in Serving => pkt'.when = now + EchoTime,
           \A who \in Caller : /\ Active(who)' => rel'[who].td = now
                               /\ rel'[who].at = "arm" => rel[who].at = "arm",
           \A i \in DOMAIN queue' : \E j \in DOMAIN queue :
               queue'[i].when = queue[j].when,
           \A h \in DOMAIN conn' :
               h \in DOMAIN conn /\ conn'[h].timeout = conn[h].timeout,
           ~Busy' => /\ ~Busy /\ alarm' = alarm
                     /\ queue' = <<>> <=> queue = <<>>
                     /\ queue # <<>> => queue'[1].when = queue[1].when
    PROVE  PromptInv'
<1>1. SweptInTime'
  BY DEF PromptInv, SweptInTime
<1>2. ~Busy' => AlarmInTime'
  BY DEF PromptInv, AlarmInTime, PutOff
<1>3. \A i \in DOMAIN queue' : now' <= queue'[i].when
  BY DEF PromptInv
<1> QED BY <1>1, <1>2, <1>3 DEF PromptInv

LEMMA PromptInit == Init => PromptInv
<1> SUFFICES ASSUME Init PROVE PromptInv
  OBVIOUS
<1>1. /\ now = 0 /\ alarm = TockTock /\ queue = <<>> /\ DOMAIN queue = {} /\ DOMAIN conn = {}
      /\ pc = "select" /\ lwltimer = LwlRetransmit /\ published = 0
      /\ \A who \in Caller : rel[who] = Outside
  BY DEF Init, NoConnection
<1>2. PutOff = 0
  BY <1>1 DEF PutOff
<1>3. \A who \in Caller : ~Active(who) /\ rel[who].at # "arm"
  BY <1>1 DEF Active, Outside
<1>4. AlarmInTime
  BY <1>1, <1>2, Times DEF AlarmInTime
<1>5. SweptInTime
  BY <1>1 DEF SweptInTime
<1> QED BY <1>1, <1>3, <1>4, <1>5, Times DEF PromptInv, Serving

LEMMA PromptStep ==
    ASSUME Prompt, ~Reentrant, TypeOK, TypeOK', LockInv, TimeInv, ReleaseInv,
           PromptInv, [Next]_vars
    PROVE  PromptInv'
<1>a. /\ rel \in [Caller -> Activation] /\ Caller = {"main", "signal"}
      /\ queue \in Seq(Packet)
  BY DEF TypeOK, Caller
<1>b. /\ crit => \A w \in Caller : rel[w].at = "out"
      /\ pc = "retry" => rel["main"].at = "out"
      /\ \A who \in Caller : Active(who) =>
           \A w \in Caller : w # who => rel[w].at = "out"
  BY OneRelease
<1>c. ASSUME UNCHANGED rel
      PROVE  \A who \in Caller : /\ Active(who)' => rel'[who].td = now
                                 /\ rel'[who].at = "arm" => rel[who].at = "arm"
  BY <1>c DEF PromptInv, Active
<1>1. ASSUME NEW h \in Host, NEW bye \in BOOLEAN, Receive(h, bye)
      PROVE  PromptInv'
  <2>1. /\ UNCHANGED <<now, alarm, clash, conn, queue, rel, sdes, lwltimer, published>>
        /\ pkt'.when = now + EchoTime /\ pc = "select" /\ pc' \in {"select", "received"}
    BY <1>1 DEF Receive, lwlVars
  <2>2. Busy' <=> Busy
    BY <2>1 DEF Busy, Active
  <2> QED BY <1>c, <2>1, <2>2, PromptKept
<1>2. CASE EnterCritical
  <2>1. /\ UNCHANGED <<now, alarm, clash, conn, queue, rel, pkt, sdes, lwltimer, published>>
        /\ pc = "received" /\ pc' = "connect"
    BY <1>2 DEF EnterCritical, lwlVars
  <2>2. (~Busy' => ~Busy) /\ pkt'.when = now + EchoTime
    BY <2>1 DEF Busy, Active, PromptInv, Serving
  <2> QED BY <1>c, <2>1, <2>2, PromptKept
<1>3. CASE Connect
  <2>1. /\ UNCHANGED <<now, alarm, clash, queue, rel, pkt, sdes, lwltimer, published>>
        /\ pc = "connect" /\ pc' \in {"serve", "leave"}
    BY <1>3 DEF Connect, lwlVars
  <2>2. (Busy' <=> Busy) /\ pkt'.when = now + EchoTime
    BY <2>1 DEF Busy, Active, PromptInv, Serving
  <2>3. CASE UNCHANGED conn
    BY <1>c, <2>1, <2>2, <2>3, PromptKept
  <2>4. CASE conn' = [h \in DOMAIN conn \cup {pkt.host} |->
                        IF h = pkt.host
                        THEN [timeout |-> pkt.when, bye |-> FALSE] ELSE conn[h]]
    <3>1. \A h \in DOMAIN conn' :
            \/ conn'[h].timeout = now + EchoTime
            \/ h \in DOMAIN conn /\ conn'[h].timeout = conn[h].timeout
      BY <2>1, <2>2, <2>4
    <3>2. \A who \in Caller : rel'[who].at # "arm"
      BY <1>b, <2>1 DEF LockInv
    <3>3. SweptInTime'
      BY <2>1, <3>1, Times, Numbers DEF PromptInv, SweptInTime
    <3>4. ASSUME ~Busy' PROVE AlarmInTime'
      <4>1. AlarmInTime /\ PutOff' = PutOff
        BY <2>1, <2>2, <3>4 DEF PromptInv, PutOff
      <4>2. alarm < now + EchoTime + Idle
        BY <4>1, Times, Numbers DEF AlarmInTime
      <4>3. \A h \in DOMAIN conn' : alarm' < conn'[h].timeout + Idle + PutOff
        BY <2>1, <3>1, <4>1, <4>2, Times, Numbers DEF AlarmInTime
      <4> QED BY <2>1, <4>1, <4>3 DEF AlarmInTime
    <3> QED BY <1>c, <2>1, <2>2, <3>2, <3>3, <3>4 DEF PromptInv
  <2> QED BY <1>3, <2>3, <2>4 DEF Connect
<1>4. CASE ServeBye
  <2>1. /\ UNCHANGED <<now, alarm, clash, rel, pkt, sdes, lwltimer, published>>
        /\ pc = "serve" /\ pc' = "leave"
        /\ conn' = [conn EXCEPT ![pkt.host].bye = TRUE]
        /\ queue' = [i \in DOMAIN queue |->
                       [queue[i] EXCEPT !.live = @ /\ queue[i].host # pkt.host]]
    BY <1>4 DEF ServeBye, lwlVars
  <2>2. Busy' <=> Busy
    BY <2>1 DEF Busy, Active
  <2>3. \A h \in DOMAIN conn' : h \in DOMAIN conn /\ conn'[h].timeout = conn[h].timeout
    BY <2>1 DEF TypeOK, Connection
  <2>4. /\ DOMAIN queue' = DOMAIN queue
        /\ \A i \in DOMAIN queue : queue'[i].when = queue[i].when
    <3>1. \A i \in DOMAIN queue : queue[i] \in Packet
      BY <1>a
    <3> QED BY <2>1, <3>1 DEF Packet
  <2>5. (queue' = <<>> <=> queue = <<>>) /\ (queue # <<>> => queue'[1].when = queue[1].when)
    <3>1. queue' \in Seq(Packet)
      BY DEF TypeOK
    <3>2. (queue' = <<>> <=> queue = <<>>)
      BY <1>a, <2>4, <3>1
    <3> QED BY <2>4, <3>2, Numbers
  <2> QED BY <1>c, <2>1, <2>2, <2>3, <2>4, <2>5, PromptKept DEF Serving
<1>5. CASE ServeEcho
  <2> DEFINE p == [id |-> pkt.id, host |-> pkt.host, when |-> pkt.when,
                   live |-> TRUE]
  <2>1. /\ UNCHANGED <<now, clash, conn, rel, pkt, sdes, lwltimer, published>>
        /\ pc = "serve" /\ pc' = "leave"
        /\ \/ UNCHANGED <<queue, alarm>>
           \/ queue' = Append(queue, p) /\ alarm' = IF queue = <<>> THEN Ularm(EchoTime) ELSE alarm
    BY <1>5 DEF ServeEcho, lwlVars
  <2>2. (Busy' <=> Busy) /\ pkt.when = now + EchoTime
    BY <2>1 DEF Busy, Active, PromptInv, Serving
  <2>3. CASE UNCHANGED <<queue, alarm>>
    BY <1>c, <2>1, <2>2, <2>3, PromptKept DEF Serving
  <2>4. CASE queue' = Append(queue, p) /\ alarm' = IF queue = <<>> THEN Ularm(EchoTime) ELSE alarm
    <3>1. /\ DOMAIN queue' = 1..(Len(queue) + 1)
          /\ \A i \in 1..Len(queue) : queue'[i] = queue[i]
          /\ queue'[Len(queue) + 1].when = now + EchoTime
      BY <1>a, <2>2, <2>4
    <3>2. \A i \in DOMAIN queue' : now <= queue'[i].when
      BY <3>1, Times, Numbers DEF PromptInv
    <3>3. queue' # <<>> /\ PutOff' = EchoTime
      BY <1>a, <3>1, Numbers DEF PutOff
    <3>4. SweptInTime'
      BY <2>1 DEF PromptInv, SweptInTime
    <3>5. ASSUME ~Busy' PROVE AlarmInTime'
      <4>1. AlarmInTime
        BY <2>2, <3>5 DEF PromptInv
      <4>2. CASE queue = <<>>
        <5>1. alarm' = now + EchoTime /\ PutOff = 0 /\ queue'[1].when = now + EchoTime
          BY <2>4, <3>1, <4>2, Times DEF Ularm, PutOff
        <5>a. now \in Nat /\ alarm \in Int /\ now <= alarm /\ EchoTime \in Nat /\ Idle \in Nat
          BY <4>1, Times, Numbers DEF AlarmInTime
        <5>b. \A h \in DOMAIN conn : conn[h].timeout \in Nat /\ alarm < conn[h].timeout + Idle
          BY <4>1, <5>1, <5>a, Numbers DEF AlarmInTime
        <5>2. \A h \in DOMAIN conn : alarm' < conn[h].timeout + Idle + EchoTime
          BY <5>1, <5>a, <5>b
        <5>3. sdes => alarm' < lwltimer + TockTock + EchoTime
          BY <4>1, <5>1, Times, Numbers DEF AlarmInTime
        <5> QED BY <2>1, <3>3, <5>1, <5>2, <5>3, Times, Numbers DEF AlarmInTime
      <4>3. CASE queue # <<>>
        <5>1. alarm' = alarm /\ PutOff = EchoTime /\ queue'[1] = queue[1]
          BY <2>4, <3>1, <4>3, Numbers DEF PutOff
        <5> QED BY <2>1, <3>3, <4>1, <4>3, <5>1 DEF AlarmInTime
      <4> QED BY <4>2, <4>3
    <3>6. \A who \in Caller : rel'[who].at # "arm"
      BY <1>b, <2>1 DEF LockInv
    <3> QED BY <1>c, <2>1, <3>2, <3>4, <3>5, <3>6 DEF PromptInv, Serving
  <2> QED BY <2>1, <2>3, <2>4
<1>6. CASE LeaveCritical
  <2>1. /\ UNCHANGED <<now, alarm, clash, conn, queue, rel, pkt, sdes, lwltimer, published>>
        /\ pc = "leave" /\ pc' = "retry"
    BY <1>6 DEF LeaveCritical, lwlVars
  <2>2. Busy' <=> Busy
    BY <2>1 DEF Busy, Active
  <2> QED BY <1>c, <2>1, <2>2, PromptKept DEF Serving
<1>7. CASE Retry
  <2>1. /\ UNCHANGED <<now, alarm, clash, conn, queue, pkt, sdes, lwltimer, published>>
        /\ pc = "retry" /\ pc' \in {"release", "select"}
        /\ \/ clash /\ rel' = [rel EXCEPT !["main"] = [at |-> "due", td |-> now]]
           \/ ~clash /\ UNCHANGED rel
    BY <1>7 DEF Retry, lwlVars
  <2>2. CASE clash /\ rel' = [rel EXCEPT !["main"] = [at |-> "due", td |-> now]]
    <3>1. rel'["main"] = [at |-> "due", td |-> now] /\ rel'["signal"] = rel["signal"]
      BY <1>a, <2>2
    <3>2. \A who \in Caller : /\ Active(who)' => rel'[who].td = now
                              /\ rel'[who].at = "arm" => rel[who].at = "arm"
      BY <1>a, <3>1 DEF PromptInv, Active
    <3>3. Busy'
      BY <1>a, <3>1 DEF Busy, Active
    <3> QED BY <2>1, <3>2, <3>3, PromptKept DEF Serving
  <2>3. CASE ~clash /\ UNCHANGED rel
    <3>1. Busy' <=> Busy
      BY <2>1, <2>3 DEF Busy, Active
    <3> QED BY <1>c, <2>1, <2>3, <3>1, PromptKept DEF Serving
  <2> QED BY <2>1, <2>2, <2>3
<1>8. CASE Sigalrm
  <2>1. UNCHANGED <<now, crit, conn, queue, pc, pkt, sdes, lwltimer, published>>
    BY <1>8 DEF Sigalrm, lwlVars
  <2>2. pc' \in Serving => pkt'.when = now + EchoTime
    BY <2>1 DEF PromptInv
  <2>3. CASE crit
    <3>1. clash' = TRUE /\ UNCHANGED rel
      BY <1>8, <2>3 DEF Sigalrm
    <3>2. Busy'
      BY <2>1, <2>3, <3>1 DEF Busy, LockInv
    <3> QED BY <1>c, <2>1, <2>2, <3>1, <3>2, PromptKept
  <2>4. CASE ~crit
    <3>1. rel' = [rel EXCEPT !["signal"] = [at |-> "due", td |-> now]]
      BY <1>8, <2>4 DEF Sigalrm
    <3>2. rel'["signal"] = [at |-> "due", td |-> now] /\ rel'["main"] = rel["main"]
      BY <1>a, <3>1
    <3>3. \A who \in Caller : /\ Active(who)' => rel'[who].td = now
                              /\ rel'[who].at = "arm" => rel[who].at = "arm"
      BY <1>a, <3>2 DEF PromptInv, Active
    <3>4. Busy'
      BY <1>a, <3>2 DEF Busy, Active
    <3> QED BY <2>1, <2>2, <3>3, <3>4, PromptKept
  <2> QED BY <2>3, <2>4
<1>e. ASSUME NEW who \in Caller, NEW at \in {"due", "unlink", "hosts"},
             Active(who), rel' = [rel EXCEPT ![who].at = at]
      PROVE  /\ Busy'
             /\ \A w \in Caller : /\ Active(w)' => rel'[w].td = now
                                  /\ rel'[w].at = "arm" => rel[w].at = "arm"
  <2>1. rel'[who].at = at /\ rel'[who].td = rel[who].td
    BY <1>a, <1>e DEF Activation
  <2>2. \A w \in Caller : w # who => rel'[w] = rel[w]
    BY <1>a, <1>e
  <2> QED BY <1>e, <2>1, <2>2 DEF PromptInv, Active, Busy
<1>9. ASSUME NEW who \in Caller, SendDue(who)
      PROVE  PromptInv'
  <2>1. /\ UNCHANGED <<now, conn, pc, pkt, sdes, lwltimer, published>>
        /\ Active(who) /\ rel' = [rel EXCEPT ![who].at = "unlink"]
    BY <1>9 DEF SendDue, Runs, lwlVars
  <2>2. PICK n \in 0..ShuffleDepth :
           /\ n < Len(queue)
           /\ queue' = IF n = 0 THEN queue ELSE Shuffled(n)
    BY <1>9 DEF SendDue
  <2>3. \A i \in DOMAIN queue' : i \in DOMAIN queue /\ queue'[i].when = queue[i].when
    <3>1. CASE n = 0
      BY <2>2, <3>1
    <3>2. CASE n # 0
      <4>1. n \in 1..ShuffleDepth
        BY <3>2, EchoAssumption DEF EchoAssumption
      <4> QED BY <1>a, <2>2, <3>2, <4>1, ShuffledProperties
    <3> QED BY <3>1, <3>2
  <2> QED BY <1>e, <2>1, <2>3, PromptKept DEF PromptInv
<1>10. ASSUME NEW who \in Caller, Unlink(who)
       PROVE  PromptInv'
  <2>1. queue # <<>> /\ Active(who)
    BY <1>10 DEF Unlink, ReleaseInv, Runs
  <2>2. /\ UNCHANGED <<now, conn, pc, pkt, sdes, lwltimer, published>>
        /\ queue' = Tail(queue) /\ rel' = [rel EXCEPT ![who].at = "due"]
    BY <1>10, <2>1 DEF Unlink, lwlVars
  <2>3. \A i \in DOMAIN queue' : i + 1 \in DOMAIN queue /\ queue'[i] = queue[i + 1]
    BY <1>a, <2>1, <2>2, Numbers, HeadTailProperties
  <2> QED BY <1>e, <2>1, <2>2, <2>3, PromptKept DEF PromptInv
<1>11. ASSUME NEW who \in Caller, NothingDue(who)
       PROVE  PromptInv'
  <2>1. /\ UNCHANGED <<now, conn, queue, pc, pkt, sdes, lwltimer, published>>
        /\ Active(who) /\ rel' = [rel EXCEPT ![who].at = "hosts"]
    BY <1>11 DEF NothingDue, Runs, lwlVars
  <2> QED BY <1>e, <2>1, PromptKept DEF PromptInv
<1>12. ASSUME NEW who \in Caller, SweepHosts(who)
       PROVE  PromptInv'
  <2>1. /\ UNCHANGED <<now, alarm, clash, queue, pc, pkt>> /\ Active(who) /\ rel[who].td = now
        /\ conn' = [h \in {g \in DOMAIN conn : StillActive(g, rel[who].td)} |-> conn[h]]
        /\ rel' = [rel EXCEPT ![who].at = "arm"]
    BY <1>12 DEF SweepHosts, Runs, PromptInv
  <2>2. rel'[who].at = "arm" /\ rel'[who].td = now /\ \A w \in Caller : w # who => rel'[w] = rel[w]
    BY <1>a, <2>1 DEF Activation
  <2>3. Busy' /\ \A w \in Caller : Active(w)' => rel'[w].td = now
    BY <2>1, <2>2 DEF Busy, Active, PromptInv
  <2>4. \A h \in DOMAIN conn' : /\ h \in DOMAIN conn /\ conn'[h] = conn[h]
                                /\ now < conn[h].timeout + HostTimeout
    BY <2>1 DEF StillActive
  <2>5. sdes' => now < lwltimer' /\ lwltimer' <= published' + LwlRetransmit
    <3>1. CASE sdes /\ now >= lwltimer
      <4>1. lwltimer' = now + LwlRetransmit /\ (sdes' => published' = now)
        BY <1>12, <2>1, <3>1 DEF SweepHosts
      <4> QED BY <4>1, Times, Numbers
    <3>2. CASE ~(sdes /\ now >= lwltimer)
      <4>1. UNCHANGED <<sdes, lwltimer, published>>
        BY <1>12, <2>1, <3>2 DEF SweepHosts, lwlVars
      <4> QED BY <3>2, <4>1, Numbers DEF PromptInv
    <3> QED BY <3>1, <3>2
  <2>6. sdes' => now' < lwltimer' + TockTock + EchoTime
    <3>1. lwltimer' \in Nat
      BY DEF TypeOK
    <3> QED BY <2>1, <2>5, <3>1, Times, Numbers
  <2>7. SweptInTime'
    BY <2>1, <2>4 DEF PromptInv, SweptInTime
  <2> QED BY <2>1, <2>3, <2>4, <2>5, <2>6, <2>7 DEF PromptInv
<1>13. ASSUME NEW who \in Caller, Rearm(who)
       PROVE  PromptInv'
  <2>1. /\ UNCHANGED <<now, conn, queue, pkt, sdes, lwltimer, published>>
        /\ rel[who].at = "arm" /\ Active(who) /\ rel[who].td = now
        /\ alarm' = Ularm(TimerStep(now)) /\ rel' = [rel EXCEPT ![who] = Outside]
        /\ pc' = pc \/ pc' = "select"
    BY <1>13 DEF Rearm, Runs, lwlVars, PromptInv
  <2>2. \A w \in Caller : /\ Active(w)' => rel'[w].td = now
                          /\ rel'[w].at # "arm"
    <3>1. \A w \in Caller : rel'[w] = IF w = who THEN Outside ELSE rel[w]
      BY <1>a, <2>1
    <3> QED BY <1>b, <2>1, <3>1 DEF Active, Outside, PromptInv
  <2>3. /\ \A h \in DOMAIN conn : now < conn[h].timeout + HostTimeout
        /\ sdes => now < lwltimer
    BY <2>1 DEF PromptInv
  <2>4. AlarmInTime'
    <3>1. CASE queue # <<>>
      <4>1. ~Due(queue[1], now) /\ queue[1].when <= now + EchoTime
        BY <2>1, <3>1, Numbers DEF ReleaseInv, TimeInv
      <4> DEFINE w == queue[1].when
      <4>a. /\ w \in Nat /\ now \in Nat /\ Latency \in Nat /\ Epsilon \in Nat /\ Latency < Epsilon
            /\ EchoTime \in Nat /\ Idle \in Nat /\ HostTimeout \in Nat /\ HostTimeout <= Idle
            /\ TockTock \in Nat
        BY <3>1, Times, Numbers
      <4>b. TimerStep(now) = (w - now) - Latency /\ ~(w - now < Epsilon) /\ w <= now + EchoTime
        BY <3>1, <4>1 DEF Due, TimerStep
      <4>c. PutOff' = EchoTime
        BY <2>1, <3>1 DEF PutOff
      <4> HIDE DEF w
      <4>2. TimerStep(now) > 0
        BY <4>a, <4>b
      <4>3. alarm' = w - Latency
        BY <2>1, <4>2, <4>a, <4>b DEF Ularm
      <4>d. now <= alarm' /\ alarm' <= now + EchoTime /\ alarm' <= w
        BY <4>3, <4>a, <4>b
      <4>4. /\ now <= alarm' /\ alarm' <= now + EchoTime /\ alarm' <= queue[1].when
            /\ PutOff' = EchoTime
        BY <4>c, <4>d DEF w
      <4>5. \A h \in DOMAIN conn : alarm' < conn[h].timeout + Idle + EchoTime
        BY <2>3, <4>3, <4>d, <4>a, Numbers
      <4>6. sdes => alarm' < lwltimer + TockTock + EchoTime
        BY <2>3, <4>3, <4>d, <4>a, Numbers
      <4> QED BY <2>1, <4>4, <4>5, <4>6 DEF AlarmInTime
    <3>2. CASE queue = <<>>
      <4>1. /\ PutOff' = 0 /\ now <= alarm' /\ alarm' <= now + TockTock
            /\ DOMAIN conn # {} => alarm' = now + TickTock
        BY <2>1, <3>2, Times, Numbers DEF TimerStep, Ularm, PutOff
      <4>2. \A h \in DOMAIN conn : alarm' < conn[h].timeout + Idle + 0
        BY <2>3, <4>1, Times, Numbers
      <4>3. alarm' \in Int
        BY Numbers, <2>1, <3>2, Times DEF TimerStep, Ularm, Off
      <4>4. sdes => alarm' < lwltimer + TockTock + 0
        BY <2>3, <4>1, <4>3, Times, Numbers
      <4> QED BY <2>1, <3>2, <4>1, <4>2, <4>4 DEF AlarmInTime
    <3> QED BY <3>1, <3>2
  <2>5. pc' \in Serving => pkt'.when = now + EchoTime
    BY <2>1 DEF PromptInv, Serving
  <2>6. SweptInTime'
    BY <2>1 DEF PromptInv, SweptInTime
  <2> QED BY <2>1, <2>2, <2>4, <2>5, <2>6 DEF PromptInv
<1>14. CASE Tick
  <2>1. /\ pc = "select" /\ ~(alarm # Off /\ alarm <= now) /\ now' = now + 1
        /\ \A who \in Caller : ~Active(who)
        /\ UNCHANGED <<alarm, crit, clash, conn, queue, pc, pkt, rel, sdes, lwltimer, published>>
    BY <1>14 DEF Tick, lwlVars
  <2>2. ~Busy /\ AlarmInTime /\ PutOff' = PutOff
    BY <2>1 DEF Busy, PromptInv, PutOff
  <2>3. now' <= alarm /\ alarm \in Nat
    BY <2>1, <2>2, Numbers DEF AlarmInTime, Off
  <2>4. \A i \in DOMAIN queue : now' <= queue[i].when
    <3> SUFFICES ASSUME NEW i \in DOMAIN queue PROVE now' <= queue[i].when
      OBVIOUS
    <3>1. queue # <<>> /\ 1 \in DOMAIN queue /\ (i = 1 \/ 1 < i)
      BY Numbers
    <3>2. queue[1].when <= queue[i].when
      BY <3>1, Numbers DEF TimeInv, QueueOrdered
    <3> QED BY <2>1, <2>2, <2>3, <3>1, <3>2, Numbers DEF AlarmInTime
  <2>5. SweptInTime'
    BY <2>1, <2>2, <2>3, Times, Numbers DEF AlarmInTime, SweptInTime
  <2>6. sdes => now' < lwltimer + TockTock + EchoTime
    BY <2>1, <2>2, <2>3, Times, Numbers DEF AlarmInTime
  <2>7. AlarmInTime'
    BY <2>1, <2>2, <2>3, Times, Numbers DEF AlarmInTime
  <2>8. \A who \in Caller : ~Active(who)' /\ rel'[who].at # "arm"
    BY <2>1 DEF Active
  <2> QED BY <2>1, <2>4, <2>5, <2>6, <2>7, <2>8 DEF PromptInv, Serving
<1>15. CASE UNCHANGED vars
  <2>1. /\ UNCHANGED <<now, alarm, clash, conn, queue, pc, pkt, rel, sdes, lwltimer, published>>
    BY <1>15 DEF vars
  <2>2. (Busy' <=> Busy) /\ (pc' \in Serving => pkt'.when = now + EchoTime)
    BY <2>1 DEF Busy, Active, PromptInv
  <2> QED BY <1>c, <2>1, <2>2, PromptKept
<1> QED
  BY <1>1, <1>2, <1>3, <1>4, <1>5, <1>6, <1>7, <1>8, <1>9, <1>10, <1>11,
     <1>12, <1>13, <1>14, <1>15 DEF Next, MainLoop, Release

(* A server that keeps up with the clock sends every packet back before    *)
(* its time is past, forgets an idle host within a timer period and the    *)
(* EchoTime a packet may put it off by, and refreshes its LWL entry as     *)
(* soon, however signals fall into the critical section (echo.c 323-515,   *)
(* 940-975).                                                               *)
THEOREM OnTimeAlways == ASSUME Prompt, ~Reentrant PROVE Spec => []OnTime
<1>1. TypeOK /\ TypeOK' /\ EchoInv /\ PromptInv /\ [Next]_vars => PromptInv'
  BY PromptStep DEF EchoInv
<1>2. TypeOK /\ PromptInv => OnTime
  <2> SUFFICES ASSUME TypeOK, PromptInv PROVE OnTime
    OBVIOUS
  <2>1. Timely /\ SweptInTime
    BY DEF PromptInv, Timely
  <2>2. ListingFresh
    BY Times, Numbers DEF PromptInv, ListingFresh
  <2> QED BY <2>1, <2>2 DEF OnTime
<1> QED BY <1>1, <1>2, PromptInit, TypeCorrect, EchoSafe, PTL DEF Spec
=============================================================================
