------------------------------ MODULE DelayLine ------------------------------
(***************************************************************************)
(* What the echo server promises: a delay line.  Datagrams enter in the    *)
(* order they were received and leave in that order, each no sooner than   *)
(* Slack before it has been held for EchoTime; a host that says goodbye    *)
(* takes everything it still has in the line with it.  Nothing else leaves *)
(* the line and nothing leaves it twice.                                   *)
(***************************************************************************)
EXTENDS Integers, Sequences

CONSTANTS Host, EchoTime, Slack, MaxPackets

VARIABLES
    now,     \* the clock
    line,    \* the packets held: [id, host, due]
    echoed   \* the packets returned, in order

vars == <<now, line, echoed>>

(* What may be put in the line now: received at this moment or earlier. *)
Incoming == [id: 1..MaxPackets, host: Host, due: 0..(now + EchoTime)]

Init == now = 0 /\ line = {} /\ echoed = <<>>

(* A packet newer than any seen before enters. *)
Accept(p) ==
    /\ \A q \in line : q.id < p.id
    /\ \A i \in DOMAIN echoed : echoed[i].id < p.id
    /\ line' = line \cup {p}
    /\ UNCHANGED <<now, echoed>>

(* The oldest packet leaves, when its time has come. *)
Emit(p) ==
    /\ p.due < now + Slack
    /\ \A q \in line : p.id <= q.id
    /\ line' = line \ {p}
    /\ echoed' = Append(echoed, [id |-> p.id, host |-> p.host])
    /\ UNCHANGED now

Silence(h) ==
    /\ line' = {p \in line : p.host # h}
    /\ UNCHANGED <<now, echoed>>

Tick ==
    /\ now' = now + 1
    /\ UNCHANGED <<line, echoed>>

Next == \/ \E p \in Incoming : Accept(p)
        \/ \E p \in line : Emit(p)
        \/ \E h \in Host : Silence(h)
        \/ Tick

Spec == Init /\ [][Next]_vars
=============================================================================
