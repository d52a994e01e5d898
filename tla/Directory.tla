------------------------------ MODULE Directory ------------------------------
(***************************************************************************)
(* What a Look Who's Listening server promises its users: a directory, a   *)
(* set of entries with at most one for a name.  An announcement makes or   *)
(* replaces the entry of its name, a farewell takes one out, and entries   *)
(* of which nothing was heard for longer than Patience are dropped.  A     *)
(* server that stops forgets everything.                                   *)
(***************************************************************************)
EXTENDS Naturals

CONSTANTS Server, Name, Source, Patience

VARIABLES
    now,        \* the time
    listing     \* server |-> its entries [name, ssrc, ltime]

vars == <<now, listing>>

Init == now = 0 /\ listing = [s \in Server |-> {}]

(* The step of one server. *)
Becomes(s, entries) == listing' = [listing EXCEPT ![s] = entries]

Hear(s) ==
    \E n \in Name, x \in Source :
      Becomes(s, {e \in listing[s] : e.name # n}
                   \cup {[name |-> n, ssrc |-> x, ltime |-> now]})

Leave(s) == \E e \in listing[s] : Becomes(s, listing[s] \ {e})

(* All the entries that are too old go at once. *)
Expire(s) == Becomes(s, {e \in listing[s] : now - e.ltime <= Patience})

Forget(s) == Becomes(s, {})

Tick == now' = now + 1 /\ UNCHANGED listing

Next == \/ Tick
        \/ UNCHANGED now /\ \E s \in Server : \/ Hear(s)
                                              \/ Leave(s)
                                              \/ Expire(s)
                                              \/ Forget(s)

Spec == Init /\ [][Next]_vars
=============================================================================
