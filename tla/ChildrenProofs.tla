--------------------------- MODULE ChildrenProofs ---------------------------
(***************************************************************************)
(* Theorems about the two programs that start others and wait for them:    *)
(* sflaunch, for any number of connections, whose knowledge of its         *)
(* children is exact, so that no signal goes astray and no child outlives  *)
(* it; and sfvod, for any hosts, processes and -t, whose tables are exact  *)
(* until the first of the mishaps, so that every host is played to by the  *)
(* sfmike that the tables say.                                             *)
(***************************************************************************)
EXTENDS Launcher, VoiceOnDemand, ChainsProofs, FiniteSetTheorems


Inv == TypeOK /\ KeptInv

LEMMA ChildFacts ==
    /\ NoPid \notin Children
    /\ Speaker \in Children /\ Speaker \notin Mikes
    /\ Mikes \subseteq Children
    /\ Speaker # NoPid
BY LauncherAssumption DEF NoPid, Children, Speaker, Mikes

(* Hup changes nobody's state but that of the child signalled, and a child   *)
(* that was outstanding stays so.                                            *)
LEMMA HupFacts ==
    ASSUME NEW c \in [Children -> {"none", "running", "hup", "zombie", "reaped"}],
           NEW p
    PROVE  /\ Hup(c, p) \in [Children -> {"none", "running", "hup", "zombie", "reaped"}]
           /\ \A q \in Children :
                /\ Hup(c, p)[q] \in {"running", "hup", "zombie"}
                     <=> c[q] \in {"running", "hup", "zombie"}
                /\ Hup(c, p)[q] = "none" <=> c[q] = "none"
BY DEF Hup

LEMMA InitInv == Init => Inv
<1> SUFFICES ASSUME Init PROVE Inv
  OBVIOUS
<1>1. TypeOK
  <2>1. 0 \in 0..MaxConnections
    BY LauncherAssumption
  <2>2. child \in [Children -> {"none", "running", "hup", "zombie", "reaped"}]
    BY DEF Init
  <2> QED BY <2>1, <2>2 DEF Init, TypeOK
<1>2. Held = {} /\ \A p \in Children : ~Outstanding(p)
  BY DEF Init, Held, Outstanding
<1>3. KeptInv
  BY <1>2, ChildFacts DEF Init, KeptInv
<1> QED BY <1>1, <1>3 DEF Inv

(* wait() returns sfmike p, which the launcher had noted: it forgets p, and  *)
(* the speaker it may signal is outstanding.                                 *)
LEMMA MikeGoneInv ==
    ASSUME Inv, pc = "wait", NEW p \in Children, child[p] = "zombie",
           p = cpmike, MikeGone(p), UNCHANGED <<oneconnect, named, started>>
    PROVE  Inv'
<1> USE ChildFacts
<1> DEFINE reaped == [child EXCEPT ![p] = "reaped"]
<1>1. /\ reaped \in [Children -> {"none", "running", "hup", "zombie", "reaped"}]
      /\ cpmike' = NoPid /\ cpspeaker' = cpspeaker
      /\ cpspeaker # p /\ cpmike \in Mikes
      /\ \A q \in Children : q # p => reaped[q] = child[q]
      /\ reaped[p] = "reaped"
  BY DEF Inv, TypeOK, MikeGone
<1>2. /\ pc' \in {"prompt", "wait"}
      /\ child' = reaped \/ child' = Hup(reaped, cpspeaker)
  BY DEF MikeGone
<1>3. /\ child' \in [Children -> {"none", "running", "hup", "zombie", "reaped"}]
      /\ \A q \in Children : Outstanding(q)' <=> reaped[q] \in {"running", "hup", "zombie"}
      /\ \A q \in Children : child'[q] = "none" <=> reaped[q] = "none"
  <2>1. CASE child' = reaped
    BY <1>1, <2>1 DEF Outstanding
  <2>2. CASE child' = Hup(reaped, cpspeaker)
    <3> HIDE DEF reaped
    <3>1. /\ Hup(reaped, cpspeaker) \in [Children -> {"none", "running", "hup", "zombie", "reaped"}]
          /\ \A q \in Children :
               /\ Hup(reaped, cpspeaker)[q] \in {"running", "hup", "zombie"}
                    <=> reaped[q] \in {"running", "hup", "zombie"}
               /\ Hup(reaped, cpspeaker)[q] = "none" <=> reaped[q] = "none"
      BY <1>1, HupFacts
    <3> QED BY <2>2, <3>1 DEF Outstanding
  <2> QED BY <1>2, <2>1, <2>2
<1>4. cpspeaker # NoPid => cpspeaker \in Children /\ Outstanding(cpspeaker)
  BY DEF Inv, KeptInv, Held
<1>5. cpspeaker # NoPid => ~IsStray(reaped, cpspeaker)
  BY <1>1, <1>4 DEF IsStray, Outstanding
<1>6. stray' = FALSE
  BY <1>5 DEF MikeGone, Inv, KeptInv
<1>7. TypeOK'
  BY <1>1, <1>2, <1>3, <1>6 DEF Inv, TypeOK
<1>8. KeptInv'
  <2>1. Held' = {q \in Children : Outstanding(q)'}
    <3>1. {cpspeaker, cpmike} \ {NoPid} = {q \in Children : Outstanding(q)}
      BY DEF Inv, KeptInv, Held
    <3>2. ASSUME NEW q PROVE q \in Held' <=> q \in Children /\ Outstanding(q)'
      BY <1>1, <1>3, <3>1 DEF Held, Outstanding
    <3> QED BY <3>2
  <2>2. \A q \in Children : q > started' => child'[q] = "none"
    BY <1>1, <1>3 DEF Inv, KeptInv
  <2> QED BY <1>1, <1>2, <1>6, <2>1, <2>2 DEF KeptInv
<1> QED BY <1>7, <1>8 DEF Inv

(* wait() returns any other child, which can only be sfspeaker. *)
LEMMA SpeakerGoneInv ==
    ASSUME Inv, pc = "wait", NEW p \in Children, child[p] = "zombie",
           p # cpmike, SpeakerGone(p), UNCHANGED <<oneconnect, named, started>>
    PROVE  Inv'
<1> USE ChildFacts
<1> DEFINE reaped == [child EXCEPT ![p] = "reaped"]
<1>0. p = cpspeaker
  BY DEF Inv, KeptInv, Held, Outstanding
<1>1. /\ reaped \in [Children -> {"none", "running", "hup", "zombie", "reaped"}]
      /\ cpspeaker' = NoPid /\ cpmike' = cpmike /\ pc' = "wait"
      /\ \A q \in Children : q # p => reaped[q] = child[q]
      /\ reaped[p] = "reaped"
  BY DEF Inv, TypeOK, SpeakerGone
<1>2. child' = reaped \/ child' = Hup(reaped, cpmike)
  BY DEF SpeakerGone
<1>3. /\ child' \in [Children -> {"none", "running", "hup", "zombie", "reaped"}]
      /\ \A q \in Children : Outstanding(q)' <=> reaped[q] \in {"running", "hup", "zombie"}
      /\ \A q \in Children : child'[q] = "none" <=> reaped[q] = "none"
  <2>1. CASE child' = reaped
    BY <1>1, <2>1 DEF Outstanding
  <2>2. CASE child' = Hup(reaped, cpmike)
    <3> HIDE DEF reaped
    <3>1. /\ Hup(reaped, cpmike) \in [Children -> {"none", "running", "hup", "zombie", "reaped"}]
          /\ \A q \in Children :
               /\ Hup(reaped, cpmike)[q] \in {"running", "hup", "zombie"}
                    <=> reaped[q] \in {"running", "hup", "zombie"}
               /\ Hup(reaped, cpmike)[q] = "none" <=> reaped[q] = "none"
      BY <1>1, HupFacts
    <3> QED BY <2>2, <3>1 DEF Outstanding
  <2> QED BY <1>2, <2>1, <2>2
<1>4. cpmike # NoPid => cpmike \in Children /\ Outstanding(cpmike)
  BY DEF Inv, KeptInv, Held
<1>5. cpmike # NoPid => ~IsStray(reaped, cpmike)
  BY <1>1, <1>4 DEF IsStray, Outstanding
<1>6. stray' = FALSE
  BY <1>5 DEF SpeakerGone, Inv, KeptInv
<1>7. TypeOK'
  BY <1>1, <1>3, <1>6 DEF Inv, TypeOK
<1>8. KeptInv'
  <2>1. Held' = {q \in Children : Outstanding(q)'}
    <3>1. {cpspeaker, cpmike} \ {NoPid} = {q \in Children : Outstanding(q)}
      BY DEF Inv, KeptInv, Held
    <3>2. ASSUME NEW q PROVE q \in Held' <=> q \in Children /\ Outstanding(q)'
      BY <1>0, <1>1, <1>3, <3>1 DEF Held, Outstanding
    <3> QED BY <3>2
  <2>2. \A q \in Children : q > started' => child'[q] = "none"
    BY <1>1, <1>3 DEF Inv, KeptInv
  <2> QED BY <1>1, <1>6, <2>1, <2>2 DEF KeptInv
<1> QED BY <1>7, <1>8 DEF Inv

LEMMA NextInv == Inv /\ [Next]_vars => Inv'
<1> SUFFICES ASSUME Inv, [Next]_vars PROVE Inv'
  OBVIOUS
<1> USE ChildFacts
<1> DEFINE State == {"none", "running", "hup", "zombie", "reaped"}
<1>f. /\ child \in [Children -> State]
      /\ Held = {p \in Children : Outstanding(p)}
  BY DEF Inv, TypeOK, KeptInv
<1>1. CASE ForkSpeaker
  <2>1. /\ child' = [child EXCEPT ![Speaker] = "running"] /\ cpspeaker' = Speaker
        /\ pc' \in {"mike", "prompt"} /\ cpmike' = cpmike /\ cpmike = NoPid
        /\ started' = started /\ stray' = stray
    BY <1>1 DEF ForkSpeaker, Inv, KeptInv
  <2>2. TypeOK'
    BY <1>1, <2>1 DEF ForkSpeaker, Inv, TypeOK
  <2>3. Held' = {p \in Children : Outstanding(p)'}
    <3>1. \A p \in Children : p # Speaker => ~Outstanding(p)
      BY <1>1, <1>f, <2>1 DEF ForkSpeaker, Inv, TypeOK, Held
    <3>2. ASSUME NEW p PROVE p \in Held' <=> p \in Children /\ Outstanding(p)'
      BY <1>f, <2>1, <3>1 DEF Held, Outstanding
    <3> QED BY <3>2
  <2>4. \A p \in Children : p > started' => child'[p] = "none"
    <3>1. ~(Speaker > started)
      BY DEF Inv, TypeOK, Speaker
    <3> QED BY <1>f, <2>1, <3>1 DEF Inv, KeptInv
  <2> QED BY <2>1, <2>2, <2>3, <2>4 DEF Inv, KeptInv
<1>2. CASE StartMike
  <2>1. /\ started + 1 \in Mikes /\ started' = started + 1 /\ cpmike' = started + 1
        /\ child' = [child EXCEPT ![started + 1] = "running"]
        /\ cpspeaker' = cpspeaker /\ cpmike = NoPid /\ pc' = "wait" /\ stray' = stray
    BY <1>2, LauncherAssumption DEF StartMike, Inv, TypeOK, KeptInv, Mikes
  <2>2. TypeOK'
    BY <1>2, <2>1 DEF StartMike, Inv, TypeOK, Mikes
  <2>3. Held' = {p \in Children : Outstanding(p)'}
    <3>1. ASSUME NEW p PROVE p \in Held' <=> p \in Children /\ Outstanding(p)'
      BY <1>2, <1>f, <2>1 DEF StartMike, Held, Outstanding
    <3> QED BY <3>1
  <2>4. \A p \in Children : p > started' => child'[p] = "none"
    <3>1. \A p \in Children : p \in Int /\ started \in Int
      BY LauncherAssumption DEF Inv, TypeOK, Children, Mikes, Speaker
    <3> QED BY <1>f, <2>1, <3>1 DEF Inv, KeptInv
  <2> QED BY <2>1, <2>2, <2>3, <2>4 DEF Inv, KeptInv
<1>3. CASE Answer
  BY <1>3 DEF Answer, Inv, TypeOK, KeptInv, Held, Outstanding
<1>4. CASE Decline
  <2>1. /\ child' = child \/ child' = Hup(child, cpspeaker)
        /\ pc' = "wait" /\ UNCHANGED <<cpspeaker, cpmike, started, oneconnect, named>>
    BY <1>4 DEF Decline
  <2>2. /\ child' \in [Children -> State]
        /\ \A p \in Children : Outstanding(p)' <=> Outstanding(p)
        /\ \A p \in Children : child'[p] = "none" <=> child[p] = "none"
    <3>1. CASE child' = child
      BY <1>f, <3>1 DEF Outstanding
    <3>2. CASE child' = Hup(child, cpspeaker)
      BY <1>f, <3>2, HupFacts DEF Outstanding
    <3> QED BY <2>1, <3>1, <3>2
  <2>3. cpspeaker # NoPid => ~IsStray(child, cpspeaker)
    <3>1. cpspeaker # NoPid => Outstanding(cpspeaker)
      BY <1>4, <1>f DEF Decline, Held
    <3> QED BY <3>1 DEF IsStray, Outstanding
  <2>4. stray' = FALSE
    BY <1>4, <2>3 DEF Decline, Inv, KeptInv
  <2>5. TypeOK'
    BY <2>1, <2>2, <2>4 DEF Inv, TypeOK
  <2>6. Held' = {p \in Children : Outstanding(p)'}
    BY <1>4, <1>f, <2>1, <2>2 DEF Decline, Held
  <2>7. \A p \in Children : p > started' => child'[p] = "none"
    BY <2>1, <2>2 DEF Inv, KeptInv
  <2> QED BY <2>1, <2>4, <2>5, <2>6, <2>7 DEF Inv, KeptInv
<1>5. CASE Wait
  BY <1>5, MikeGoneInv, SpeakerGoneInv DEF Wait
<1>6. CASE Finish
  BY <1>6 DEF Finish, Inv, TypeOK, KeptInv, Held, Outstanding
<1>7. CASE ForkFails
  <2>1. TypeOK'
    BY <1>7 DEF ForkFails, Inv, TypeOK
  <2>2. KeptInv'
    <3>1. Held' = Held /\ \A p \in Children : Outstanding(p)' <=> Outstanding(p)
      BY <1>7 DEF ForkFails, Held, Outstanding
    <3> QED BY <1>7, <3>1 DEF ForkFails, Inv, KeptInv
  <2> QED BY <2>1, <2>2 DEF Inv
<1>8. ASSUME NEW p \in Children, Exit(p) \/ HupExit(p) PROVE Inv'
  <2>1. /\ child[p] \in {"running", "hup"}
        /\ child' = [child EXCEPT ![p] = "zombie"]
        /\ UNCHANGED <<pc, oneconnect, named, cpspeaker, cpmike, started, stray>>
    BY <1>8 DEF Exit, HupExit
  <2>2. /\ child' \in [Children -> State]
        /\ \A q \in Children : Outstanding(q)' <=> Outstanding(q)
        /\ \A q \in Children : child'[q] = "none" <=> child[q] = "none"
    BY <1>f, <2>1 DEF Outstanding
  <2>3. TypeOK'
    BY <2>1, <2>2 DEF Inv, TypeOK
  <2>4. KeptInv'
    BY <2>1, <2>2 DEF Inv, KeptInv, Held
  <2> QED BY <2>3, <2>4 DEF Inv
<1>9. CASE UNCHANGED vars
  BY <1>9 DEF vars, Inv, TypeOK, KeptInv, Held, Outstanding
<1> QED
  BY <1>1, <1>2, <1>3, <1>4, <1>5, <1>6, <1>7, <1>8, <1>9 DEF Next, Launch, Ended

LEMMA Invariance == Spec => []Inv
BY InitInv, NextInv, PTL DEF Spec

(* The variables keep their types. *)
THEOREM TypeCorrect == Spec => []TypeOK
BY Invariance, PTL DEF Inv

(* A SIGHUP only ever goes to a child that the launcher has not waited for:  *)
(* never to a recycled process number, never to kill(-1)'s every process.    *)
THEOREM SignalsOwn == Spec => []NoStrayKill
<1>1. Inv => NoStrayKill
  BY DEF Inv, KeptInv, NoStrayKill
<1> QED BY <1>1, Invariance, PTL

(* When the launcher ends normally no child runs and none is a zombie. *)
THEOREM LeavesNone == Spec => []NoOrphan
<1>1. Inv => NoOrphan
  <2> SUFFICES ASSUME Inv, pc = "done", NEW p \in Children
               PROVE  child[p] \in {"none", "reaped"}
    BY DEF NoOrphan
  <2>1. ~Outstanding(p)
    BY DEF Inv, KeptInv, Held
  <2> QED BY <2>1 DEF Outstanding, Inv, TypeOK
<1> QED BY <1>1, Invariance, PTL

(* At no time do two sfmikes run. *)
THEOREM OneAtATime == Spec => []OneMike
<1>1. Inv => OneMike
  <2> SUFFICES ASSUME Inv, NEW p \in Mikes, NEW q \in Mikes, Alive(p), Alive(q)
               PROVE  p = q
    BY DEF OneMike
  <2>1. p \in Held /\ q \in Held
    BY ChildFacts DEF Inv, KeptInv, Alive, Outstanding
  <2> QED BY <2>1, ChildFacts DEF Inv, TypeOK, Held
<1> QED BY <1>1, Invariance, PTL
-----------------------------------------------------------------------------
(* sfvod.  Its tables are functions; assignment and delete keep them so.   *)
Tabled(K, V) == UNION {[S -> V] : S \in SUBSET K}
Tables == [children : Tabled(Pid \cup {Undef}, Host),
           timer : Tabled(Pid \cup {Undef}, Nat),
           hosts : Tabled(Host, Pid \cup {Undef})]

LEMMA TabledIs ==
  ASSUME NEW K, NEW V, NEW f
  PROVE  f \in Tabled(K, V) <=>
           DOMAIN f \subseteq K /\ f = [x \in DOMAIN f |-> f[x]]
             /\ \A x \in DOMAIN f : f[x] \in V
<1>1. ASSUME f \in Tabled(K, V)
      PROVE  DOMAIN f \subseteq K /\ f = [x \in DOMAIN f |-> f[x]]
               /\ \A x \in DOMAIN f : f[x] \in V
  <2>1. PICK S \in SUBSET K : f \in [S -> V]
    BY <1>1 DEF Tabled
  <2>2. QED
    BY <2>1
<1>2. ASSUME DOMAIN f \subseteq K, f = [x \in DOMAIN f |-> f[x]],
             \A x \in DOMAIN f : f[x] \in V
      PROVE  f \in Tabled(K, V)
  <2>1. f \in [DOMAIN f -> V]
    BY <1>2
  <2>2. QED
    BY <1>2, <2>1 DEF Tabled
<1>3. QED
  BY <1>1, <1>2

LEMMA AssignedIs ==
  ASSUME NEW K, NEW V, NEW f \in Tabled(K, V), NEW x \in K, NEW y \in V
  PROVE  /\ Assigned(f, x, y) \in Tabled(K, V)
         /\ DOMAIN Assigned(f, x, y) = DOMAIN f \cup {x}
         /\ Assigned(f, x, y)[x] = y
         /\ \A k \in DOMAIN f : k # x => Assigned(f, x, y)[k] = f[k]
<1> DEFINE g == Assigned(f, x, y)
<1>1. /\ DOMAIN f \subseteq K
      /\ \A k \in DOMAIN f : f[k] \in V
  BY TabledIs
<1>2. /\ DOMAIN g = DOMAIN f \cup {x} /\ g = [k \in DOMAIN g |-> g[k]]
      /\ g[x] = y /\ \A k \in DOMAIN f : k # x => g[k] = f[k]
  BY DEF Assigned
<1> HIDE DEF g
<1>3. \A k \in DOMAIN g : g[k] \in V
  BY <1>1, <1>2
<1>4. g \in Tabled(K, V)
  BY <1>1, <1>2, <1>3, TabledIs
<1>5. QED
  BY <1>2, <1>4 DEF g

LEMMA DeletedIs ==
  ASSUME NEW K, NEW V, NEW f \in Tabled(K, V), NEW x
  PROVE  /\ Deleted(f, x) \in Tabled(K, V)
         /\ DOMAIN Deleted(f, x) = DOMAIN f \ {x}
         /\ \A k \in DOMAIN f : k # x => Deleted(f, x)[k] = f[k]
<1> DEFINE g == Deleted(f, x)
<1>1. /\ DOMAIN f \subseteq K
      /\ \A k \in DOMAIN f : f[k] \in V
  BY TabledIs
<1>2. /\ DOMAIN g = DOMAIN f \ {x} /\ g = [k \in DOMAIN g |-> g[k]]
      /\ \A k \in DOMAIN f : k # x => g[k] = f[k]
  BY DEF Deleted, Restrict
<1> HIDE DEF g
<1>3. \A k \in DOMAIN g : g[k] \in V
  BY <1>1, <1>2
<1>4. g \in Tabled(K, V)
  BY <1>1, <1>2, <1>3, TabledIs
<1>5. QED
  BY <1>2, <1>4 DEF g

(* closeout() and the ageing of the timers leave the tables what they are. *)
LEMMA CloseoutTables ==
  ASSUME NEW t \in Tables, NEW h
  PROVE  /\ Closeout(t, h) \in Tables
         /\ DOMAIN Closeout(t, h).hosts = DOMAIN t.hosts \ {h}
         /\ DOMAIN t.children \subseteq DOMAIN t.timer =>
              DOMAIN Closeout(t, h).children \subseteq DOMAIN Closeout(t, h).timer
<1> DEFINE ch == IF h \in DOMAIN t.hosts THEN t.hosts[h] ELSE Undef
           u == Closeout(t, h)
<1>1. /\ t.children \in Tabled(Pid \cup {Undef}, Host)
      /\ t.timer \in Tabled(Pid \cup {Undef}, Nat)
      /\ t.hosts \in Tabled(Host, Pid \cup {Undef})
  BY DEF Tables
<1>2. u = [children |-> Deleted(t.children, ch), timer |-> Deleted(t.timer, ch),
           hosts |-> Deleted(t.hosts, h)]
  BY DEF Closeout
<1> HIDE DEF ch, u
<1>3. u \in Tables
  BY <1>1, <1>2, DeletedIs DEF Tables
<1>4. /\ DOMAIN u.hosts = DOMAIN t.hosts \ {h}
      /\ DOMAIN u.children = DOMAIN t.children \ {ch}
      /\ DOMAIN u.timer = DOMAIN t.timer \ {ch}
  <2>1. DOMAIN Deleted(t.hosts, h) = DOMAIN t.hosts \ {h}
    BY DEF Deleted, Restrict
  <2>2. DOMAIN Deleted(t.children, ch) = DOMAIN t.children \ {ch}
    BY DEF Deleted, Restrict
  <2>3. DOMAIN Deleted(t.timer, ch) = DOMAIN t.timer \ {ch}
    BY DEF Deleted, Restrict
  <2>4. QED
    BY <1>2, <2>1, <2>2, <2>3
<1>5. QED
  BY <1>3, <1>4 DEF u

LEMMA AgedTables ==
  ASSUME NEW t \in Tables
  PROVE  /\ Aged(t) \in Tables
         /\ Aged(t).children = t.children /\ Aged(t).hosts = t.hosts
         /\ DOMAIN Aged(t).timer = DOMAIN t.timer
         /\ \A p \in DOMAIN t.timer : Aged(t).timer[p] = 0 <=> t.timer[p] = 0
<1> DEFINE a == [p \in DOMAIN t.timer |->
                   IF p \in DOMAIN t.children /\ t.timer[p] # 0
                   THEN t.timer[p] + 1 ELSE t.timer[p]]
<1>1. t.timer \in Tabled(Pid \cup {Undef}, Nat)
  BY DEF Tables
<1>2. DOMAIN t.timer \subseteq Pid \cup {Undef} /\ \A p \in DOMAIN t.timer : t.timer[p] \in Nat
  BY <1>1, TabledIs
<1>3. /\ DOMAIN a = DOMAIN t.timer /\ a = [p \in DOMAIN a |-> a[p]]
      /\ \A p \in DOMAIN t.timer : a[p] \in Nat /\ (a[p] = 0 <=> t.timer[p] = 0)
  BY <1>2
<1>4. Aged(t) = [t EXCEPT !.timer = a]
  BY DEF Aged
<1> HIDE DEF a
<1>5. a \in Tabled(Pid \cup {Undef}, Nat)
  BY <1>2, <1>3, TabledIs
<1>6. QED
  BY <1>3, <1>4, <1>5 DEF Tables

(* What every check of one child keeps, the scan of all of them keeps.     *)
CheckStep(t, order, g, k) == IF k = 0 THEN t ELSE Checked(g[k - 1], order[k])

LEMMA ScanExists ==
  ASSUME NEW t, NEW order
  PROVE  \A n \in Nat : \E g : g = [k \in 0..n |-> CheckStep(t, order, g, k)]
<1> DEFINE Good == {n \in Nat : \E g : g = [k \in 0..n |-> CheckStep(t, order, g, k)]}
<1>1. 0 \in Good
  <2> DEFINE g == [k \in 0..0 |-> t]
  <2>1. g = [k \in 0..0 |-> CheckStep(t, order, g, k)]
    BY DEF CheckStep
  <2>2. QED
    BY <2>1
<1>2. ASSUME NEW n \in Nat, n \in Good PROVE n + 1 \in Good
  <2>1. PICK g : g = [k \in 0..n |-> CheckStep(t, order, g, k)]
    BY <1>2
  <2> DEFINE h == [k \in 0..n + 1 |-> IF k = n + 1 THEN CheckStep(t, order, g, k) ELSE g[k]]
  <2>2. ASSUME NEW k \in 0..n + 1 PROVE h[k] = CheckStep(t, order, h, k)
    <3>1. CASE k = n + 1
      <4>1. k # 0 /\ h[k - 1] = g[k - 1] /\ h[k] = CheckStep(t, order, g, k)
        BY <3>1
      <4> HIDE DEF h
      <4>2. QED
        BY <4>1 DEF CheckStep
    <3>2. CASE k # n + 1
      <4>1. k \in 0..n /\ h[k] = g[k] /\ (k # 0 => h[k - 1] = g[k - 1])
        BY <3>2
      <4>2. g[k] = CheckStep(t, order, g, k)
        BY <2>1, <4>1
      <4> HIDE DEF h
      <4>3. QED
        BY <4>1, <4>2 DEF CheckStep
    <3>3. QED
      BY <3>1, <3>2
  <2>3. h = [k \in 0..n + 1 |-> CheckStep(t, order, h, k)]
    <3>1. h = [k \in 0..n + 1 |-> h[k]]
      OBVIOUS
    <3> HIDE DEF h
    <3>2. QED
      BY <2>2, <3>1
  <2> HIDE DEF h
  <2>4. QED
    BY <2>3
<1> HIDE DEF Good
<1>3. \A n \in Nat : n \in Good
  BY <1>1, <1>2, Induction
<1>4. QED
  BY <1>3 DEF Good

LEMMA ScanKeeps ==
  ASSUME NEW S, IsFiniteSet(S), NEW order \in SetToSeqs(S), NEW Good,
         NEW t \in Good, \A u \in Good, p \in S : Checked(u, p) \in Good
  PROVE  Scanned(t, order) \in Good
<1> DEFINE n == Len(order)
<1>1. n \in Nat /\ \A k \in 1..n : order[k] \in S
  <2>1. Cardinality(S) \in Nat
    BY FS_CardinalityType
  <2>2. order \in [1..Cardinality(S) -> S]
    BY DEF SetToSeqs
  <2>3. order \in Seq(S)
    BY <2>1, <2>2
  <2>4. QED
    BY <2>3
<1> HIDE DEF n
<1>2. PICK g : g = [k \in 0..n |-> CheckStep(t, order, g, k)]
  BY <1>1, ScanExists
<1> DEFINE after == CHOOSE f : f = [k \in 0..n |-> CheckStep(t, order, f, k)]
<1>3. after = [k \in 0..n |-> CheckStep(t, order, after, k)]
  BY <1>2
<1>4. Scanned(t, order) = after[n]
  BY DEF Scanned, CheckStep, n
<1> HIDE DEF after
<1> DEFINE T == {k \in Nat : k <= n => after[k] \in Good}
<1>5. 0 \in T
  BY <1>1, <1>3 DEF CheckStep
<1>6. ASSUME NEW k \in Nat, k \in T PROVE k + 1 \in T
  <2> SUFFICES ASSUME k + 1 <= n PROVE after[k + 1] \in Good
    OBVIOUS
  <2>1. k \in 0..n /\ k + 1 \in 0..n /\ k + 1 # 0 /\ (k + 1) - 1 = k /\ k + 1 \in 1..n
    BY <1>1
  <2>2. after[k + 1] = CheckStep(t, order, after, k + 1)
    BY <1>3, <2>1
  <2>3. after[k + 1] = Checked(after[k], order[k + 1])
    BY <2>1, <2>2 DEF CheckStep
  <2>4. after[k] \in Good
    BY <1>1, <1>6, <2>1
  <2>5. QED
    BY <1>1, <2>1, <2>3, <2>4
<1> HIDE DEF T
<1>7. \A k \in Nat : k \in T
  BY <1>5, <1>6, Induction
<1>8. QED
  BY <1>1, <1>4, <1>7 DEF T

LEMMA FiniteChildren ==
  ASSUME NEW t \in Tables
  PROVE  IsFiniteSet(DOMAIN t.children)
<1>1. DOMAIN t.children \subseteq Pid \cup {Undef}
  BY TabledIs DEF Tables
<1>2. IsFiniteSet(Pid \cup {Undef})
  BY VodAssumption, FS_AddElement
<1>3. QED
  BY <1>1, <1>2, FS_Subset

(* SIGALRM ages the timers and forgets hosts that are away, in any order.  *)
LEMMA TickTables ==
  ASSUME NEW t \in Tables, DOMAIN t.children \subseteq DOMAIN t.timer,
         NEW order \in SetToSeqs(DOMAIN t.children)
  PROVE  LET u == Scanned(Aged(t), order)
         IN  /\ u \in Tables /\ DOMAIN u.children \subseteq DOMAIN u.timer
             /\ DOMAIN u.hosts \subseteq DOMAIN t.hosts
<1> DEFINE Good == {u \in Tables : /\ DOMAIN u.children \subseteq DOMAIN u.timer
                                   /\ DOMAIN u.hosts \subseteq DOMAIN t.hosts}
<1>1. IsFiniteSet(DOMAIN t.children)
  BY FiniteChildren
<1>2. Aged(t) \in Good
  BY AgedTables
<1>3. ASSUME NEW u \in Good, NEW p \in DOMAIN t.children PROVE Checked(u, p) \in Good
  <2>1. \A h : Closeout(u, h) \in Good
    BY CloseoutTables
  <2> HIDE DEF Good
  <2>2. QED
    BY <2>1 DEF Checked
<1> HIDE DEF Good
<1>4. Scanned(Aged(t), order) \in Good
  BY <1>1, <1>2, <1>3, ScanKeeps
<1>5. QED
  BY <1>4 DEF Good

(* Nothing changes where every child plays.                                *)
LEMMA TickIdle ==
  ASSUME NEW t \in Tables, \A p \in DOMAIN t.timer : t.timer[p] = 0,
         NEW order \in SetToSeqs(DOMAIN t.children)
  PROVE  Scanned(Aged(t), order) = t
<1>1. IsFiniteSet(DOMAIN t.children)
  BY FiniteChildren
<1>2. Aged(t) = t
  <2> DEFINE a == [p \in DOMAIN t.timer |->
                     IF p \in DOMAIN t.children /\ t.timer[p] # 0
                     THEN t.timer[p] + 1 ELSE t.timer[p]]
  <2>1. t.timer \in Tabled(Pid \cup {Undef}, Nat)
    BY DEF Tables
  <2>2. t.timer = [p \in DOMAIN t.timer |-> t.timer[p]]
    BY <2>1, TabledIs
  <2>3. a = t.timer
    BY <2>2
  <2>4. Aged(t) = [t EXCEPT !.timer = a]
    BY DEF Aged
  <2> HIDE DEF a
  <2>5. QED
    BY <2>3, <2>4 DEF Tables
<1> DEFINE Good == {t}
<1>3. \A u \in Good, p \in DOMAIN t.children : Checked(u, p) \in Good
  BY DEF Checked, Expired
<1>4. t \in Good
  OBVIOUS
<1> HIDE DEF Good
<1>5. Scanned(t, order) \in Good
  BY <1>1, <1>3, <1>4, ScanKeeps
<1>6. QED
  BY <1>2, <1>5 DEF Good

-----------------------------------------------------------------------------
(* The three tables of recordings say the same.                            *)
Agree(t) ==
    /\ DOMAIN t.children \subseteq Pid /\ DOMAIN t.timer = DOMAIN t.children
    /\ \A p \in DOMAIN t.children :
         t.children[p] \in DOMAIN t.hosts /\ t.hosts[t.children[p]] = p
    /\ \A h \in DOMAIN t.hosts :
         t.hosts[h] \in DOMAIN t.children /\ t.children[t.hosts[h]] = h

LEMMA CloseoutAgrees ==
  ASSUME NEW t \in Tables, Agree(t), NEW h \in DOMAIN t.hosts
  PROVE  LET u == Closeout(t, h)
         IN  /\ Agree(u)
             /\ DOMAIN u.children = DOMAIN t.children \ {t.hosts[h]}
             /\ \A p \in DOMAIN u.children :
                  u.children[p] = t.children[p] /\ u.timer[p] = t.timer[p]
             /\ DOMAIN u.hosts = DOMAIN t.hosts \ {h}
             /\ \A g \in DOMAIN u.hosts : u.hosts[g] = t.hosts[g]
<1> DEFINE ch == t.hosts[h]
           u == Closeout(t, h)
<1>1. u = [children |-> Deleted(t.children, ch), timer |-> Deleted(t.timer, ch),
           hosts |-> Deleted(t.hosts, h)]
  BY DEF Closeout
<1>2. /\ DOMAIN u.children = DOMAIN t.children \ {ch}
      /\ \A p \in DOMAIN u.children : u.children[p] = t.children[p]
  BY <1>1 DEF Deleted, Restrict
<1>3. /\ DOMAIN u.timer = DOMAIN t.timer \ {ch}
      /\ \A p \in DOMAIN u.timer : u.timer[p] = t.timer[p]
  BY <1>1 DEF Deleted, Restrict
<1>4. /\ DOMAIN u.hosts = DOMAIN t.hosts \ {h}
      /\ \A g \in DOMAIN u.hosts : u.hosts[g] = t.hosts[g]
  BY <1>1 DEF Deleted, Restrict
<1>5. ch \in DOMAIN t.children /\ t.children[ch] = h
  BY DEF Agree
<1> HIDE DEF ch, u
<1>6. Agree(u)
  <2>1. ASSUME NEW p \in DOMAIN u.children
        PROVE  u.children[p] \in DOMAIN u.hosts /\ u.hosts[u.children[p]] = p
    <3>1. t.children[p] \in DOMAIN t.hosts /\ t.hosts[t.children[p]] = p /\ p # ch
      BY <1>2 DEF Agree
    <3>2. t.children[p] # h
      BY <3>1 DEF ch
    <3>3. QED
      BY <1>2, <1>4, <3>1, <3>2
  <2>2. ASSUME NEW g \in DOMAIN u.hosts
        PROVE  u.hosts[g] \in DOMAIN u.children /\ u.children[u.hosts[g]] = g
    <3>1. t.hosts[g] \in DOMAIN t.children /\ t.children[t.hosts[g]] = g /\ g # h
      BY <1>4 DEF Agree
    <3>2. t.hosts[g] # ch
      BY <1>5, <3>1
    <3>3. QED
      BY <1>2, <1>4, <3>1, <3>2
  <2>3. DOMAIN u.children \subseteq Pid /\ DOMAIN u.timer = DOMAIN u.children
    BY <1>2, <1>3 DEF Agree
  <2>4. QED
    BY <2>1, <2>2, <2>3 DEF Agree
<1>7. DOMAIN u.timer = DOMAIN u.children
  BY <1>6 DEF Agree
<1>8. QED
  BY <1>2, <1>3, <1>4, <1>6, <1>7 DEF u, ch

(* Who plays stays in the tables, who leaves them leaves all three.        *)
LEMMA TickAgrees ==
  ASSUME NEW t \in Tables, Agree(t), NEW order \in SetToSeqs(DOMAIN t.children)
  PROVE  LET u == Scanned(Aged(t), order)
         IN  /\ Agree(u)
             /\ \A p \in DOMAIN t.children : t.timer[p] = 0 => p \in DOMAIN u.children
             /\ \A p \in DOMAIN u.children :
                  /\ p \in DOMAIN t.children /\ u.children[p] = t.children[p]
                  /\ u.timer[p] = 0 <=> t.timer[p] = 0
             /\ \A h \in DOMAIN u.hosts : h \in DOMAIN t.hosts /\ u.hosts[h] = t.hosts[h]
<1> DEFINE Like(u) ==
             /\ Agree(u)
             /\ \A p \in DOMAIN t.children : t.timer[p] = 0 => p \in DOMAIN u.children
             /\ \A p \in DOMAIN u.children :
                  /\ p \in DOMAIN t.children /\ u.children[p] = t.children[p]
                  /\ u.timer[p] = 0 <=> t.timer[p] = 0
             /\ \A h \in DOMAIN u.hosts : h \in DOMAIN t.hosts /\ u.hosts[h] = t.hosts[h]
           Good == {u \in Tables : Like(u)}
<1>1. IsFiniteSet(DOMAIN t.children)
  BY FiniteChildren
<1>2. Aged(t) \in Good
  <2> DEFINE a == Aged(t)
  <2>1. /\ a \in Tables /\ a.children = t.children /\ a.hosts = t.hosts
        /\ DOMAIN a.timer = DOMAIN t.timer
        /\ \A p \in DOMAIN t.timer : a.timer[p] = 0 <=> t.timer[p] = 0
    BY AgedTables
  <2> HIDE DEF a
  <2>2. QED
    BY <2>1 DEF Agree, a
<1>3. ASSUME NEW u \in Good, NEW p \in DOMAIN t.children PROVE Checked(u, p) \in Good
  <2>1. CASE ~Expired(u, p)
    BY <2>1 DEF Checked
  <2>2. CASE Expired(u, p)
    <3> DEFINE h == u.children[p]
               v == Closeout(u, h)
    <3>1. u \in Tables /\ Like(u)
      OBVIOUS
    <3>2. p \in DOMAIN u.children /\ u.timer[p] # 0
      BY <2>2, <3>1 DEF Expired, Agree
    <3>3. h \in DOMAIN u.hosts /\ u.hosts[h] = p
      BY <3>1, <3>2 DEF Agree
    <3>4. v \in Tables
      BY <3>1, CloseoutTables
    <3>5. /\ Agree(v)
          /\ DOMAIN v.children = DOMAIN u.children \ {p}
          /\ \A q \in DOMAIN v.children :
               v.children[q] = u.children[q] /\ v.timer[q] = u.timer[q]
          /\ DOMAIN v.hosts = DOMAIN u.hosts \ {h}
          /\ \A g \in DOMAIN v.hosts : v.hosts[g] = u.hosts[g]
      BY <3>1, <3>3, CloseoutAgrees
    <3>6. Checked(u, p) = v
      BY <2>2 DEF Checked
    <3> HIDE DEF h, v
    <3>7. \A q \in DOMAIN t.children : t.timer[q] = 0 => q \in DOMAIN v.children
      BY <3>1, <3>2, <3>5
    <3>8. \A q \in DOMAIN v.children :
            /\ q \in DOMAIN t.children /\ v.children[q] = t.children[q]
            /\ v.timer[q] = 0 <=> t.timer[q] = 0
      BY <3>1, <3>5
    <3>9. \A g \in DOMAIN v.hosts : g \in DOMAIN t.hosts /\ v.hosts[g] = t.hosts[g]
      BY <3>1, <3>5
    <3>10. QED
      BY <3>4, <3>5, <3>6, <3>7, <3>8, <3>9
  <2>3. QED
    BY <2>1, <2>2
<1> HIDE DEF Good
<1>4. Scanned(Aged(t), order) \in Good
  BY <1>1, <1>2, <1>3, ScanKeeps
<1>5. QED
  BY <1>4 DEF Good

-----------------------------------------------------------------------------
(* The inductive invariant. *)
Places == {"select", "stay", "bye", "kill", "close", "start", "record", "update",
           "kill live", "record live", "dead"}

Typed ==
    /\ live \in BOOLEAN /\ calls \subseteq Host /\ made \in 0..MaxCalls
    /\ net \subseteq {"ID", "BYE"} \X Host
    /\ main \in [pc : Places, host : Host, child : Pid \cup {Undef}]
    /\ tables \in Tables /\ DOMAIN tables.children \subseteq DOMAIN tables.timer
    /\ lchild \in Pid \cup {Undef}
    /\ proc \in [Pid -> {"free", "runs", "told", "zombie"}]
    /\ to \in [Pid -> SUBSET Host]
    /\ mishap \subseteq Mishap /\ astray \in BOOLEAN

(* The main program, in each mode, is where that mode leads it, and has a  *)
(* child in hand between fork() and its recording only.                    *)
MainInv ==
    /\ main.child # Undef => main.pc \in {"record", "record live"}
    /\ main.pc \in {"kill live", "record live"} => live
    /\ main.pc \in {"stay", "bye", "kill", "close"} => ~live

(* With live sound all hosts have the child that is undefined.             *)
LiveInv ==
    live =>
      /\ \A h \in DOMAIN tables.hosts : tables.hosts[h] = Undef
      /\ \A p \in DOMAIN tables.timer : p = Undef /\ tables.timer[p] = 0
      /\ main.pc \in {"update", "kill live", "record live"} => DOMAIN tables.hosts # {}
      /\ main.pc = "record" => main.child = Undef
      /\ main.pc = "kill live" => lchild # Undef
      /\ main.pc = "record live" => main.child # Undef

(* Before a mishap the tables agree with each other and with the           *)
(* processes, and the main program with the tables.                        *)
LiveKnown ==
    /\ lchild # Undef => proc[lchild] # "free"
    /\ main.pc = "record live" => proc[main.child] # "free"
ChildrenKnown ==
    /\ \A p \in Pid : proc[p] = "runs" /\ main.child # p => Recorded(p)
    /\ \A p \in DOMAIN tables.timer :
         tables.timer[p] = 0 => proc[p] # "free" /\ to[p] = {tables.children[p]}
MainKnows ==
    /\ main.pc \in {"stay", "bye", "kill", "close"} => main.host \in DOMAIN tables.hosts
    /\ main.pc = "stay" => TimerOf(ChildOf(main.host)) # 0
    /\ main.pc = "kill" => TimerOf(ChildOf(main.host)) = 0
    /\ main.pc = "close" => proc[ChildOf(main.host)] # "runs"
    /\ main.pc \in {"start", "record"} => main.host \notin DOMAIN tables.hosts
    /\ main.pc = "record" =>
         /\ main.child \in Pid /\ main.child \notin DOMAIN tables.timer
         /\ proc[main.child] # "free" /\ to[main.child] = {main.host}
CalmlyServed ==
    mishap = {} =>
      /\ ~astray
      /\ live => LiveKnown
      /\ ~live => Agree(tables) /\ ChildrenKnown /\ MainKnows

ServeInv == Typed /\ MainInv /\ LiveInv /\ CalmlyServed

LEMMA TypedTables == ASSUME Typed PROVE TablesOK
<1>1. tables.hosts \in Tabled(Host, Pid \cup {Undef})
  BY DEF Typed, Tables
<1>2. DOMAIN tables.hosts \subseteq Host /\ \A h \in DOMAIN tables.hosts : tables.hosts[h] \in Pid \cup {Undef}
  BY <1>1, TabledIs
<1>3. Range(tables.hosts) \subseteq Pid \cup {Undef}
  BY <1>2 DEF Range
<1>4. tables.timer \in Tabled(Pid \cup {Undef}, Nat)
  BY DEF Typed, Tables
<1>5. DOMAIN tables.timer \subseteq Pid \cup {Undef}
  BY <1>4, TabledIs
<1>6. QED
  BY <1>2, <1>3, <1>5 DEF Typed, TablesOK

LEMMA TypedChild == ASSUME Typed PROVE \A h : ChildOf(h) \in Pid \cup {Undef}
<1>1. tables.hosts \in Tabled(Host, Pid \cup {Undef})
  BY DEF Typed, Tables
<1>2. QED
  BY <1>1, TabledIs DEF ChildOf

LEMMA SelectIs ==
  /\ Select \in [pc : Places, host : Host, child : Pid \cup {Undef}]
  /\ Select.pc = "select" /\ Select.child = Undef
  /\ Dead \in [pc : Places, host : Host, child : Pid \cup {Undef}]
  /\ Dead.pc = "dead" /\ Dead.child = Undef
BY VodAssumption DEF Select, Dead, At, Places

LEMMA TypedInit == VodInit => ServeInv
<1> SUFFICES ASSUME VodInit PROVE ServeInv
  OBVIOUS
<1>1. /\ DOMAIN Empty = {} /\ Empty \in Tabled(Pid \cup {Undef}, Host)
      /\ Empty \in Tabled(Pid \cup {Undef}, Nat) /\ Empty \in Tabled(Host, Pid \cup {Undef})
  <2>1. DOMAIN Empty = {} /\ Empty = [x \in DOMAIN Empty |-> Empty[x]]
    BY DEF Empty
  <2>2. QED
    BY <2>1, TabledIs
<1>2. tables \in Tables
  BY <1>1 DEF VodInit, Tables
<1>3. Typed
  <2>1. proc \in [Pid -> {"free", "runs", "told", "zombie"}] /\ to \in [Pid -> SUBSET Host]
    BY DEF VodInit
  <2>2. DOMAIN tables.children \subseteq DOMAIN tables.timer
    BY DEF VodInit
  <2>3. made \in 0..MaxCalls
    BY VodAssumption DEF VodInit
  <2>4. QED
    BY <1>2, <2>1, <2>2, <2>3, SelectIs DEF VodInit, Typed
<1>4. /\ tables.children = Empty /\ tables.timer = Empty /\ tables.hosts = Empty
      /\ main.pc = "select" /\ main.child = Undef
      /\ mishap = {} /\ astray = FALSE /\ lchild = Undef
      /\ \A p \in Pid : proc[p] = "free"
  BY SelectIs DEF VodInit
<1>5. MainInv
  BY <1>4 DEF MainInv
<1>6. LiveInv
  BY <1>1, <1>4 DEF LiveInv
<1>7. CalmlyServed
  BY <1>1, <1>4 DEF CalmlyServed, LiveKnown, Agree, ChildrenKnown, MainKnows
<1>8. QED
  BY <1>3, <1>5, <1>6, <1>7 DEF ServeInv

-----------------------------------------------------------------------------
(* Every step keeps it: first the callers, and an sfmike that ends.        *)
LEMMA WorldServes ==
  ASSUME ServeInv, NEW h \in Host, Connect(h) \/ Identify(h) \/ HangUp(h)
  PROVE  ServeInv'
<1>1. /\ UNCHANGED <<live, main, tables, lchild, proc, to, mishap, astray>>
      /\ calls' \subseteq Host /\ made' \in 0..MaxCalls
      /\ net' \subseteq {"ID", "BYE"} \X Host
  BY VodAssumption DEF ServeInv, Typed, Connect, Identify, HangUp, history
<1>2. Typed'
  BY <1>1 DEF ServeInv, Typed
<1>3. MainInv' /\ LiveInv'
  BY <1>1 DEF ServeInv, MainInv, LiveInv
<1>4. CalmlyServed'
  BY <1>1 DEF ServeInv, CalmlyServed, LiveKnown, Agree, ChildrenKnown, MainKnows,
              Recorded, TimerOf, ChildOf
<1>5. QED
  BY <1>2, <1>3, <1>4 DEF ServeInv

(* A process that was there is there, and none runs that did not: all the  *)
(* tables knew of the processes remains so.                                *)
LEMMA EndedServes ==
  ASSUME ServeInv, UNCHANGED <<live, world, main, tables, lchild, to, mishap>>,
         ~astray' \/ mishap # {}, astray' \in BOOLEAN,
         proc' \in [Pid -> {"free", "runs", "told", "zombie"}],
         \A q \in Pid : /\ proc'[q] = "free" <=> proc[q] = "free"
                        /\ proc'[q] = "runs" => proc[q] = "runs"
  PROVE  ServeInv'
<1>1. Typed'
  BY DEF ServeInv, Typed, world
<1>2. MainInv' /\ LiveInv'
  BY DEF ServeInv, MainInv, LiveInv
<1>3. CalmlyServed'
  <2> SUFFICES ASSUME mishap = {}
               PROVE  /\ live => LiveKnown'
                      /\ ~live => Agree(tables)' /\ ChildrenKnown' /\ MainKnows'
    BY DEF CalmlyServed
  <2>1. CASE live
    <3>1. LiveKnown
      BY <2>1 DEF ServeInv, CalmlyServed
    <3>2. main.pc = "record live" => main.child \in Pid
      BY <2>1 DEF ServeInv, Typed, LiveInv
    <3>3. LiveKnown'
      BY <3>1, <3>2 DEF LiveKnown, ServeInv, Typed
    <3>4. QED
      BY <2>1, <3>3
  <2>2. CASE ~live
    <3>1. Agree(tables) /\ ChildrenKnown /\ MainKnows
      BY <2>2 DEF ServeInv, CalmlyServed
    <3>2. \A p \in DOMAIN tables.timer : p \in Pid
      BY <3>1 DEF Agree
    <3>3. ChildrenKnown'
      <4>1. \A p \in Pid : Recorded(p)' <=> Recorded(p)
        BY DEF Recorded
      <4>2. QED
        BY <3>1, <3>2, <4>1 DEF ChildrenKnown
    <3>4. main.host \in DOMAIN tables.hosts => ChildOf(main.host) \in Pid
      BY <3>1 DEF Agree, ChildOf
    <3>5. (\A h : ChildOf(h)' = ChildOf(h)) /\ (\A p : TimerOf(p)' = TimerOf(p))
      BY DEF ChildOf, TimerOf
    <3>6. main.pc = "close" => proc'[ChildOf(main.host)] # "runs"
      BY <3>1, <3>4 DEF MainKnows
    <3>7. MainKnows'
      BY <3>1, <3>5, <3>6 DEF MainKnows
    <3>8. Agree(tables)'
      BY <3>1
    <3>9. QED
      BY <2>2, <3>3, <3>7, <3>8
  <2>3. QED
    BY <2>1, <2>2
<1>4. QED
  BY <1>1, <1>2, <1>3 DEF ServeInv

LEMMA EndsServes ==
  ASSUME ServeInv, NEW p \in Pid, Ends(p)
  PROVE  ServeInv'
<1>1. ~astray' \/ mishap # {}
  BY DEF Ends, history, ServeInv, CalmlyServed
<1>2. QED
  BY <1>1, EndedServes DEF Ends, history, world, ServeInv, Typed

-----------------------------------------------------------------------------
(* The main program. *)
LEMMA ReceiveServes ==
  ASSUME ServeInv, NEW d \in net, Receive(d)
  PROVE  ServeInv'
<1> DEFINE h == d[2]
<1>1. /\ main.pc = "select" /\ main.child = Undef /\ h \in Host
      /\ UNCHANGED <<live, tables, lchild, proc, to, mishap, astray>>
      /\ UNCHANGED <<calls, made>> /\ net' \subseteq net
  BY DEF ServeInv, Typed, MainInv, Receive, history
<1>2. \/ ChildOf(h) = Undef /\ main' = At("start", h, Undef)
      \/ ChildOf(h) # Undef /\ main' = At("bye", h, Undef)
      \/ ChildOf(h) # Undef /\ main' = Select
      \/ ChildOf(h) # Undef /\ TimerOf(ChildOf(h)) # 0 /\ main' = At("stay", h, Undef)
  BY DEF Receive
<1> HIDE DEF h
<1>3. /\ main' \in [pc : Places, host : Host, child : Pid \cup {Undef}]
      /\ main'.child = Undef /\ main'.pc \in {"start", "bye", "stay", "select"}
      /\ main'.pc # "select" => main'.host = h
      /\ main'.pc = "start" => ChildOf(h) = Undef
      /\ main'.pc \in {"bye", "stay"} => ChildOf(h) # Undef
      /\ main'.pc = "stay" => TimerOf(ChildOf(h)) # 0
  <2>1. \A place \in {"start", "bye", "stay"} :
          /\ At(place, h, Undef) \in [pc : Places, host : Host, child : Pid \cup {Undef}]
          /\ At(place, h, Undef).pc = place /\ At(place, h, Undef).host = h
          /\ At(place, h, Undef).child = Undef
    BY <1>1 DEF At, Places
  <2>2. CASE main' = Select
    BY <2>2, SelectIs
  <2>3. CASE main' # Select
    BY <1>2, <2>1, <2>3
  <2>4. QED
    BY <2>2, <2>3
<1>4. Typed'
  BY <1>1, <1>3 DEF ServeInv, Typed
<1>5. h \in DOMAIN tables.hosts /\ live => ChildOf(h) = Undef
  BY DEF ServeInv, LiveInv, ChildOf
<1>6. ChildOf(h) # Undef => ~live /\ h \in DOMAIN tables.hosts
  BY <1>5 DEF ChildOf
<1>7. MainInv' /\ LiveInv'
  BY <1>1, <1>3, <1>6 DEF ServeInv, MainInv, LiveInv
<1>8. CalmlyServed'
  <2> SUFFICES ASSUME mishap = {}
               PROVE  /\ live => LiveKnown'
                      /\ ~live => ChildrenKnown' /\ MainKnows'
    BY <1>1 DEF ServeInv, CalmlyServed
  <2>1. live => LiveKnown'
    BY <1>1, <1>3 DEF ServeInv, CalmlyServed, LiveKnown
  <2>2. CASE ~live
    <3>1. Agree(tables) /\ ChildrenKnown
      BY <2>2 DEF ServeInv, CalmlyServed
    <3>2. ChildrenKnown'
      BY <1>1, <1>3, <3>1 DEF ChildrenKnown, Recorded
    <3>3. h \in DOMAIN tables.hosts => ChildOf(h) # Undef
      BY <3>1, VodAssumption DEF Agree, ChildOf
    <3>4. (\A g : ChildOf(g)' = ChildOf(g)) /\ (\A p : TimerOf(p)' = TimerOf(p))
      BY <1>1 DEF ChildOf, TimerOf
    <3>5. MainKnows'
      BY <1>1, <1>3, <1>6, <3>3, <3>4 DEF MainKnows
    <3>6. QED
      BY <2>2, <3>2, <3>5
  <2>3. QED
    BY <2>1, <2>2
<1>9. QED
  BY <1>4, <1>7, <1>8 DEF ServeInv

LEMMA StayServes ==
  ASSUME ServeInv, Stay
  PROVE  ServeInv'
<1> DEFINE p == ChildOf(main.host)
           timer == Assigned(tables.timer, p, Now)
<1>1. /\ UNCHANGED <<live, calls, made, net, lchild, proc, to, mishap, astray>>
      /\ main.pc = "stay" /\ main.child = Undef /\ main' = Select
      /\ tables' = [tables EXCEPT !.timer = timer] /\ ~live
  BY DEF Stay, world, history, ServeInv, MainInv
<1>2. p \in Pid \cup {Undef}
  BY TypedChild DEF ServeInv
<1> HIDE DEF p
<1>3. /\ timer \in Tabled(Pid \cup {Undef}, Nat)
      /\ DOMAIN timer = DOMAIN tables.timer \cup {p} /\ timer[p] = Now
      /\ \A k \in DOMAIN tables.timer : k # p => timer[k] = tables.timer[k]
  <2>1. tables.timer \in Tabled(Pid \cup {Undef}, Nat) /\ Now \in Nat
    BY DEF ServeInv, Typed, Tables, Now
  <2>2. Assigned(tables.timer, p, Now) \in Tabled(Pid \cup {Undef}, Nat)
    BY <1>2, <2>1, AssignedIs
  <2>3. QED
    BY <2>2 DEF Assigned
<1> HIDE DEF timer
<1>4. /\ tables' \in Tables /\ tables'.timer = timer
      /\ tables'.children = tables.children /\ tables'.hosts = tables.hosts
  BY <1>1, <1>3 DEF ServeInv, Typed, Tables
<1>5. Typed'
  BY <1>1, <1>3, <1>4, SelectIs DEF ServeInv, Typed
<1>6. MainInv' /\ LiveInv'
  BY <1>1, SelectIs DEF MainInv, LiveInv
<1>7. CalmlyServed'
  <2> SUFFICES ASSUME mishap = {}
               PROVE  Agree(tables)' /\ ChildrenKnown' /\ MainKnows'
    BY <1>1 DEF ServeInv, CalmlyServed
  <2>1. Agree(tables) /\ ChildrenKnown /\ MainKnows
    BY <1>1 DEF ServeInv, CalmlyServed
  <2>2. main.host \in DOMAIN tables.hosts /\ TimerOf(p) # 0
    BY <1>1, <2>1 DEF MainKnows, p
  <2>3. p \in DOMAIN tables.timer /\ tables.timer[p] # 0
    BY <2>2 DEF TimerOf
  <2>4. /\ DOMAIN timer = DOMAIN tables.timer
        /\ \A k \in DOMAIN timer : timer[k] = 0 <=> tables.timer[k] = 0
    BY <1>3, <2>3 DEF Now
  <2>5. Agree(tables)'
    BY <1>4, <2>1, <2>4 DEF Agree
  <2>6. \A q \in Pid : Recorded(q) => Recorded(q)'
    BY <1>1, <1>4, <2>1, <2>4 DEF Recorded, Agree
  <2>7. ChildrenKnown'
    BY <1>1, <1>4, <2>1, <2>4, <2>6, SelectIs DEF ChildrenKnown
  <2>8. MainKnows'
    BY <1>1, SelectIs DEF MainKnows
  <2>9. QED
    BY <2>5, <2>7, <2>8
<1>8. QED
  BY <1>5, <1>6, <1>7 DEF ServeInv

LEMMA ByeServes ==
  ASSUME ServeInv, Bye
  PROVE  ServeInv'
<1>1. /\ UNCHANGED <<live, calls, made, net, tables, lchild, proc, to, mishap, astray>>
      /\ main.pc = "bye" /\ main.child = Undef /\ ~live
      /\ main' = [main EXCEPT !.pc =
                    IF TimerOf(ChildOf(main.host)) = 0 THEN "kill" ELSE "close"]
  BY DEF Bye, world, history, ServeInv, MainInv
<1>2. /\ main' \in [pc : Places, host : Host, child : Pid \cup {Undef}]
      /\ main'.host = main.host /\ main'.child = Undef
      /\ \/ TimerOf(ChildOf(main.host)) = 0 /\ main'.pc = "kill"
         \/ TimerOf(ChildOf(main.host)) # 0 /\ main'.pc = "close"
  BY <1>1 DEF ServeInv, Typed, Places
<1>3. Typed'
  BY <1>1, <1>2 DEF ServeInv, Typed
<1>4. MainInv' /\ LiveInv'
  BY <1>1, <1>2 DEF MainInv, LiveInv
<1>5. CalmlyServed'
  <2> SUFFICES ASSUME mishap = {}
               PROVE  ChildrenKnown' /\ MainKnows'
    BY <1>1 DEF ServeInv, CalmlyServed
  <2>1. Agree(tables) /\ ChildrenKnown /\ MainKnows
    BY <1>1 DEF ServeInv, CalmlyServed
  <2>2. ChildrenKnown'
    BY <1>1, <1>2, <2>1 DEF ChildrenKnown, Recorded
  <2>3. main.host \in DOMAIN tables.hosts
    BY <1>1, <2>1 DEF MainKnows
  <2>4. ChildOf(main.host) \in Pid /\ ChildOf(main.host) \in DOMAIN tables.timer
    BY <2>1, <2>3 DEF Agree, ChildOf
  <2>5. TimerOf(ChildOf(main.host)) # 0 => proc[ChildOf(main.host)] # "runs"
    BY <1>1, <2>1, <2>4, VodAssumption DEF ChildrenKnown, Recorded, TimerOf
  <2>6. (\A g : ChildOf(g)' = ChildOf(g)) /\ (\A p : TimerOf(p)' = TimerOf(p))
    BY <1>1 DEF ChildOf, TimerOf
  <2>7. MainKnows'
    BY <1>1, <1>2, <2>3, <2>5, <2>6 DEF MainKnows
  <2>8. QED
    BY <2>2, <2>7
<1>6. QED
  BY <1>3, <1>4, <1>5 DEF ServeInv

(* SIGINT of the main program: who runs and is meant, is told.             *)
LEMMA InterruptIs ==
  ASSUME Typed, NEW p, Interrupt(p)
  PROVE  /\ proc' \in [Pid -> {"free", "runs", "told", "zombie"}]
         /\ \A q \in Pid : /\ proc'[q] = "free" <=> proc[q] = "free"
                           /\ proc'[q] = "runs" => proc[q] = "runs" /\ q # p
BY DEF Typed, Interrupt

LEMMA KillServes ==
  ASSUME ServeInv, Kill
  PROVE  ServeInv'
<1> DEFINE p == ChildOf(main.host)
<1>1. /\ UNCHANGED <<live, calls, made, net, tables, lchild, to, mishap>>
      /\ main.pc = "kill" /\ main.child = Undef /\ ~live /\ Interrupt(p)
      /\ main' = IF p = Undef THEN Dead ELSE [main EXCEPT !.pc = "close"]
      /\ astray' = (astray \/ p = Undef \/ proc[p] = "free" \/ to[p] # {main.host})
  BY DEF Kill, world, ServeInv, MainInv
<1>2. /\ proc' \in [Pid -> {"free", "runs", "told", "zombie"}]
      /\ \A q \in Pid : /\ proc'[q] = "free" <=> proc[q] = "free"
                        /\ proc'[q] = "runs" => proc[q] = "runs" /\ q # p
  BY <1>1, InterruptIs DEF ServeInv
<1>3. /\ main' \in [pc : Places, host : Host, child : Pid \cup {Undef}]
      /\ main'.child = Undef /\ main'.pc \in {"dead", "close"}
      /\ main'.pc = "close" => main'.host = main.host
  BY <1>1, SelectIs DEF ServeInv, Typed, Places
<1>4. Typed'
  BY <1>1, <1>2, <1>3 DEF ServeInv, Typed
<1>5. MainInv' /\ LiveInv'
  BY <1>1, <1>3 DEF MainInv, LiveInv
<1>6. CalmlyServed'
  <2> SUFFICES ASSUME mishap = {}
               PROVE  ~astray' /\ ChildrenKnown' /\ MainKnows'
    BY <1>1 DEF ServeInv, CalmlyServed
  <2>1. Agree(tables) /\ ChildrenKnown /\ MainKnows /\ ~astray
    BY <1>1 DEF ServeInv, CalmlyServed
  <2>2. main.host \in DOMAIN tables.hosts /\ TimerOf(p) = 0
    BY <1>1, <2>1 DEF MainKnows
  <2>3. /\ p \in Pid /\ p \in DOMAIN tables.timer /\ tables.timer[p] = 0
        /\ tables.children[p] = main.host
    BY <2>1, <2>2 DEF Agree, ChildOf, TimerOf
  <2>4. ~astray'
    BY <1>1, <2>1, <2>3, VodAssumption DEF ChildrenKnown
  <2>5. ChildrenKnown'
    <3>1. \A q \in Pid : Recorded(q)' <=> Recorded(q)
      BY <1>1 DEF Recorded
    <3>2. DOMAIN tables.timer \subseteq Pid
      BY <2>1 DEF Agree
    <3>3. QED
      BY <1>1, <1>2, <1>3, <2>1, <3>1, <3>2 DEF ChildrenKnown
  <2>6. ChildOf(main.host)' = p \/ main'.pc = "dead"
    BY <1>1, <1>3 DEF ChildOf
  <2>7. MainKnows'
    BY <1>1, <1>2, <1>3, <2>2, <2>3, <2>6 DEF MainKnows
  <2>8. QED
    BY <2>4, <2>5, <2>7
<1>7. QED
  BY <1>4, <1>5, <1>6 DEF ServeInv

LEMMA CloseServes ==
  ASSUME ServeInv, Close
  PROVE  ServeInv'
<1> DEFINE u == Closeout(tables, main.host)
<1>1. /\ UNCHANGED <<live, calls, made, net, lchild, proc, to, mishap, astray>>
      /\ main.pc = "close" /\ main.child = Undef /\ ~live
      /\ tables' = u /\ main' = [main EXCEPT !.pc = "update"]
  BY DEF Close, world, history, ServeInv, MainInv
<1>2. /\ main' \in [pc : Places, host : Host, child : Pid \cup {Undef}]
      /\ main'.pc = "update" /\ main'.child = Undef
  BY <1>1 DEF ServeInv, Typed, Places
<1>3. u \in Tables /\ DOMAIN u.children \subseteq DOMAIN u.timer
  BY CloseoutTables DEF ServeInv, Typed
<1>4. Typed'
  BY <1>1, <1>2, <1>3 DEF ServeInv, Typed
<1>5. MainInv' /\ LiveInv'
  BY <1>1, <1>2 DEF MainInv, LiveInv
<1>6. CalmlyServed'
  <2> SUFFICES ASSUME mishap = {}
               PROVE  Agree(tables)' /\ ChildrenKnown' /\ MainKnows'
    BY <1>1 DEF ServeInv, CalmlyServed
  <2>1. Agree(tables) /\ ChildrenKnown /\ MainKnows
    BY <1>1 DEF ServeInv, CalmlyServed
  <2>2. main.host \in DOMAIN tables.hosts /\ proc[ChildOf(main.host)] # "runs"
    BY <1>1, <2>1 DEF MainKnows
  <2> DEFINE ch == tables.hosts[main.host]
  <2>3. /\ Agree(u)
        /\ DOMAIN u.children = DOMAIN tables.children \ {ch}
        /\ \A p \in DOMAIN u.children :
             u.children[p] = tables.children[p] /\ u.timer[p] = tables.timer[p]
        /\ DOMAIN u.hosts = DOMAIN tables.hosts \ {main.host}
        /\ \A g \in DOMAIN u.hosts : u.hosts[g] = tables.hosts[g]
    BY <2>1, <2>2, CloseoutAgrees DEF ServeInv, Typed
  <2>4. proc[ch] # "runs" /\ ch \in DOMAIN tables.children /\ tables.children[ch] = main.host
    BY <2>1, <2>2 DEF ChildOf, Agree
  <2> HIDE DEF u, ch
  <2>5. ASSUME NEW q \in Pid, q # ch, Recorded(q)
        PROVE  Recorded(q)'
    <3>1. tables.hosts[tables.children[q]] = q /\ tables.children[q] # main.host
      BY <2>5 DEF Recorded, ch
    <3>2. q \in DOMAIN u.children /\ u.children[q] = tables.children[q]
             /\ u.timer[q] = tables.timer[q]
      BY <2>3, <2>5 DEF Recorded
    <3>3. QED
      BY <1>1, <2>3, <2>5, <3>1, <3>2 DEF Recorded
  <2>6. ChildrenKnown'
    <3>1. \A q \in Pid : proc[q] = "runs" => Recorded(q)'
      BY <1>1, <2>1, <2>4, <2>5, VodAssumption DEF ChildrenKnown
    <3>2. DOMAIN u.timer = DOMAIN u.children /\ DOMAIN tables.timer = DOMAIN tables.children
      BY <2>1, <2>3 DEF Agree
    <3>3. QED
      BY <1>1, <2>1, <2>3, <3>1, <3>2 DEF ChildrenKnown
  <2>7. MainKnows'
    BY <1>2 DEF MainKnows
  <2>8. QED
    BY <1>1, <2>3, <2>6, <2>7
<1>7. QED
  BY <1>4, <1>5, <1>6 DEF ServeInv

(* The main program goes on with another packet, or is no more: nothing is *)
(* expected of it.                                                         *)
LEMMA DiesServes ==
  ASSUME ServeInv, UNCHANGED <<live, calls, made, net, tables, lchild, proc, to, mishap, astray>>,
         main' \in [pc : Places, host : Host, child : Pid \cup {Undef}],
         main'.pc \in {"select", "dead"}, main'.child = Undef, live \/ main.child = Undef
  PROVE  ServeInv'
<1>1. Typed'
  BY DEF ServeInv, Typed
<1>2. MainInv' /\ LiveInv'
  BY DEF ServeInv, MainInv, LiveInv
<1>3. CalmlyServed'
  <2>1. ~live /\ mishap = {} => ChildrenKnown'
    BY DEF ServeInv, CalmlyServed, ChildrenKnown, Recorded
  <2>2. MainKnows'
    BY DEF MainKnows
  <2>3. live /\ mishap = {} => LiveKnown'
    BY DEF ServeInv, CalmlyServed, LiveKnown
  <2>4. QED
    BY <2>1, <2>2, <2>3 DEF ServeInv, CalmlyServed
<1>4. QED
  BY <1>1, <1>2, <1>3 DEF ServeInv

(* fork(): a child, with its hosts, where none was.                        *)
LEMMA StartedIs ==
  ASSUME Typed, NEW p \in Pid, NEW hs \in SUBSET Host, Started(p, hs)
  PROVE  /\ proc' \in [Pid -> {"free", "runs", "told", "zombie"}]
         /\ to' \in [Pid -> SUBSET Host]
         /\ proc[p] = "free" /\ proc'[p] = "runs" /\ to'[p] = hs
         /\ \A q \in Pid : q # p => proc'[q] = proc[q] /\ to'[q] = to[q]
BY DEF Typed, Started

LEMMA AtIs ==
  ASSUME NEW place \in Places, NEW h \in Host, NEW p \in Pid \cup {Undef}
  PROVE  /\ At(place, h, p) \in [pc : Places, host : Host, child : Pid \cup {Undef}]
         /\ At(place, h, p).pc = place /\ At(place, h, p).host = h /\ At(place, h, p).child = p
BY DEF At

LEMMA TablesAre ==
  ASSUME Typed
  PROVE  /\ tables.children \in Tabled(Pid \cup {Undef}, Host)
         /\ tables.timer \in Tabled(Pid \cup {Undef}, Nat)
         /\ tables.hosts \in Tabled(Host, Pid \cup {Undef})
         /\ DOMAIN tables.hosts \subseteq Host
BY TabledIs DEF Typed, Tables

LEMMA StartServes ==
  ASSUME ServeInv, Start
  PROVE  ServeInv'
<1>1. /\ UNCHANGED <<live, calls, made, net, tables, lchild, astray>>
      /\ main.pc = "start" /\ main.child = Undef /\ main.host \in Host
  BY DEF Start, world, ServeInv, MainInv, Typed
<1>2. (\A g : ChildOf(g)' = ChildOf(g)) /\ (\A q : TimerOf(q)' = TimerOf(q))
  BY <1>1 DEF ChildOf, TimerOf
<1>3. CASE live /\ main' = [main EXCEPT !.pc = "record"] /\ UNCHANGED <<proc, to, mishap>>
  <2>1. /\ main' \in [pc : Places, host : Host, child : Pid \cup {Undef}]
        /\ main'.pc = "record" /\ main'.child = Undef
    BY <1>1, <1>3 DEF ServeInv, Typed, Places
  <2>2. Typed'
    BY <1>1, <1>3, <2>1 DEF ServeInv, Typed
  <2>3. MainInv' /\ LiveInv'
    BY <1>1, <1>3, <2>1 DEF ServeInv, MainInv, LiveInv
  <2>4. CalmlyServed'
    BY <1>1, <1>3, <2>1 DEF ServeInv, CalmlyServed, LiveKnown
  <2>5. QED
    BY <2>2, <2>3, <2>4 DEF ServeInv
<1>4. ASSUME ~live, NEW p \in Pid, Started(p, {main.host}),
             main' = At("record", main.host, p), Noted("reused", p \in DOMAIN tables.timer)
      PROVE  ServeInv'
  <2>1. /\ main' \in [pc : Places, host : Host, child : Pid \cup {Undef}]
        /\ main'.pc = "record" /\ main'.host = main.host /\ main'.child = p
    <3>1. "record" \in Places
      BY DEF Places
    <3>2. QED
      BY <1>1, <1>4, <3>1, AtIs
  <2>2. /\ proc' \in [Pid -> {"free", "runs", "told", "zombie"}]
        /\ to' \in [Pid -> SUBSET Host]
        /\ proc[p] = "free" /\ proc'[p] = "runs" /\ to'[p] = {main.host}
        /\ \A q \in Pid : q # p => proc'[q] = proc[q] /\ to'[q] = to[q]
    <3>1. {main.host} \in SUBSET Host
      BY <1>1
    <3>2. QED
      BY <1>4, <3>1, StartedIs DEF ServeInv
  <2>3. mishap' \subseteq Mishap /\ (mishap' = {} => mishap = {} /\ p \notin DOMAIN tables.timer)
    BY <1>4 DEF Noted, ServeInv, Typed, Mishap
  <2>4. Typed'
    BY <1>1, <2>1, <2>2, <2>3 DEF ServeInv, Typed
  <2>5. MainInv' /\ LiveInv'
    BY <1>1, <1>4, <2>1 DEF MainInv, LiveInv
  <2>6. CalmlyServed'
    <3> SUFFICES ASSUME mishap' = {}
                 PROVE  ~astray' /\ Agree(tables)' /\ ChildrenKnown' /\ MainKnows'
      BY <1>1, <1>4 DEF CalmlyServed
    <3>1. ~astray /\ Agree(tables) /\ ChildrenKnown /\ MainKnows
      BY <1>4, <2>3 DEF ServeInv, CalmlyServed
    <3>2. \A q \in Pid : q # p /\ Recorded(q) => Recorded(q)'
      BY <1>1, <2>2 DEF Recorded
    <3>3. DOMAIN tables.timer \subseteq Pid /\ p \notin DOMAIN tables.timer
      BY <2>3, <3>1 DEF Agree
    <3>4. \A q \in Pid : proc'[q] = "runs" /\ main'.child # q => Recorded(q)'
      BY <1>1, <2>1, <2>2, <3>1, <3>2, VodAssumption DEF ChildrenKnown
    <3>5. \A q \in DOMAIN tables.timer : tables.timer[q] = 0 =>
            proc'[q] # "free" /\ to'[q] = {tables.children[q]}
      BY <2>2, <3>1, <3>3 DEF ChildrenKnown
    <3>6. ChildrenKnown'
      BY <1>1, <3>4, <3>5 DEF ChildrenKnown
    <3>7. main.host \notin DOMAIN tables.hosts
      BY <1>1, <3>1 DEF MainKnows
    <3>8. MainKnows'
      BY <1>1, <2>1, <2>2, <3>3, <3>7 DEF MainKnows
    <3>9. QED
      BY <1>1, <3>1, <3>6, <3>8
  <2>7. QED
    BY <2>4, <2>5, <2>6 DEF ServeInv
<1>5. CASE ~live /\ NoFork /\ UNCHANGED mishap
  <2>1. /\ main' \in [pc : Places, host : Host, child : Pid \cup {Undef}]
        /\ main'.pc = "dead" /\ main'.child = Undef /\ UNCHANGED <<proc, to, mishap>>
    BY <1>5, SelectIs DEF NoFork
  <2>2. QED
    BY <1>1, <2>1, <1>5, DiesServes
<1>6. QED
  BY <1>3, <1>4, <1>5 DEF Start

LEMMA RecordServes ==
  ASSUME ServeInv, Record
  PROVE  ServeInv'
<1> DEFINE p == main.child
           h == main.host
           children == Assigned(tables.children, p, h)
           timer == Assigned(tables.timer, p, 0)
           hosts == Assigned(tables.hosts, h, p)
<1>1. /\ UNCHANGED <<live, calls, made, net, lchild, proc, to, mishap, astray>>
      /\ main.pc = "record" /\ h \in Host /\ p \in Pid \cup {Undef}
      /\ tables' = [children |-> children, timer |-> timer, hosts |-> hosts]
      /\ main' = At("update", h, Undef)
  BY DEF Record, world, history, ServeInv, Typed
<1>2. /\ main' \in [pc : Places, host : Host, child : Pid \cup {Undef}]
      /\ main'.pc = "update" /\ main'.child = Undef
  <2>1. "update" \in Places
    BY DEF Places
  <2>2. QED
    BY <1>1, <2>1, AtIs
<1>3. /\ tables.children \in Tabled(Pid \cup {Undef}, Host)
      /\ tables.timer \in Tabled(Pid \cup {Undef}, Nat)
      /\ tables.hosts \in Tabled(Host, Pid \cup {Undef})
  BY TablesAre DEF ServeInv
<1>4. /\ children \in Tabled(Pid \cup {Undef}, Host)
      /\ timer \in Tabled(Pid \cup {Undef}, Nat)
      /\ hosts \in Tabled(Host, Pid \cup {Undef})
  BY <1>1, <1>3, AssignedIs
<1>5. /\ DOMAIN children = DOMAIN tables.children \cup {p} /\ children[p] = h
      /\ \A q \in DOMAIN tables.children : q # p => children[q] = tables.children[q]
  BY DEF Assigned
<1>6. /\ DOMAIN timer = DOMAIN tables.timer \cup {p} /\ timer[p] = 0
      /\ \A q \in DOMAIN tables.timer : q # p => timer[q] = tables.timer[q]
  BY DEF Assigned
<1>7. /\ DOMAIN hosts = DOMAIN tables.hosts \cup {h} /\ hosts[h] = p
      /\ \A g \in DOMAIN tables.hosts : g # h => hosts[g] = tables.hosts[g]
  BY DEF Assigned
<1> HIDE DEF children, timer, hosts, p, h
<1>8. /\ tables' \in Tables /\ tables'.children = children
      /\ tables'.timer = timer /\ tables'.hosts = hosts
  BY <1>1, <1>4 DEF Tables
<1>9. Typed'
  <2>1. DOMAIN children \subseteq DOMAIN timer
    BY <1>5, <1>6 DEF ServeInv, Typed
  <2>2. QED
    BY <1>1, <1>2, <1>8, <2>1 DEF ServeInv, Typed
<1>10. MainInv'
  BY <1>2 DEF MainInv
<1>11. LiveInv'
  <2> SUFFICES ASSUME live
               PROVE  /\ \A g \in DOMAIN hosts : hosts[g] = Undef
                      /\ \A q \in DOMAIN timer : q = Undef /\ timer[q] = 0
                      /\ DOMAIN hosts # {}
    BY <1>1, <1>2, <1>8 DEF LiveInv
  <2>1. p = Undef
    BY <1>1 DEF ServeInv, LiveInv, p
  <2>2. QED
    BY <1>6, <1>7, <2>1 DEF ServeInv, LiveInv
<1>12. CalmlyServed'
  <2> SUFFICES ASSUME mishap = {}
               PROVE  /\ live => LiveKnown'
                      /\ ~live => Agree(tables)' /\ ChildrenKnown' /\ MainKnows'
    BY <1>1 DEF ServeInv, CalmlyServed
  <2>1. live => LiveKnown'
    BY <1>1, <1>2 DEF ServeInv, CalmlyServed, LiveKnown
  <2>2. CASE ~live
    <3>1. Agree(tables) /\ ChildrenKnown /\ MainKnows
      BY <2>2 DEF ServeInv, CalmlyServed
    <3>2. /\ h \notin DOMAIN tables.hosts /\ p \in Pid /\ p \notin DOMAIN tables.timer
          /\ proc[p] # "free" /\ to[p] = {h}
      BY <1>1, <3>1 DEF MainKnows, h, p
    <3>3. /\ DOMAIN tables.timer = DOMAIN tables.children
          /\ DOMAIN tables.children \subseteq Pid
          /\ \A q \in DOMAIN tables.children :
               tables.children[q] \in DOMAIN tables.hosts /\ tables.hosts[tables.children[q]] = q
          /\ \A g \in DOMAIN tables.hosts :
               tables.hosts[g] \in DOMAIN tables.children /\ tables.children[tables.hosts[g]] = g
      BY <3>1 DEF Agree
    <3>4. \A q \in DOMAIN children : children[q] \in DOMAIN hosts /\ hosts[children[q]] = q
      BY <1>5, <1>7, <3>2, <3>3
    <3>5. \A g \in DOMAIN hosts : hosts[g] \in DOMAIN children /\ children[hosts[g]] = g
      BY <1>5, <1>7, <3>2, <3>3
    <3>6. Agree(tables)'
      BY <1>5, <1>6, <1>8, <3>2, <3>3, <3>4, <3>5 DEF Agree
    <3>7. ASSUME NEW q \in Pid, proc[q] = "runs" PROVE Recorded(q)'
      <4>1. CASE q = p
        BY <1>1, <1>5, <1>6, <1>7, <1>8, <3>2, <4>1 DEF Recorded
      <4>2. CASE q # p
        <5>1. Recorded(q)
          BY <3>1, <3>7, <4>2 DEF ChildrenKnown, p
        <5>2. QED
          BY <1>1, <1>5, <1>6, <1>7, <1>8, <3>2, <3>3, <4>2, <5>1 DEF Recorded
      <4>3. QED
        BY <4>1, <4>2
    <3>8. \A q \in DOMAIN timer : timer[q] = 0 => proc[q] # "free" /\ to[q] = {children[q]}
      BY <1>5, <1>6, <3>1, <3>2, <3>3 DEF ChildrenKnown
    <3>9. ChildrenKnown'
      BY <1>1, <1>8, <3>7, <3>8 DEF ChildrenKnown
    <3>10. MainKnows'
      BY <1>2 DEF MainKnows
    <3>11. QED
      BY <2>2, <3>6, <3>9, <3>10
  <2>3. QED
    BY <2>1, <2>2
<1>13. QED
  BY <1>9, <1>10, <1>11, <1>12 DEF ServeInv

LEMMA UpdateServes ==
  ASSUME ServeInv, Update
  PROVE  ServeInv'
<1>1. /\ UNCHANGED <<live, calls, made, net, tables, lchild, mishap, astray>>
      /\ main.pc = "update" /\ main.child = Undef /\ main.host \in Host
  BY DEF Update, world, history, ServeInv, MainInv, Typed
<1>2. CASE (main' = Select \/ NoFork) /\ UNCHANGED <<proc, to>>
  <2>1. /\ main' \in [pc : Places, host : Host, child : Pid \cup {Undef}]
        /\ main'.pc \in {"select", "dead"} /\ main'.child = Undef
    BY <1>2, SelectIs DEF NoFork
  <2>2. QED
    BY <1>1, <1>2, <2>1, DiesServes
<1>3. CASE /\ live /\ lchild # Undef
           /\ main' = [main EXCEPT !.pc = "kill live"] /\ UNCHANGED <<proc, to>>
  <2>1. /\ main' \in [pc : Places, host : Host, child : Pid \cup {Undef}]
        /\ main'.pc = "kill live" /\ main'.child = Undef
    BY <1>1, <1>3 DEF ServeInv, Typed, Places
  <2>2. Typed'
    BY <1>1, <1>3, <2>1 DEF ServeInv, Typed
  <2>3. MainInv' /\ LiveInv'
    BY <1>1, <1>3, <2>1 DEF ServeInv, MainInv, LiveInv
  <2>4. CalmlyServed'
    BY <1>1, <1>3, <2>1 DEF ServeInv, CalmlyServed, LiveKnown
  <2>5. QED
    BY <2>2, <2>3, <2>4 DEF ServeInv
<1>4. ASSUME live, lchild = Undef, DOMAIN tables.hosts # {}, NEW p \in Pid,
             Started(p, DOMAIN tables.hosts), main' = At("record live", main.host, p)
      PROVE  ServeInv'
  <2>1. /\ main' \in [pc : Places, host : Host, child : Pid \cup {Undef}]
        /\ main'.pc = "record live" /\ main'.child = p
    <3>1. "record live" \in Places
      BY DEF Places
    <3>2. main' = At("record live", main.host, p) /\ p \in Pid \cup {Undef}
      BY <1>4
    <3>3. /\ At("record live", main.host, p) \in [pc : Places, host : Host, child : Pid \cup {Undef}]
          /\ At("record live", main.host, p).pc = "record live"
          /\ At("record live", main.host, p).child = p
      BY <1>1, <3>1 DEF At
    <3>4. QED
      BY <3>2, <3>3
  <2>2. /\ proc' \in [Pid -> {"free", "runs", "told", "zombie"}]
        /\ to' \in [Pid -> SUBSET Host] /\ proc'[p] = "runs"
    <3>1. DOMAIN tables.hosts \in SUBSET Host
      BY TablesAre DEF ServeInv
    <3>2. QED
      BY <1>4, <3>1, StartedIs DEF ServeInv
  <2>3. Typed'
    BY <1>1, <2>1, <2>2 DEF ServeInv, Typed
  <2>4. MainInv' /\ LiveInv'
    BY <1>1, <1>4, <2>1, VodAssumption DEF ServeInv, MainInv, LiveInv
  <2>5. CalmlyServed'
    BY <1>1, <1>4, <2>1, <2>2 DEF ServeInv, CalmlyServed, LiveKnown
  <2>6. QED
    BY <2>3, <2>4, <2>5 DEF ServeInv
<1>5. \/ (main' = Select \/ NoFork) /\ UNCHANGED <<proc, to>>
      \/ /\ live /\ lchild # Undef
         /\ main' = [main EXCEPT !.pc = "kill live"] /\ UNCHANGED <<proc, to>>
      \/ /\ live /\ lchild = Undef /\ DOMAIN tables.hosts # {}
         /\ \E p \in Pid : Started(p, DOMAIN tables.hosts) /\ main' = At("record live", main.host, p)
  BY DEF Update, NoFork
<1>6. QED
  BY <1>2, <1>3, <1>4, <1>5

LEMMA KillLiveServes ==
  ASSUME ServeInv, KillLive
  PROVE  ServeInv'
<1>1. /\ UNCHANGED <<live, calls, made, net, tables, lchild, to, mishap>>
      /\ main.pc = "kill live" /\ main.child = Undef /\ live /\ Interrupt(lchild)
      /\ main' = Select \/ main' = Dead
      /\ astray' = (astray \/ lchild = Undef \/ proc[lchild] = "free")
      /\ lchild \in Pid
  BY DEF KillLive, world, ServeInv, MainInv, LiveInv, Typed
<1>2. /\ proc' \in [Pid -> {"free", "runs", "told", "zombie"}]
      /\ \A q \in Pid : proc'[q] = "free" <=> proc[q] = "free"
  BY <1>1, InterruptIs DEF ServeInv
<1>3. /\ main' \in [pc : Places, host : Host, child : Pid \cup {Undef}]
      /\ main'.child = Undef /\ main'.pc \in {"select", "dead"}
  BY <1>1, SelectIs
<1>4. Typed'
  <2>1. astray' \in BOOLEAN
    BY <1>1 DEF ServeInv, Typed
  <2>2. QED
    BY <1>1, <1>2, <1>3, <2>1 DEF ServeInv, Typed
<1>5. MainInv' /\ LiveInv'
  BY <1>1, <1>3 DEF ServeInv, MainInv, LiveInv
<1>6. CalmlyServed'
  BY <1>1, <1>2, <1>3, VodAssumption DEF ServeInv, CalmlyServed, LiveKnown
<1>7. QED
  BY <1>4, <1>5, <1>6 DEF ServeInv

LEMMA RecordLiveServes ==
  ASSUME ServeInv, RecordLive
  PROVE  ServeInv'
<1>1. /\ UNCHANGED <<live, calls, made, net, tables, proc, to, mishap, astray>>
      /\ main.pc = "record live" /\ live /\ main' = Select
      /\ lchild' = main.child /\ main.child \in Pid \cup {Undef}
  BY DEF RecordLive, world, history, ServeInv, MainInv, Typed
<1>2. Typed'
  BY <1>1, SelectIs DEF ServeInv, Typed
<1>3. MainInv' /\ LiveInv'
  BY <1>1, SelectIs DEF ServeInv, MainInv, LiveInv
<1>4. CalmlyServed'
  BY <1>1, SelectIs DEF ServeInv, CalmlyServed, LiveKnown
<1>5. QED
  BY <1>2, <1>3, <1>4 DEF ServeInv

-----------------------------------------------------------------------------
(* The handlers. *)
LEMMA ReaperServes ==
  ASSUME ServeInv, Reaper
  PROVE  ServeInv'
<1> DEFINE ended == {p \in Pid : proc[p] = "zombie"}
           left == [p \in Pid |-> IF p \in ended THEN "free" ELSE proc[p]]
           none == [p \in Pid |-> IF p \in ended THEN {} ELSE to[p]]
           again == live /\ lchild \in ended /\ DOMAIN tables.hosts # {}
           timer == [p \in DOMAIN tables.timer |->
                       IF p \in ended THEN Now ELSE tables.timer[p]]
<1>1. /\ UNCHANGED <<live, calls, made, net, astray>>
      /\ tables' = [tables EXCEPT !.timer = timer]
      /\ mishap' = mishap \cup (IF main.child \in ended THEN {"lost"} ELSE {}) \cup
           (IF main.pc = "kill" /\ ChildOf(main.host) \in ended THEN {"raced"} ELSE {})
  BY DEF Reaper, world
<1>2. \/ /\ ~again /\ lchild' = (IF live /\ lchild \in ended THEN Undef ELSE lchild)
         /\ proc' = left /\ to' = none /\ UNCHANGED main
      \/ /\ again
         /\ \E p \in Pid : /\ left[p] = "free" /\ lchild' = p
                           /\ proc' = [left EXCEPT ![p] = "runs"]
                           /\ to' = [none EXCEPT ![p] = DOMAIN tables.hosts]
         /\ UNCHANGED main
      \/ /\ again /\ lchild' = Undef /\ main' = Dead /\ UNCHANGED <<proc, to>>
  BY DEF Reaper, NoFork
<1>3. /\ left \in [Pid -> {"free", "runs", "told", "zombie"}]
      /\ none \in [Pid -> SUBSET Host]
      /\ \A p \in Pid \ ended : left[p] = proc[p] /\ none[p] = to[p]
      /\ \A p \in ended : left[p] = "free"
      /\ ended \subseteq Pid /\ \A p \in ended : proc[p] = "zombie"
  BY DEF ServeInv, Typed
<1>4. /\ DOMAIN timer = DOMAIN tables.timer
      /\ \A p \in DOMAIN timer : timer[p] = IF p \in ended THEN Now ELSE tables.timer[p]
      /\ timer \in Tabled(Pid \cup {Undef}, Nat)
  <2>1. /\ DOMAIN tables.timer \subseteq Pid \cup {Undef}
        /\ \A p \in DOMAIN tables.timer : tables.timer[p] \in Nat
    BY TablesAre, TabledIs DEF ServeInv
  <2>2. /\ DOMAIN timer = DOMAIN tables.timer
        /\ \A p \in DOMAIN timer : timer[p] = IF p \in ended THEN Now ELSE tables.timer[p]
        /\ timer = [p \in DOMAIN timer |-> timer[p]]
    OBVIOUS
  <2> HIDE DEF timer, ended
  <2>3. \A p \in DOMAIN timer : timer[p] \in Nat
    BY <2>1, <2>2 DEF Now
  <2>4. QED
    BY <2>1, <2>2, <2>3, TabledIs
<1> HIDE DEF ended, left, none, timer
<1>5. /\ tables' \in Tables /\ tables'.timer = timer
      /\ tables'.children = tables.children /\ tables'.hosts = tables.hosts
  BY <1>1, <1>4 DEF ServeInv, Typed, Tables
<1>6. /\ main' \in [pc : Places, host : Host, child : Pid \cup {Undef}]
      /\ UNCHANGED main \/ (live /\ main'.pc = "dead" /\ main'.child = Undef)
  BY <1>2, SelectIs DEF ServeInv, Typed
<1>7. Typed'
  <2>1. /\ lchild' \in Pid \cup {Undef}
        /\ proc' \in [Pid -> {"free", "runs", "told", "zombie"}]
        /\ to' \in [Pid -> SUBSET Host]
    <3>1. DOMAIN tables.hosts \in SUBSET Host
      BY TablesAre DEF ServeInv
    <3>2. QED
      BY <1>2, <1>3, <3>1 DEF ServeInv, Typed
  <2>2. mishap' \subseteq Mishap
    BY <1>1 DEF ServeInv, Typed, Mishap
  <2>3. QED
    BY <1>1, <1>4, <1>5, <1>6, <2>1, <2>2 DEF ServeInv, Typed
<1>8. MainInv'
  BY <1>1, <1>6 DEF ServeInv, MainInv
<1>9. LiveInv'
  <2> SUFFICES ASSUME live PROVE LiveInv'
    BY <1>1 DEF LiveInv
  <2>1. \A p \in DOMAIN timer : p = Undef /\ timer[p] = 0
    BY <1>3, <1>4, VodAssumption DEF ServeInv, LiveInv
  <2>2. main'.pc = "kill live" => lchild' # Undef
    <3> SUFFICES ASSUME main'.pc = "kill live" PROVE lchild' # Undef
      OBVIOUS
    <3>1. main.pc = "kill live" /\ main' # Dead
      BY <1>6, SelectIs
    <3>2. lchild # Undef /\ DOMAIN tables.hosts # {}
      BY <3>1 DEF ServeInv, LiveInv
    <3>3. \A p \in Pid : p # Undef
      BY VodAssumption
    <3>4. QED
      BY <1>2, <3>1, <3>2, <3>3
  <2>3. QED
    BY <1>5, <1>6, <2>1, <2>2 DEF ServeInv, LiveInv
<1>10. CalmlyServed'
  <2> SUFFICES ASSUME mishap' = {}
               PROVE  /\ live => LiveKnown'
                      /\ ~live => Agree(tables)' /\ ChildrenKnown' /\ MainKnows'
    BY <1>1 DEF ServeInv, CalmlyServed
  <2>1. /\ mishap = {} /\ main.child \notin ended
        /\ main.pc = "kill" => ChildOf(main.host) \notin ended
    BY <1>1
  <2>2. CASE live
    <3>1. LiveKnown
      BY <2>1, <2>2 DEF ServeInv, CalmlyServed
    <3>2. lchild' # Undef => proc'[lchild'] # "free"
      BY <1>2, <1>3, <2>2, <3>1 DEF LiveKnown, ServeInv, Typed
    <3>3. main.pc = "record live" => main.child \in Pid \ ended
      BY <2>1, <2>2 DEF ServeInv, LiveInv, Typed
    <3>4. main'.pc = "record live" => proc'[main'.child] # "free"
      BY <1>2, <1>3, <1>6, <3>1, <3>3 DEF LiveKnown
    <3>5. QED
      BY <2>2, <3>2, <3>4 DEF LiveKnown
  <2>3. CASE ~live
    <3>1. Agree(tables) /\ ChildrenKnown /\ MainKnows
      BY <2>1, <2>3 DEF ServeInv, CalmlyServed
    <3>2. proc' = left /\ to' = none /\ UNCHANGED main
      BY <1>2, <2>3
    <3>3. /\ DOMAIN tables.timer \subseteq Pid /\ DOMAIN tables.timer = DOMAIN tables.children
          /\ \A p \in DOMAIN tables.timer : timer[p] = 0 <=> p \notin ended /\ tables.timer[p] = 0
      BY <1>4, <3>1 DEF Agree, Now
    <3>4. Agree(tables)'
      BY <1>4, <1>5, <3>1 DEF Agree
    <3>5. ASSUME NEW p \in Pid, proc'[p] = "runs", main'.child # p PROVE Recorded(p)'
      <4>1. p \notin ended /\ proc[p] = "runs"
        BY <1>3, <3>2, <3>5
      <4>2. Recorded(p)
        BY <3>1, <3>2, <3>5, <4>1 DEF ChildrenKnown
      <4>3. QED
        BY <1>3, <1>5, <3>2, <3>3, <4>1, <4>2 DEF Recorded
    <3>6. \A p \in DOMAIN timer : timer[p] = 0 =>
            proc'[p] # "free" /\ to'[p] = {tables.children[p]}
      BY <1>3, <1>4, <3>1, <3>2, <3>3 DEF ChildrenKnown
    <3>7. ChildrenKnown'
      BY <1>5, <3>5, <3>6 DEF ChildrenKnown
    <3>8. \A h : ChildOf(h)' = ChildOf(h)
      BY <1>5 DEF ChildOf
    <3>9. \A p : TimerOf(p)' = IF p \in ended /\ p \in DOMAIN tables.timer THEN Now ELSE TimerOf(p)
      BY <1>4, <1>5 DEF TimerOf
    <3>10. main.host \in DOMAIN tables.hosts => ChildOf(main.host) \in Pid
      BY <3>1 DEF Agree, ChildOf
    <3>11. MainKnows'
      <4>1. main.pc = "stay" => TimerOf(ChildOf(main.host))' # 0
        BY <3>1, <3>2, <3>8, <3>9 DEF MainKnows, Now
      <4>2. main.pc = "kill" => TimerOf(ChildOf(main.host))' = 0
        BY <2>1, <3>1, <3>2, <3>8, <3>9 DEF MainKnows
      <4>3. main.pc = "close" => proc'[ChildOf(main.host)] # "runs"
        BY <1>3, <3>1, <3>2, <3>10 DEF MainKnows
      <4>4. main.pc = "record" =>
              /\ main.child \in Pid /\ main.child \notin DOMAIN tables.timer
              /\ proc'[main.child] # "free" /\ to'[main.child] = {main.host}
        BY <1>3, <2>1, <3>1, <3>2 DEF MainKnows
      <4>5. QED
        BY <1>4, <1>5, <3>1, <3>2, <3>8, <4>1, <4>2, <4>3, <4>4 DEF MainKnows
    <3>12. QED
      BY <2>3, <3>4, <3>7, <3>11
  <2>4. QED
    BY <2>2, <2>3
<1>11. QED
  BY <1>7, <1>8, <1>9, <1>10 DEF ServeInv

LEMMA TickServes ==
  ASSUME ServeInv, Tick
  PROVE  ServeInv'
<1>1. /\ UNCHANGED <<live, calls, made, net, main, lchild, proc, to, astray>>
      /\ Noted("raced", /\ main.pc \in {"stay", "bye", "kill", "close"}
                        /\ main.host \in DOMAIN tables.hosts \ DOMAIN tables'.hosts)
  BY DEF Tick, world
<1>2. PICK order \in SetToSeqs(DOMAIN tables.children) :
        tables' = Scanned(Aged(tables), order)
  BY DEF Tick
<1>3. tables \in Tables /\ DOMAIN tables.children \subseteq DOMAIN tables.timer
  BY DEF ServeInv, Typed
<1>4. /\ tables' \in Tables /\ DOMAIN tables'.children \subseteq DOMAIN tables'.timer
      /\ DOMAIN tables'.hosts \subseteq DOMAIN tables.hosts
  BY <1>2, <1>3, TickTables
<1>5. /\ mishap' \subseteq Mishap
      /\ mishap' = {} => mishap = {}
           /\ (main.pc \in {"stay", "bye", "kill", "close"} =>
                 main.host \notin DOMAIN tables.hosts \ DOMAIN tables'.hosts)
  BY <1>1 DEF Noted, ServeInv, Typed, Mishap
<1>6. Typed'
  BY <1>1, <1>4, <1>5 DEF ServeInv, Typed
<1>7. MainInv'
  BY <1>1 DEF ServeInv, MainInv
<1>8. live => tables' = tables
  BY <1>2, <1>3, TickIdle DEF ServeInv, LiveInv
<1>9. LiveInv'
  BY <1>1, <1>8 DEF ServeInv, LiveInv
<1>10. CalmlyServed'
  <2> SUFFICES ASSUME mishap' = {}
               PROVE  /\ live => LiveKnown'
                      /\ ~live => Agree(tables)' /\ ChildrenKnown' /\ MainKnows'
    BY <1>1, <1>5 DEF ServeInv, CalmlyServed
  <2>1. live => LiveKnown'
    BY <1>1, <1>5 DEF ServeInv, CalmlyServed, LiveKnown
  <2>2. CASE ~live
    <3>1. Agree(tables) /\ ChildrenKnown /\ MainKnows
      BY <1>5, <2>2 DEF ServeInv, CalmlyServed
    <3>2. /\ Agree(tables')
          /\ \A p \in DOMAIN tables.children :
               tables.timer[p] = 0 => p \in DOMAIN tables'.children
          /\ \A p \in DOMAIN tables'.children :
               /\ p \in DOMAIN tables.children /\ tables'.children[p] = tables.children[p]
               /\ tables'.timer[p] = 0 <=> tables.timer[p] = 0
          /\ \A h \in DOMAIN tables'.hosts :
               h \in DOMAIN tables.hosts /\ tables'.hosts[h] = tables.hosts[h]
      BY <1>2, <1>3, <3>1, TickAgrees
    <3>3. DOMAIN tables'.timer = DOMAIN tables'.children
             /\ DOMAIN tables.timer = DOMAIN tables.children
      BY <3>1, <3>2 DEF Agree
    <3>4. ASSUME NEW p \in Pid, Recorded(p) PROVE Recorded(p)'
      <4>1. p \in DOMAIN tables'.children /\ tables'.timer[p] = 0
              /\ tables'.children[p] = tables.children[p]
        BY <3>2, <3>4 DEF Recorded
      <4>2. tables'.children[p] \in DOMAIN tables'.hosts
              /\ tables'.hosts[tables'.children[p]] = p
        BY <3>2, <4>1 DEF Agree
      <4>3. QED
        BY <1>1, <3>4, <4>1, <4>2 DEF Recorded
    <3>5. ChildrenKnown'
      BY <1>1, <3>1, <3>2, <3>3, <3>4 DEF ChildrenKnown
    <3>6. ASSUME main.pc \in {"stay", "bye", "kill", "close"}
          PROVE  /\ main.host \in DOMAIN tables'.hosts
                 /\ ChildOf(main.host)' = ChildOf(main.host)
                 /\ ChildOf(main.host) \in DOMAIN tables'.timer
                 /\ TimerOf(ChildOf(main.host))' = 0 <=> TimerOf(ChildOf(main.host)) = 0
      <4>1. main.host \in DOMAIN tables.hosts /\ main.host \in DOMAIN tables'.hosts
        BY <1>5, <3>1, <3>6 DEF MainKnows
      <4>2. ChildOf(main.host)' = ChildOf(main.host)
              /\ ChildOf(main.host) = tables'.hosts[main.host]
        BY <1>1, <3>2, <4>1 DEF ChildOf
      <4>3. ChildOf(main.host) \in DOMAIN tables'.timer
        BY <3>2, <3>3, <4>1, <4>2 DEF Agree
      <4>4. TimerOf(ChildOf(main.host))' = tables'.timer[ChildOf(main.host)]
              /\ TimerOf(ChildOf(main.host)) = tables.timer[ChildOf(main.host)]
        BY <3>2, <3>3, <4>2, <4>3 DEF TimerOf
      <4>5. QED
        BY <3>2, <3>3, <4>1, <4>2, <4>3, <4>4
    <3>7. main.pc \in {"start", "record"} => main.host \notin DOMAIN tables'.hosts
      BY <1>4, <3>1 DEF MainKnows
    <3>8. main.pc = "record" => main.child \notin DOMAIN tables'.timer
      BY <3>1, <3>2, <3>3 DEF MainKnows
    <3>9. MainKnows'
      BY <1>1, <3>1, <3>6, <3>7, <3>8 DEF MainKnows
    <3>10. QED
      BY <2>2, <3>2, <3>5, <3>9
  <2>3. QED
    BY <2>1, <2>2
<1>11. QED
  BY <1>6, <1>7, <1>9, <1>10 DEF ServeInv

LEMMA ServeNext == ServeInv /\ [VodNext]_vodVars => ServeInv'
<1> SUFFICES ASSUME ServeInv, [VodNext]_vodVars PROVE ServeInv'
  OBVIOUS
<1>1. CASE UNCHANGED vodVars
  BY <1>1 DEF vodVars, ServeInv, Typed, MainInv, LiveInv, CalmlyServed, LiveKnown,
     Agree, ChildrenKnown, MainKnows, Recorded, ChildOf, TimerOf
<1>2. CASE VodNext
  BY <1>2, WorldServes, EndsServes, ReceiveServes, StayServes, ByeServes, KillServes,
     CloseServes, StartServes, RecordServes, UpdateServes, KillLiveServes,
     RecordLiveServes, ReaperServes, TickServes DEF VodNext, Main
<1>3. QED
  BY <1>1, <1>2

(* sfvod plays to every host once at a time, by the sfmike that all three  *)
(* tables name, and signals no process but that (sfvod.pl:229, 302-317,    *)
(* 439), for any hosts, processes and -t, until a handler comes between    *)
(* two statements that it should not or a process number comes again.      *)
THEOREM OneForEachAlways == VodSpec => []OneForEach
<1>1. ServeInv => OneForEach
  BY TypedTables DEF ServeInv, CalmlyServed, ChildrenKnown, OneForEach
<1>2. QED
  BY <1>1, TypedInit, ServeNext, PTL DEF VodSpec
=============================================================================
