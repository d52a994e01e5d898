---------------------------- MODULE ChainsProofs ----------------------------
(***************************************************************************)
(* What a sweep does to a chain of any length, by induction along it.      *)
(***************************************************************************)
EXTENDS Chains, SequencesExt, WellFoundedInduction, TLAPS

(* Induction over a set of numbers, from the order of the numbers being    *)
(* well founded.                                                           *)
LEMMA Induction ==
  ASSUME NEW T, 0 \in T, \A n \in Nat : n \in T => n + 1 \in T
  PROVE  \A n \in Nat : n \in T
<1> DEFINE Bad == Nat \ T
<1> SUFFICES ASSUME Bad # {} PROVE FALSE
  OBVIOUS
<1>1. Bad \subseteq Nat
  OBVIOUS
<1> HIDE DEF Bad
<1>2. \E x \in Bad : \A y \in Bad : <<y, x>> \notin OpToRel(<, Nat)
  BY <1>1, NatLessThanWellFounded, WFMin
<1>3. PICK x \in Bad : \A y \in Bad : ~(y < x)
  BY <1>1, <1>2 DEF OpToRel
<1> USE DEF Bad
<1>4. x # 0 /\ x - 1 \in Nat
  BY <1>1
<1>5. QED
  BY <1>3, <1>4

(* The first of several places is well defined.                            *)
LEMMA MinIsFirst ==
  ASSUME NEW I \in SUBSET Nat, I # {}
  PROVE  Min(I) \in I /\ \A j \in I : Min(I) <= j
<1>1. \E x \in I : \A y \in I : <<y, x>> \notin OpToRel(<, Nat)
  BY NatLessThanWellFounded, WFMin
<1>2. \E x \in I : \A y \in I : ~(y < x)
  BY <1>1 DEF OpToRel
<1>3. \E x \in I : \A y \in I : x <= y
  BY <1>2
<1>4. QED
  BY <1>3 DEF Min

-----------------------------------------------------------------------------
(* One member unlinked, one put in the place of another, one put in front. *)
LEMMA RemoveAtIs ==
  ASSUME NEW S, NEW s \in Seq(S), NEW k \in 1..Len(s)
  PROVE  /\ RemoveAt(s, k) \in Seq(S) /\ Len(RemoveAt(s, k)) = Len(s) - 1
         /\ \A i \in 1..Len(s) - 1 :
              RemoveAt(s, k)[i] = IF i < k THEN s[i] ELSE s[i + 1]
<1>1. SubSeq(s, 1, k - 1) \in Seq(S) /\ Len(SubSeq(s, 1, k - 1)) = k - 1
  OBVIOUS
<1>2. SubSeq(s, k + 1, Len(s)) \in Seq(S) /\ Len(SubSeq(s, k + 1, Len(s))) = Len(s) - k
  OBVIOUS
<1>3. \A i \in 1..k - 1 : SubSeq(s, 1, k - 1)[i] = s[i]
  OBVIOUS
<1>4. \A i \in 1..Len(s) - k : SubSeq(s, k + 1, Len(s))[i] = s[i + k]
  OBVIOUS
<1> DEFINE a == SubSeq(s, 1, k - 1)
           b == SubSeq(s, k + 1, Len(s))
<1>5. a \in Seq(S) /\ Len(a) = k - 1 /\ \A i \in 1..k - 1 : a[i] = s[i]
  BY <1>1, <1>3
<1>6. /\ b \in Seq(S) /\ Len(b) = Len(s) - k
      /\ \A i \in 1..Len(s) - k : b[i] = s[i + k]
  BY <1>2, <1>4
<1>7. RemoveAt(s, k) = a \o b
  BY DEF RemoveAt
<1> HIDE DEF a, b
<1>8. a \o b \in Seq(S) /\ Len(a \o b) = Len(s) - 1
  <2>1. a \in Seq(S) /\ b \in Seq(S)
    BY <1>5, <1>6
  <2>2. a \o b \in Seq(S) /\ Len(a \o b) = Len(a) + Len(b)
    BY <2>1
  <2>3. QED
    BY <1>5, <1>6, <2>2
<1>9. ASSUME NEW i \in 1..Len(s) - 1
      PROVE  (a \o b)[i] = IF i < k THEN s[i] ELSE s[i + 1]
  <2>1. (a \o b)[i] = IF i <= Len(a) THEN a[i] ELSE b[i - Len(a)]
    BY <1>5, <1>6, <1>8
  <2>2. CASE i < k
    <3>1. i \in 1..k - 1
      BY <2>2
    <3>2. QED
      BY <1>5, <2>1, <2>2, <3>1
  <2>3. CASE ~(i < k)
    <3>1. i - (k - 1) \in 1..Len(s) - k /\ (i - (k - 1)) + k = i + 1
      BY <2>3
    <3>2. QED
      BY <1>5, <1>6, <2>1, <2>3, <3>1
  <2>4. QED
    BY <2>2, <2>3
<1>10. QED
  BY <1>7, <1>8, <1>9

LEMMA PutInFront ==
  ASSUME NEW S, NEW s \in Seq(S), NEW x \in S
  PROVE  /\ <<x>> \o s \in Seq(S) /\ Range(<<x>> \o s) = {x} \cup Range(s)
         /\ IsInjective(s) /\ x \notin Range(s) => IsInjective(<<x>> \o s)
         /\ Len(<<x>> \o s) = Len(s) + 1
         /\ (<<x>> \o s)[1] = x
         /\ \A i \in 1..Len(s) : (<<x>> \o s)[i + 1] = s[i]
<1> DEFINE t == <<x>> \o s
           n == Len(s)
<1>1. <<x>> \in Seq(S) /\ Len(<<x>>) = 1 /\ <<x>>[1] = x
  OBVIOUS
<1>2. n \in Nat /\ DOMAIN s = 1..n
  OBVIOUS
<1>3. t \in Seq(S) /\ Len(t) = n + 1
  BY <1>1
<1>4. t[1] = x /\ \A i \in 1..n : t[i + 1] = s[i]
  BY <1>1, <1>2
<1> HIDE DEF t, n
<1>5. DOMAIN t = 1..n + 1
  BY <1>3
<1>6. \A i \in 1..n + 1 : i = 1 \/ (i - 1 \in 1..n /\ t[i] = s[i - 1])
  <2> SUFFICES ASSUME NEW i \in 1..n + 1, i # 1
               PROVE  i - 1 \in 1..n /\ t[i] = s[i - 1]
    OBVIOUS
  <2>1. i - 1 \in 1..n /\ (i - 1) + 1 = i
    BY <1>2
  <2>2. QED
    BY <1>4, <2>1
<1>7. \A i \in 1..n : i + 1 \in 1..n + 1
  BY <1>2
<1>8. Range(t) = {x} \cup Range(s)
  <2>1. Range(t) \subseteq {x} \cup Range(s)
    <3> SUFFICES ASSUME NEW i \in 1..n + 1 PROVE t[i] = x \/ t[i] \in Range(s)
      BY <1>5 DEF Range
    <3>1. CASE i = 1
      BY <1>4, <3>1
    <3>2. CASE i # 1
      BY <1>2, <1>6, <3>2 DEF Range
    <3>3. QED
      BY <3>1, <3>2
  <2>2. x \in Range(t)
    <3>1. 1 \in 1..n + 1
      BY <1>2
    <3>2. QED
      BY <1>4, <1>5, <3>1 DEF Range
  <2>3. Range(s) \subseteq Range(t)
    BY <1>2, <1>4, <1>5, <1>7 DEF Range
  <2>4. QED
    BY <2>1, <2>2, <2>3
<1>9. ASSUME IsInjective(s), x \notin Range(s) PROVE IsInjective(t)
  <2> SUFFICES ASSUME NEW i \in 1..n + 1, NEW j \in 1..n + 1, t[i] = t[j]
               PROVE  i = j
    BY <1>5 DEF IsInjective
  <2>1. \A k \in 1..n : s[k] # x
    BY <1>2, <1>9 DEF Range
  <2>2. CASE i = 1
    <3>1. t[j] = x
      BY <1>4, <2>2
    <3>2. QED
      BY <1>6, <2>1, <2>2, <3>1
  <2>3. CASE j = 1
    <3>1. t[i] = x
      BY <1>4, <2>3
    <3>2. QED
      BY <1>6, <2>1, <2>3, <3>1
  <2>4. CASE i # 1 /\ j # 1
    <3>1. i - 1 \in 1..n /\ j - 1 \in 1..n /\ s[i - 1] = s[j - 1]
      BY <1>6, <2>4
    <3>2. i - 1 = j - 1
      BY <1>2, <1>9, <3>1 DEF IsInjective
    <3>3. QED
      BY <1>2, <3>2
  <2>5. QED
    BY <2>2, <2>3, <2>4
<1>10. QED
  BY <1>3, <1>4, <1>8, <1>9 DEF t, n

-----------------------------------------------------------------------------
(* How the sweep has dealt with the first i of the chain.                  *)
KeptStep(chain, T, g, i) ==
    IF i = 0 THEN << >>
    ELSE IF chain[i] \in T THEN Append(g[i - 1], chain[i])
    ELSE g[i - 1]

LEMMA SweepExists ==
  ASSUME NEW S, NEW chain \in Seq(S), NEW T
  PROVE  \A n \in Nat : \E g : g = [i \in 0..n |-> KeptStep(chain, T, g, i)]
<1> DEFINE Good == {n \in Nat : \E g : g = [i \in 0..n |-> KeptStep(chain, T, g, i)]}
<1>1. 0 \in Good
  <2> DEFINE g == [i \in 0..0 |-> << >>]
  <2>1. g = [i \in 0..0 |-> KeptStep(chain, T, g, i)]
    BY DEF KeptStep
  <2>2. QED
    BY <2>1
<1>2. ASSUME NEW n \in Nat, n \in Good PROVE n + 1 \in Good
  <2>1. PICK g : g = [i \in 0..n |-> KeptStep(chain, T, g, i)]
    BY <1>2
  <2> DEFINE h == [i \in 0..n + 1 |-> IF i = n + 1 THEN KeptStep(chain, T, g, i) ELSE g[i]]
  <2>2. ASSUME NEW i \in 0..n + 1 PROVE h[i] = KeptStep(chain, T, h, i)
    <3>1. CASE i = n + 1
      <4>1. i # 0 /\ h[i - 1] = g[i - 1] /\ h[i] = KeptStep(chain, T, g, i)
        BY <3>1
      <4> HIDE DEF h
      <4>2. QED
        BY <4>1 DEF KeptStep
    <3>2. CASE i # n + 1
      <4>1. i \in 0..n /\ h[i] = g[i] /\ (i # 0 => h[i - 1] = g[i - 1])
        BY <3>2
      <4>2. g[i] = KeptStep(chain, T, g, i)
        BY <2>1, <4>1
      <4> HIDE DEF h
      <4>3. QED
        BY <4>1, <4>2 DEF KeptStep
    <3>3. QED
      BY <3>1, <3>2
  <2>3. h = [i \in 0..n + 1 |-> KeptStep(chain, T, h, i)]
    <3> DEFINE k == [i \in 0..n + 1 |-> KeptStep(chain, T, h, i)]
    <3>1. h = [i \in 0..n + 1 |-> h[i]]
      OBVIOUS
    <3> HIDE DEF h
    <3>2. QED
      BY <2>2, <3>1
  <2> HIDE DEF h
  <2>4. QED
    BY <2>3
<1> HIDE DEF Good
<1>3. \A n \in Nat : n \in Good
  BY <1>1, <1>2, Induction
<1>4. QED
  BY <1>3 DEF Good

(* s holds just the members of T among the first i of the chain, each      *)
(* where it stood relative to the others: f says from which place each     *)
(* has come.                                                               *)
Embeds(s, chain, T, i, f) ==
    /\ f \in [1..Len(s) -> 1..i]
    /\ \A k \in 1..Len(s) : s[k] = chain[f[k]] /\ chain[f[k]] \in T
    /\ \A k, l \in 1..Len(s) : k < l => f[k] < f[l]
    /\ \A j \in 1..i : chain[j] \in T => \E k \in 1..Len(s) : f[k] = j

LEMMA EmbedsNext ==
  ASSUME NEW S, NEW s \in Seq(S), NEW chain, NEW T, NEW i \in Nat, NEW f,
         Embeds(s, chain, T, i, f), chain[i + 1] \in S, chain[i + 1] \in T
  PROVE  \E h : Embeds(Append(s, chain[i + 1]), chain, T, i + 1, h)
<1> DEFINE m == Len(s)
           t == Append(s, chain[i + 1])
           h == [k \in 1..m + 1 |-> IF k = m + 1 THEN i + 1 ELSE f[k]]
<1>1. m \in Nat
  OBVIOUS
<1>2. Len(t) = m + 1 /\ t[m + 1] = chain[i + 1] /\ \A k \in 1..m : t[k] = s[k]
  BY <1>1
<1>3. f \in [1..m -> 1..i]
  BY DEF Embeds
<1> HIDE DEF m, t
<1>4. h[m + 1] = i + 1
  BY <1>1
<1>5. \A k \in 1..m : h[k] = f[k] /\ f[k] \in 1..i
  BY <1>1, <1>3
<1>6. h \in [1..m + 1 -> 1..i + 1]
  BY <1>1, <1>3
<1>7. \A k \in 1..m + 1 : k = m + 1 \/ k \in 1..m
  BY <1>1
<1> HIDE DEF h
<1>8. ASSUME NEW k \in 1..m + 1
      PROVE  t[k] = chain[h[k]] /\ chain[h[k]] \in T
  BY <1>2, <1>4, <1>5, <1>7 DEF Embeds, m
<1>9. ASSUME NEW k \in 1..m + 1, NEW l \in 1..m + 1, k < l
      PROVE  h[k] < h[l]
  <2>1. k \in 1..m
    BY <1>1, <1>9
  <2>2. CASE l = m + 1
    BY <1>4, <1>5, <2>1, <2>2
  <2>3. CASE l \in 1..m
    BY <1>5, <1>9, <2>1, <2>3 DEF Embeds, m
  <2>4. QED
    BY <1>7, <2>2, <2>3
<1>10. ASSUME NEW j \in 1..i + 1, chain[j] \in T
       PROVE  \E k \in 1..m + 1 : h[k] = j
  <2>1. CASE j = i + 1
    BY <1>1, <1>4, <2>1
  <2>2. CASE j \in 1..i
    <3>1. PICK k \in 1..m : f[k] = j
      BY <1>10, <2>2 DEF Embeds, m
    <3>2. k \in 1..m + 1
      BY <1>1
    <3>3. QED
      BY <1>5, <3>1, <3>2
  <2>3. QED
    BY <2>1, <2>2
<1>11. Embeds(t, chain, T, i + 1, h)
  BY <1>2, <1>6, <1>8, <1>9, <1>10 DEF Embeds
<1>12. QED
  BY <1>11 DEF t

LEMMA KeptEmbeds ==
  ASSUME NEW S, NEW chain \in Seq(S), NEW T
  PROVE  /\ Kept(chain, T) \in Seq(S)
         /\ \E f : Embeds(Kept(chain, T), chain, T, Len(chain), f)
<1> DEFINE n == Len(chain)
           g == CHOOSE g : g = [i \in 0..n |-> KeptStep(chain, T, g, i)]
           Good == {i \in Nat : i <= n =>
                      /\ g[i] \in Seq(S)
                      /\ \E f : Embeds(g[i], chain, T, i, f)}
<1>1. n \in Nat /\ \A i \in 1..n : chain[i] \in S
  OBVIOUS
<1>2. g = [i \in 0..n |-> KeptStep(chain, T, g, i)]
  BY <1>1, SweepExists
<1>3. Kept(chain, T) = g[n]
  BY DEF Kept, KeptStep
<1> HIDE DEF g, n
<1>4. 0 \in Good
  <2>1. g[0] = << >>
    BY <1>1, <1>2 DEF KeptStep
  <2>2. Embeds(<< >>, chain, T, 0, << >>)
    BY DEF Embeds
  <2>3. g[0] \in Seq(S)
    BY <2>1
  <2>4. \E f : Embeds(g[0], chain, T, 0, f)
    BY <2>1, <2>2, Zenon
  <2>5. QED
    BY <2>3, <2>4
<1>5. ASSUME NEW i \in Nat, i \in Good PROVE i + 1 \in Good
  <2> SUFFICES ASSUME i + 1 <= n
               PROVE  /\ g[i + 1] \in Seq(S)
                      /\ \E f : Embeds(g[i + 1], chain, T, i + 1, f)
    OBVIOUS
  <2>1. g[i] \in Seq(S) /\ \E f : Embeds(g[i], chain, T, i, f)
    BY <1>1, <1>5
  <2>2. i + 1 \in 1..n /\ i + 1 \in 0..n /\ i + 1 # 0 /\ (i + 1) - 1 = i
    BY <1>1
  <2>3. g[i + 1] = IF chain[i + 1] \in T THEN Append(g[i], chain[i + 1]) ELSE g[i]
    BY <1>2, <2>2 DEF KeptStep
  <2>4. CASE chain[i + 1] \notin T
    <3>1. PICK f : Embeds(g[i], chain, T, i, f)
      BY <2>1
    <3>2. \A j \in 1..i + 1 : j \in 1..i \/ j = i + 1
      OBVIOUS
    <3>3. 1..i \subseteq 1..i + 1
      OBVIOUS
    <3>4. Embeds(g[i], chain, T, i + 1, f)
      BY <2>4, <3>1, <3>2, <3>3 DEF Embeds
    <3>5. g[i + 1] = g[i]
      BY <2>3, <2>4
    <3>6. QED
      BY <2>1, <3>4, <3>5
  <2>5. CASE chain[i + 1] \in T
    <3>1. g[i + 1] = Append(g[i], chain[i + 1]) /\ chain[i + 1] \in S
      BY <1>1, <2>2, <2>3, <2>5
    <3>2. \E h : Embeds(Append(g[i], chain[i + 1]), chain, T, i + 1, h)
      BY <2>1, <2>5, <3>1, EmbedsNext
    <3>3. Append(g[i], chain[i + 1]) \in Seq(S)
      BY <2>1, <3>1
    <3>4. QED
      BY <3>1, <3>2, <3>3
  <2>6. QED
    BY <2>4, <2>5
<1> HIDE DEF Good
<1>6. n \in Good
  BY <1>1, <1>4, <1>5, Induction
<1>7. g[n] \in Seq(S) /\ \E f : Embeds(g[n], chain, T, n, f)
  BY <1>1, <1>6 DEF Good
<1>8. QED
  BY <1>3, <1>7 DEF n

(* Nothing else is lost, and nothing is doubled.                           *)
LEMMA KeptRange ==
  ASSUME NEW S, NEW chain \in Seq(S), NEW T
  PROVE  /\ Kept(chain, T) \in Seq(S)
         /\ Range(Kept(chain, T)) = Range(chain) \cap T
         /\ IsInjective(chain) => IsInjective(Kept(chain, T))
<1> DEFINE s == Kept(chain, T)
<1>1. s \in Seq(S) /\ \E f : Embeds(s, chain, T, Len(chain), f)
  BY KeptEmbeds
<1>2. PICK f : Embeds(s, chain, T, Len(chain), f)
  BY <1>1
<1> HIDE DEF s
<1>3. DOMAIN s = 1..Len(s) /\ DOMAIN chain = 1..Len(chain) /\ Len(s) \in Nat
  BY <1>1
<1>4. Range(s) \subseteq Range(chain) \cap T
  BY <1>2, <1>3 DEF Embeds, Range
<1>5. Range(chain) \cap T \subseteq Range(s)
  <2> SUFFICES ASSUME NEW j \in 1..Len(chain), chain[j] \in T
               PROVE  \E k \in 1..Len(s) : s[k] = chain[j]
    BY <1>3 DEF Range
  <2>1. PICK k \in 1..Len(s) : f[k] = j
    BY <1>2 DEF Embeds
  <2>2. QED
    BY <1>2, <2>1 DEF Embeds
<1>6. ASSUME IsInjective(chain) PROVE IsInjective(s)
  <2> SUFFICES ASSUME NEW k \in 1..Len(s), NEW l \in 1..Len(s), k < l, s[k] = s[l]
               PROVE  FALSE
    BY <1>3 DEF IsInjective
  <2>1. f[k] < f[l] /\ f[k] \in 1..Len(chain) /\ f[l] \in 1..Len(chain)
    BY <1>2 DEF Embeds
  <2>2. chain[f[k]] = chain[f[l]]
    BY <1>2 DEF Embeds
  <2>3. f[k] = f[l]
    BY <1>3, <1>6, <2>1, <2>2 DEF IsInjective
  <2>4. QED
    BY <1>1, <2>1, <2>3
<1>7. QED
  BY <1>1, <1>4, <1>5, <1>6 DEF s

(* x is not behind y in the chain.                                         *)
Before(chain, x, y) ==
    \E k, l \in DOMAIN chain : k <= l /\ chain[k] = x /\ chain[l] = y

(* A sweep keeps the order of what it keeps.                               *)
LEMMA KeptOrder ==
  ASSUME NEW S, NEW chain \in Seq(S), NEW T, NEW x \in T, NEW y \in T
  PROVE  Before(Kept(chain, T), x, y) <=> Before(chain, x, y)
<1> DEFINE s == Kept(chain, T)
           n == Len(chain)
           m == Len(s)
<1>1. s \in Seq(S) /\ n \in Nat /\ m \in Nat /\ DOMAIN s = 1..m /\ DOMAIN chain = 1..n
  BY KeptEmbeds
<1>2. PICK f : Embeds(s, chain, T, n, f)
  BY KeptEmbeds
<1> HIDE DEF s, n, m
<1>3. /\ \A k \in 1..m : f[k] \in 1..n /\ s[k] = chain[f[k]]
      /\ \A k, l \in 1..m : k < l => f[k] < f[l]
      /\ \A j \in 1..n : chain[j] \in T => \E k \in 1..m : f[k] = j
  BY <1>2 DEF Embeds, m
<1>4. ASSUME Before(s, x, y) PROVE Before(chain, x, y)
  <2>1. PICK k, l \in 1..m : k <= l /\ s[k] = x /\ s[l] = y
    BY <1>1, <1>4 DEF Before
  <2>2. f[k] <= f[l]
    <3>1. k = l \/ k < l
      BY <1>1, <2>1
    <3>2. f[k] \in Int /\ f[l] \in Int
      BY <1>1, <1>3
    <3>3. QED
      BY <1>3, <3>1, <3>2
  <2>3. QED
    BY <1>1, <1>3, <2>1, <2>2 DEF Before
<1>5. ASSUME Before(chain, x, y) PROVE Before(s, x, y)
  <2>1. PICK i, j \in 1..n : i <= j /\ chain[i] = x /\ chain[j] = y
    BY <1>1, <1>5 DEF Before
  <2>2. PICK k, l \in 1..m : f[k] = i /\ f[l] = j
    BY <1>3, <2>1
  <2>3. k <= l
    <3>1. l < k \/ k <= l
      BY <1>1
    <3>2. l < k => f[l] < f[k]
      BY <1>3
    <3>3. ~(j < i)
      BY <1>1, <2>1
    <3>4. QED
      BY <2>2, <3>1, <3>2, <3>3
  <2>4. QED
    BY <1>1, <1>3, <2>1, <2>2, <2>3 DEF Before
<1>6. QED
  BY <1>4, <1>5 DEF s

(* One more at the end.                                                    *)
LEMMA PutBehind ==
  ASSUME NEW S, NEW s \in Seq(S), NEW x \in S
  PROVE  /\ Append(s, x) \in Seq(S) /\ Range(Append(s, x)) = Range(s) \cup {x}
         /\ IsInjective(s) /\ x \notin Range(s) => IsInjective(Append(s, x))
<1> DEFINE n == Len(s)
           t == Append(s, x)
<1>1. n \in Nat /\ DOMAIN s = 1..n /\ t \in Seq(S) /\ DOMAIN t = 1..n + 1
  OBVIOUS
<1>2. t[n + 1] = x /\ \A i \in 1..n : t[i] = s[i]
  OBVIOUS
<1> HIDE DEF n, t
<1>3. \A i \in 1..n + 1 : i = n + 1 \/ i \in 1..n
  BY <1>1
<1>4. n + 1 \in 1..n + 1 /\ n + 1 \notin 1..n /\ 1..n \subseteq 1..n + 1
  BY <1>1
<1>5. Range(t) = Range(s) \cup {x}
  BY <1>1, <1>2, <1>3, <1>4 DEF Range
<1>6. ASSUME IsInjective(s), x \notin Range(s) PROVE IsInjective(t)
  BY <1>1, <1>2, <1>3, <1>4, <1>6 DEF IsInjective, Range
<1>7. QED
  BY <1>1, <1>5, <1>6 DEF t
=============================================================================
