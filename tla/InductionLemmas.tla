--------------------------- MODULE InductionLemmas ---------------------------
(****************************************************************************)
(* Induction over the natural numbers, as a statement about the members of  *)
(* a set, and what follows from it: the ends of a set of numbers, and       *)
(* sequences that are joined or filtered.                                   *)
(****************************************************************************)
EXTENDS Subsequences, Integers, FiniteSets, FiniteSetTheorems, SequenceTheorems, TLAPS

\* A set that holds zero, and the successor of every number it holds, holds all
\* of them: among the numbers it lacks none could be the first.
THEOREM SetInduction ==
  ASSUME NEW S, 0 \in S, \A n \in Nat : n \in S => n + 1 \in S
  PROVE  \A n \in Nat : n \in S
<1> DEFINE Bad == {n \in Nat : n \notin S}
           Upto == {0 .. n : n \in Bad}
           R == StrictSubsetOrdering(Nat)
<1>1. SUFFICES ASSUME Bad # {} PROVE FALSE
  OBVIOUS
<1>2. Upto \subseteq FiniteSubsetsOf(Nat)
  <2>1. \A n \in Nat : IsFiniteSet(0 .. n)
    BY FS_Interval
  <2> QED
    BY <2>1 DEF FiniteSubsetsOf
<1>3. Upto # {}
  BY <1>1
<1>4. IsWellFoundedOn(R, FiniteSubsetsOf(Nat))
  BY FS_StrictSubsetOrderingWellFounded
<1>5. \E X \in Upto : \A Y \in Upto : ~ (<<Y, X>> \in R)
  <2> HIDE DEF R, Upto
  <2> QED
    BY <1>2, <1>3, <1>4, WFMin
<1>6. PICK m \in Bad : \A n \in Bad : <<0 .. n, 0 .. m>> \notin R
  BY <1>5
<1>7. m # 0 /\ m - 1 \in Nat
  BY <1>6
<1>8. m - 1 \notin S
  BY <1>6, <1>7
<1>9. 0 .. m - 1 \subseteq 0 .. m /\ 0 .. m - 1 # 0 .. m
  <2>1. m \in 0 .. m /\ m \notin 0 .. m - 1
    BY <1>6
  <2> QED
    BY <2>1, <1>7
<1>10. <<0 .. m - 1, 0 .. m>> \in R
  BY <1>7, <1>9, <1>6 DEF StrictSubsetOrdering
<1> QED
  BY <1>6, <1>7, <1>8, <1>10

\* A set of positive numbers up to n, unless it is empty, has a largest member.
THEOREM LargestExists ==
  ASSUME NEW n \in Nat, NEW I \in SUBSET (1 .. n), I # {}
  PROVE  \E m \in I : \A i \in I : i <= m
<1> DEFINE Has(k) == \A J \in SUBSET (1 .. k) : J # {} => \E m \in J : \A i \in J : i <= m
           S == {k \in Nat : Has(k)}
<1>1. 0 \in S
  <2>1. 1 .. 0 = {}
    OBVIOUS
  <2> QED
    BY <2>1
<1>2. ASSUME NEW k \in Nat, k \in S PROVE k + 1 \in S
  <2> SUFFICES ASSUME NEW J \in SUBSET (1 .. k + 1), J # {}
               PROVE  \E m \in J : \A i \in J : i <= m
    OBVIOUS
  <2>1. CASE k + 1 \in J
    BY <2>1
  <2>2. CASE k + 1 \notin J
    <3>1. J \in SUBSET (1 .. k)
      BY <2>2
    <3> QED
      BY <1>2, <3>1
  <2> QED
    BY <2>1, <2>2
<1>3. \A k \in Nat : k \in S
  <2> HIDE DEF S
  <2> QED
    BY <1>1, <1>2, SetInduction
<1> QED
  BY <1>3

\* A set of natural numbers that is not empty has a smallest member.
THEOREM SmallestExists ==
  ASSUME NEW I \in SUBSET Nat, I # {}
  PROVE  \E m \in I : \A i \in I : m <= i
<1> DEFINE S == {k \in Nat : \A i \in 0 .. k : i \notin I}
<1> SUFFICES ASSUME ~ \E m \in I : \A i \in I : m <= i PROVE FALSE
  OBVIOUS
<1>1. 0 \in S
  OBVIOUS
<1>2. ASSUME NEW k \in Nat, k \in S PROVE k + 1 \in S
  <2>1. k + 1 \notin I
    <3> SUFFICES ASSUME k + 1 \in I PROVE FALSE
      OBVIOUS
    <3>1. \A i \in I : k + 1 <= i
      BY <1>2
    <3> QED
      BY <3>1
  <2> QED
    BY <1>2, <2>1
<1>3. \A k \in Nat : k \in S
  <2> HIDE DEF S
  <2> QED
    BY <1>1, <1>2, SetInduction
<1>4. PICK k \in I : TRUE
  OBVIOUS
<1>5. k \in Nat /\ k \in 0 .. k /\ k \in S
  BY <1>3
<1> QED
  BY <1>4, <1>5

-----------------------------------------------------------------------------
(* Sequences that are joined, and the part of one at given places.          *)

\* FlattenSeq appends one sequence after the other.
LEMMA FlattenSteps ==
  ASSUME NEW Q, NEW seqs \in Seq(Q), seqs # <<>>
  PROVE  \E g : /\ DOMAIN g = 1 .. Len(seqs)
                /\ \A i \in 1 .. Len(seqs) : g[i] = IF i = 1 THEN seqs[i] ELSE g[i - 1] \o seqs[i]
                /\ FlattenSeq(seqs) = g[Len(seqs)]
<1>1. PICK n \in Nat \ {0} : n = Len(seqs)
  OBVIOUS
<1> DEFINE Rec(g, k) == /\ DOMAIN g = 1 .. k
                        /\ \A i \in 1 .. k : g[i] = IF i = 1 THEN seqs[i] ELSE g[i - 1] \o seqs[i]
           S == {k \in Nat : \E g : Rec(g, k)}
<1>2. 0 \in S
  <2>1. Rec([i \in 1 .. 0 |-> i], 0)
    OBVIOUS
  <2> QED
    BY <2>1
<1>3. ASSUME NEW k \in Nat, k \in S PROVE k + 1 \in S
  <2>1. PICK g : Rec(g, k)
    BY <1>3
  <2>2. PICK h : h = [i \in 1 .. k + 1 |-> IF i <= k THEN g[i]
                        ELSE IF i = 1 THEN seqs[i] ELSE g[i - 1] \o seqs[i]]
    OBVIOUS
  <2>3. ASSUME NEW i \in 1 .. k + 1
        PROVE  h[i] = IF i = 1 THEN seqs[i] ELSE h[i - 1] \o seqs[i]
    <3>1. CASE i <= k
      <4>1. i \in 1 .. k /\ h[i] = g[i]
        BY <2>2, <3>1
      <4>2. i # 1 => i - 1 \in 1 .. k + 1 /\ i - 1 <= k
        BY <4>1
      <4>3. i # 1 => h[i - 1] = g[i - 1]
        BY <2>2, <4>2
      <4> QED
        BY <2>1, <4>1, <4>3
    <3>2. CASE ~(i <= k)
      <4>1. i = k + 1 /\ h[i] = IF i = 1 THEN seqs[i] ELSE g[i - 1] \o seqs[i]
        BY <2>2, <3>2
      <4>2. i # 1 => i - 1 \in 1 .. k + 1 /\ i - 1 <= k
        BY <4>1
      <4>3. i # 1 => h[i - 1] = g[i - 1]
        BY <2>2, <4>2
      <4> QED
        BY <4>1, <4>3
    <3> QED
      BY <3>1, <3>2
  <2>4. Rec(h, k + 1)
    BY <2>2, <2>3
  <2>5. \E x : Rec(x, k + 1)
    BY <2>4
  <2> HIDE DEF Rec
  <2> QED
    BY <2>5
<1>4. n \in S
  <2> HIDE DEF S
  <2> QED
    BY <1>2, <1>3, SetInduction
<1>5. PICK g : Rec(g, n)
  BY <1>4
<1>6. PICK f : f = CHOOSE h : h = [i \in 1 .. n |-> IF i = 1 THEN seqs[i] ELSE h[i - 1] \o seqs[i]]
  OBVIOUS
<1>7. \E h : h = [i \in 1 .. n |-> IF i = 1 THEN seqs[i] ELSE h[i - 1] \o seqs[i]]
  <2>1. PICK h : h = [i \in 1 .. n |-> g[i]]
    OBVIOUS
  <2>2. ASSUME NEW i \in 1 .. n
        PROVE  h[i] = IF i = 1 THEN seqs[i] ELSE h[i - 1] \o seqs[i]
    <3>1. h[i] = g[i] /\ (i # 1 => h[i - 1] = g[i - 1])
      BY <2>1
    <3> QED
      BY <1>5, <3>1
  <2>3. h = [i \in 1 .. n |-> IF i = 1 THEN seqs[i] ELSE h[i - 1] \o seqs[i]]
    BY <2>1, <2>2
  <2> QED
    BY <2>3
<1>8. f = [i \in 1 .. n |-> IF i = 1 THEN seqs[i] ELSE f[i - 1] \o seqs[i]]
  BY <1>6, <1>7
<1>9. FlattenSeq(seqs) = f[n]
  BY <1>1, <1>6 DEF FlattenSeq
<1> QED
  BY <1>1, <1>8, <1>9

\* What holds of every sequence, and of two of them joined, holds of all joined.
THEOREM FlattenIn ==
  ASSUME NEW L, \A s, t \in L : s \o t \in L, NEW seqs \in Seq(L), seqs # <<>>
  PROVE  FlattenSeq(seqs) \in L
<1>1. PICK g : /\ DOMAIN g = 1 .. Len(seqs)
               /\ \A i \in 1 .. Len(seqs) : g[i] = IF i = 1 THEN seqs[i] ELSE g[i - 1] \o seqs[i]
               /\ FlattenSeq(seqs) = g[Len(seqs)]
  BY FlattenSteps
<1>2. PICK n \in Nat \ {0} : n = Len(seqs)
  OBVIOUS
<1>3. \A i \in 1 .. n : seqs[i] \in L
  BY <1>2
<1> DEFINE S == {k \in Nat : k \in 1 .. n => g[k] \in L}
<1>4. 0 \in S
  OBVIOUS
<1>5. ASSUME NEW k \in Nat, k \in S PROVE k + 1 \in S
  <2> SUFFICES ASSUME k + 1 \in 1 .. n PROVE g[k + 1] \in L
    OBVIOUS
  <2>1. CASE k = 0
    <3>1. k + 1 = 1 /\ 1 \in 1 .. n
      BY <2>1
    <3>2. g[1] = seqs[1]
      BY <1>1, <1>2, <3>1
    <3> QED
      BY <1>3, <3>1, <3>2
  <2>2. CASE k # 0
    <3>1. k \in 1 .. n /\ g[k] \in L /\ seqs[k + 1] \in L
      BY <1>3, <1>5, <2>2
    <3>2. k + 1 # 1 /\ (k + 1) - 1 = k
      BY <2>2
    <3>3. g[k + 1] = g[k] \o seqs[k + 1]
      BY <1>1, <1>2, <3>2
    <3> QED
      BY <3>1, <3>3
  <2> QED
    BY <2>1, <2>2
<1>6. \A k \in Nat : k \in S
  <2> HIDE DEF S
  <2> QED
    BY <1>4, <1>5, SetInduction
<1>7. n \in S /\ n \in 1 .. n
  BY <1>6
<1> QED
  BY <1>1, <1>2, <1>7

-----------------------------------------------------------------------------
\* t is s at the places J, in their order.
Enumerates(t, s, J) ==
  \E f \in [1 .. Len(t) -> J] :
    /\ \A k, l \in 1 .. Len(t) : k < l => f[k] < f[l]
    /\ \A i \in J : \E k \in 1 .. Len(t) : f[k] = i
    /\ \A k \in 1 .. Len(t) : t[k] = s[f[k]]

\* One place more, behind all the others.
LEMMA OneMore ==
  ASSUME NEW E, NEW t \in Seq(E), NEW s, NEW J \in SUBSET Nat, Enumerates(t, s, J),
         NEW i \in Nat, \A j \in J : j < i, s[i] \in E
  PROVE  t \o <<s[i]>> \in Seq(E) /\ Enumerates(t \o <<s[i]>>, s, J \cup {i})
<1>1. PICK u : u = t \o <<s[i]>>
  OBVIOUS
<1>2. PICK n \in Nat : n = Len(t)
  OBVIOUS
<1>3. /\ u \in Seq(E) /\ Len(u) = n + 1 /\ u[n + 1] = s[i]
      /\ \A k \in 1 .. n : u[k] = t[k]
  <2>1. <<s[i]>> \in Seq(E) /\ Len(<<s[i]>>) = 1 /\ <<s[i]>>[1] = s[i]
    OBVIOUS
  <2> QED
    BY <1>1, <1>2, <2>1, ConcatProperties
<1>4. PICK f \in [1 .. n -> J] :
        /\ \A k, l \in 1 .. n : k < l => f[k] < f[l]
        /\ \A j \in J : \E k \in 1 .. n : f[k] = j
        /\ \A k \in 1 .. n : t[k] = s[f[k]]
  BY <1>2 DEF Enumerates
<1>5. PICK h : h = [k \in 1 .. n + 1 |-> IF k = n + 1 THEN i ELSE f[k]]
  OBVIOUS
<1>6. 1 .. n + 1 = (1 .. n) \cup {n + 1} /\ n + 1 \notin 1 .. n
  OBVIOUS
<1>7. h[n + 1] = i /\ \A k \in 1 .. n : h[k] = f[k] /\ f[k] \in J
  BY <1>4, <1>5, <1>6
<1>8. h \in [1 .. n + 1 -> J \cup {i}]
  BY <1>5, <1>6, <1>7
<1>9. \A k, l \in 1 .. n + 1 : k < l => h[k] < h[l]
  <2> SUFFICES ASSUME NEW k \in 1 .. n + 1, NEW l \in 1 .. n + 1, k < l PROVE h[k] < h[l]
    OBVIOUS
  <2>1. k \in 1 .. n
    OBVIOUS
  <2>2. CASE l \in 1 .. n
    BY <1>4, <1>7, <2>1, <2>2
  <2>3. CASE l = n + 1
    BY <1>7, <2>1, <2>3
  <2> QED
    BY <1>6, <2>2, <2>3
<1>10. \A j \in J \cup {i} : \E k \in 1 .. n + 1 : h[k] = j
  <2> TAKE j \in J \cup {i}
  <2>1. CASE j = i
    BY <1>6, <1>7, <2>1
  <2>2. CASE j \in J
    <3>1. PICK k \in 1 .. n : f[k] = j
      BY <1>4, <2>2
    <3> QED
      BY <1>6, <1>7, <3>1
  <2> QED
    BY <2>1, <2>2
<1>11. \A k \in 1 .. n + 1 : u[k] = s[h[k]]
  BY <1>3, <1>4, <1>6, <1>7
<1>12. Enumerates(u, s, J \cup {i})
  <2>1. 1 .. Len(u) = 1 .. n + 1
    BY <1>3
  <2>2. /\ h \in [1 .. Len(u) -> J \cup {i}]
        /\ \A k, l \in 1 .. Len(u) : k < l => h[k] < h[l]
        /\ \A j \in J \cup {i} : \E k \in 1 .. Len(u) : h[k] = j
        /\ \A k \in 1 .. Len(u) : u[k] = s[h[k]]
    BY <1>8, <1>9, <1>10, <1>11, <2>1
  <2> QED
    BY <2>2, Zenon DEF Enumerates
<1> QED
  BY <1>1, <1>3, <1>12

\* What is picked from a sequence stands at the places asked for, each once and
\* in their order.
THEOREM PickedPlaces ==
  ASSUME NEW E, NEW s \in Seq(E), NEW I
  PROVE  Picked(s, I) \in Seq(E) /\ Enumerates(Picked(s, I), s, I \cap DOMAIN s)
<1>0. Len(<<>>) = 0 /\ <<>> \in Seq(E) /\ Enumerates(<<>>, s, {})
  <2>1. Len(<<>>) = 0 /\ <<>> \in Seq(E) /\ 1 .. 0 = {}
    OBVIOUS
  <2>2. [k \in {} |-> k] \in [{} -> {}]
    OBVIOUS
  <2> QED
    BY <2>1, <2>2 DEF Enumerates
<1>1. PICK seqs : seqs = [i \in DOMAIN s |-> IF i \in I THEN <<s[i]>> ELSE <<>>]
  OBVIOUS
<1>2. PICK n \in Nat : n = Len(s) /\ DOMAIN s = 1 .. n /\ \A i \in 1 .. n : s[i] \in E
  OBVIOUS
<1>3. seqs \in Seq(Seq(E)) /\ Len(seqs) = n
  <2>1. \A i \in 1 .. n : seqs[i] \in Seq(E)
    BY <1>0, <1>1, <1>2
  <2> QED
    BY <1>1, <1>2, <2>1
<1>4. Picked(s, I) = FlattenSeq(seqs)
  BY <1>1 DEF Picked
<1>5. CASE n = 0
  <2>1. seqs = <<>>
    BY <1>3, <1>5
  <2>2. FlattenSeq(seqs) = <<>>
    BY <1>3, <1>5, <2>1 DEF FlattenSeq
  <2>3. I \cap DOMAIN s = {}
    BY <1>2, <1>5
  <2> QED
    BY <1>0, <1>4, <2>2, <2>3
<1>6. CASE n # 0
  <2>1. seqs # <<>>
    BY <1>0, <1>3, <1>6
  <2>2. PICK g : /\ DOMAIN g = 1 .. n
                 /\ \A i \in 1 .. n : g[i] = IF i = 1 THEN seqs[i] ELSE g[i - 1] \o seqs[i]
                 /\ FlattenSeq(seqs) = g[n]
    BY <1>3, <2>1, FlattenSteps
  <2> DEFINE Good(k) == g[k] \in Seq(E) /\ Enumerates(g[k], s, I \cap (1 .. k))
             S == {k \in Nat : k \in 1 .. n => Good(k)}
  <2>3. ASSUME NEW k \in 1 .. n, NEW t \in Seq(E), Enumerates(t, s, I \cap (1 .. k - 1)),
               g[k] = t \o seqs[k]
        PROVE  Good(k)
    <3>1. 1 .. k = (1 .. k - 1) \cup {k} /\ k \in Nat /\ s[k] \in E
      BY <1>2
    <3>2. CASE k \in I
      <4>1. g[k] = t \o <<s[k]>>
        BY <1>1, <1>2, <2>3, <3>2
      <4>2. I \cap (1 .. k) = (I \cap (1 .. k - 1)) \cup {k}
        BY <3>1, <3>2
      <4>3. I \cap (1 .. k - 1) \in SUBSET Nat /\ \A j \in I \cap (1 .. k - 1) : j < k
        BY <3>1
      <4>4. PICK J \in SUBSET Nat : J = I \cap (1 .. k - 1)
        BY <4>3
      <4>5. t \o <<s[k]>> \in Seq(E) /\ Enumerates(t \o <<s[k]>>, s, J \cup {k})
        BY <2>3, <3>1, <4>3, <4>4, OneMore
      <4> QED
        BY <4>1, <4>2, <4>4, <4>5
    <3>3. CASE k \notin I
      <4>1. g[k] = t \o <<>>
        BY <1>1, <1>2, <2>3, <3>3
      <4>2. g[k] = t
        BY <2>3, <4>1
      <4>3. I \cap (1 .. k) = I \cap (1 .. k - 1)
        BY <3>1, <3>3
      <4> QED
        BY <2>3, <4>2, <4>3
    <3> QED
      BY <3>2, <3>3
  <2>4. ASSUME NEW k \in Nat, k \in S, k + 1 \in 1 .. n PROVE Good(k + 1)
    <3>1. CASE k = 0
      <4>1. g[1] = seqs[1] /\ seqs[1] \in Seq(E)
        BY <1>3, <2>2, <2>4, <3>1
      <4>2. seqs[1] = <<>> \o seqs[1]
        BY <4>1
      <4>3. I \cap (1 .. 1 - 1) = {} /\ 1 \in 1 .. n /\ k + 1 = 1
        BY <2>4, <3>1
      <4> HIDE DEF Good
      <4>4. Good(1)
        BY <1>0, <2>3, <4>1, <4>2, <4>3
      <4> QED
        BY <4>3, <4>4
    <3>2. CASE k # 0
      <4>1. k \in 1 .. n /\ Good(k)
        BY <2>4, <3>2
      <4>2. k + 1 # 1 /\ (k + 1) - 1 = k
        BY <3>2
      <4>3. g[k + 1] = g[k] \o seqs[k + 1]
        BY <2>2, <2>4, <4>2
      <4>4. g[k] \in Seq(E) /\ Enumerates(g[k], s, I \cap (1 .. (k + 1) - 1))
        BY <4>1, <4>2
      <4> HIDE DEF Good
      <4> QED
        BY <2>3, <2>4, <4>3, <4>4
    <3> QED
      BY <3>1, <3>2
  <2>5. 0 \in S
    OBVIOUS
  <2>6. \A k \in Nat : k \in S => k + 1 \in S
    <3> HIDE DEF Good
    <3> QED
      BY <2>4
  <2>7. \A k \in Nat : k \in S
    <3> HIDE DEF S
    <3> QED
      BY <2>5, <2>6, SetInduction
  <2>8. Good(n)
    <3> HIDE DEF Good
    <3>1. n \in S /\ n \in 1 .. n
      <4> HIDE DEF S
      <4> QED
        BY <1>6, <2>7
    <3> QED
      BY <3>1
  <2> QED
    BY <1>2, <1>4, <2>2, <2>8
<1> QED
  BY <1>5, <1>6

\* These are its members.
LEMMA PickedMembers ==
  ASSUME NEW E, NEW s \in Seq(E), NEW I
  PROVE  ToSet(Picked(s, I)) = {s[i] : i \in I \cap DOMAIN s}
<1>1. PICK t : t = Picked(s, I)
  OBVIOUS
<1>2. t \in Seq(E) /\ Enumerates(t, s, I \cap DOMAIN s)
  BY <1>1, PickedPlaces
<1>3. PICK f \in [1 .. Len(t) -> I \cap DOMAIN s] :
        /\ \A i \in I \cap DOMAIN s : \E k \in 1 .. Len(t) : f[k] = i
        /\ \A k \in 1 .. Len(t) : t[k] = s[f[k]]
  BY <1>2 DEF Enumerates
<1>4. DOMAIN t = 1 .. Len(t) /\ ToSet(t) = {t[k] : k \in DOMAIN t}
  BY <1>2 DEF ToSet
<1>5. ASSUME NEW x \in ToSet(t) PROVE x \in {s[i] : i \in I \cap DOMAIN s}
  <2>1. PICK k \in 1 .. Len(t) : x = t[k]
    BY <1>4
  <2> QED
    BY <1>3, <2>1
<1>6. ASSUME NEW i \in I \cap DOMAIN s PROVE s[i] \in ToSet(t)
  BY <1>3, <1>4
<1> QED
  BY <1>1, <1>5, <1>6

\* Of the places themselves, those asked for, in order.
LEMMA PlacesInOrder ==
  ASSUME NEW n \in Nat, NEW I \in SUBSET (1 .. n), NEW t, t = Picked([i \in 1 .. n |-> i], I)
  PROVE  /\ t \in Seq(1 .. n) /\ ToSet(t) = I
         /\ \A k, l \in DOMAIN t : k < l => t[k] < t[l]
<1>1. PICK s : s = [i \in 1 .. n |-> i]
  OBVIOUS
<1>2. s \in Seq(1 .. n) /\ DOMAIN s = 1 .. n /\ \A i \in 1 .. n : s[i] = i
  <2>1. DOMAIN s = 1 .. n /\ \A i \in 1 .. n : s[i] = i
    BY <1>1
  <2>2. s \in Seq(1 .. n)
    BY <1>1
  <2> QED
    BY <2>1, <2>2
<1>3. t = Picked(s, I) /\ I \cap DOMAIN s = I
  BY <1>1, <1>2
<1>4. t \in Seq(1 .. n) /\ Enumerates(t, s, I)
  <2>1. Picked(s, I) \in Seq(1 .. n) /\ Enumerates(Picked(s, I), s, I \cap DOMAIN s)
    BY <1>2, PickedPlaces
  <2> QED
    BY <1>3, <2>1
<1>5. ToSet(t) = I
  <2>1. ToSet(Picked(s, I)) = {s[i] : i \in I \cap DOMAIN s}
    BY <1>2, PickedMembers
  <2>2. ToSet(t) = {s[i] : i \in I}
    BY <1>3, <2>1
  <2>3. \A i \in I : s[i] = i
    BY <1>2
  <2>4. {s[i] : i \in I} = I
    BY <2>3
  <2> QED
    BY <2>2, <2>4
<1>6. PICK f \in [1 .. Len(t) -> I] :
        /\ \A k, l \in 1 .. Len(t) : k < l => f[k] < f[l]
        /\ \A k \in 1 .. Len(t) : t[k] = s[f[k]]
  BY <1>4 DEF Enumerates
<1>7. DOMAIN t = 1 .. Len(t)
  BY <1>4
<1>8. \A k \in 1 .. Len(t) : t[k] = f[k]
  BY <1>2, <1>6
<1>9. \A k, l \in DOMAIN t : k < l => t[k] < t[l]
  BY <1>6, <1>7, <1>8
<1> QED
  BY <1>4, <1>5, <1>9

-----------------------------------------------------------------------------
\* No member twice.
Distinct(t) == \A k, l \in DOMAIN t : k # l => t[k] # t[l]

\* It has as many members as places.
LEMMA DistinctMembers ==
  ASSUME NEW E, NEW t \in Seq(E), Distinct(t)
  PROVE  IsFiniteSet(ToSet(t)) /\ Cardinality(ToSet(t)) = Len(t)
<1>1. PICK n \in Nat : n = Len(t) /\ DOMAIN t = 1 .. n
  OBVIOUS
<1>2. t \in [1 .. n -> ToSet(t)] /\ ToSet(t) = {t[k] : k \in 1 .. n}
  BY <1>1 DEF ToSet
<1>3. t \in Bijection(1 .. n, ToSet(t))
  BY <1>1, <1>2 DEF Bijection, Injection, Surjection, IsInjective, Distinct
<1>4. ExistsBijection(1 .. n, ToSet(t))
  BY <1>3 DEF ExistsBijection
<1>5. IsFiniteSet(1 .. n) /\ Cardinality(1 .. n) = n
  <2>1. 1 \in Int /\ n \in Int /\ (1 > n => n = 0) /\ n - 1 + 1 = n
    OBVIOUS
  <2> QED
    BY <2>1, FS_Interval
<1> QED
  BY <1>1, <1>4, <1>5, FS_Bijection

\* The members of two sequences that are joined.
LEMMA JoinedMembers ==
  ASSUME NEW E, NEW s \in Seq(E), NEW t \in Seq(E)
  PROVE  /\ s \o t \in Seq(E) /\ ToSet(s \o t) = ToSet(s) \cup ToSet(t)
         /\ Distinct(s) /\ Distinct(t) /\ ToSet(s) \cap ToSet(t) = {} => Distinct(s \o t)
<1>0. PICK u : u = s \o t
  OBVIOUS
<1>1. PICK m \in Nat, n \in Nat : m = Len(s) /\ n = Len(t) /\ DOMAIN s = 1 .. m /\ DOMAIN t = 1 .. n
  OBVIOUS
<1>2. /\ u \in Seq(E) /\ DOMAIN u = 1 .. m + n /\ Len(u) = m + n
      /\ \A k \in 1 .. m : u[k] = s[k]
      /\ \A k \in 1 .. n : u[m + k] = t[k]
  BY <1>0, <1>1, ConcatProperties
<1>3. \A k \in 1 .. m + n : k \in 1 .. m \/ \E j \in 1 .. n : k = m + j
  <2> TAKE k \in 1 .. m + n
  <2>1. k \in 1 .. m \/ (k - m \in 1 .. n /\ k = m + (k - m))
    OBVIOUS
  <2> QED
    BY <2>1
<1>4. /\ ToSet(u) = {u[k] : k \in 1 .. m + n}
      /\ ToSet(s) = {s[k] : k \in 1 .. m} /\ ToSet(t) = {t[k] : k \in 1 .. n}
  BY <1>1, <1>2 DEF ToSet
<1>5. ToSet(u) = ToSet(s) \cup ToSet(t)
  <2>1. ASSUME NEW x \in ToSet(u) PROVE x \in ToSet(s) \cup ToSet(t)
    <3>1. PICK k \in 1 .. m + n : x = u[k]
      BY <1>4
    <3>2. CASE k \in 1 .. m
      BY <1>2, <1>4, <3>1, <3>2
    <3>3. CASE \E j \in 1 .. n : k = m + j
      BY <1>2, <1>4, <3>1, <3>3
    <3> QED
      BY <1>3, <3>2, <3>3
  <2>2. \A k \in 1 .. m : s[k] \in ToSet(u)
    <3> TAKE k \in 1 .. m
    <3>1. k \in 1 .. m + n
      OBVIOUS
    <3> QED
      BY <1>2, <1>4, <3>1
  <2>3. \A k \in 1 .. n : t[k] \in ToSet(u)
    <3> TAKE k \in 1 .. n
    <3>1. m + k \in 1 .. m + n
      OBVIOUS
    <3> QED
      BY <1>2, <1>4, <3>1
  <2> QED
    BY <1>4, <2>1, <2>2, <2>3
<1>6. ASSUME Distinct(s), Distinct(t), ToSet(s) \cap ToSet(t) = {},
             NEW k \in 1 .. m + n, NEW l \in 1 .. m + n, k # l
      PROVE  u[k] # u[l]
  <2>1. CASE k \in 1 .. m /\ l \in 1 .. m
    BY <1>1, <1>2, <1>6, <2>1 DEF Distinct
  <2>2. CASE k \notin 1 .. m /\ l \notin 1 .. m
    <3>1. PICK i \in 1 .. n, j \in 1 .. n : k = m + i /\ l = m + j
      BY <1>3, <2>2
    <3>2. i # j
      BY <1>6, <3>1
    <3>3. t[i] # t[j]
      BY <1>1, <1>6, <3>2 DEF Distinct
    <3>4. u[k] = t[i] /\ u[l] = t[j]
      BY <1>2, <3>1
    <3> QED
      BY <3>3, <3>4
  <2>3. CASE k \in 1 .. m /\ l \notin 1 .. m
    <3>1. PICK j \in 1 .. n : l = m + j
      BY <1>3, <2>3
    <3>2. u[k] \in ToSet(s) /\ u[l] \in ToSet(t)
      BY <1>2, <1>4, <2>3, <3>1
    <3> QED
      BY <1>6, <3>2
  <2>4. CASE k \notin 1 .. m /\ l \in 1 .. m
    <3>1. PICK j \in 1 .. n : k = m + j
      BY <1>3, <2>4
    <3>2. u[l] \in ToSet(s) /\ u[k] \in ToSet(t)
      BY <1>2, <1>4, <2>4, <3>1
    <3> QED
      BY <1>6, <3>2
  <2> QED
    BY <2>1, <2>2, <2>3, <2>4
<1> QED
  BY <1>0, <1>2, <1>5, <1>6 DEF Distinct

\* What is picked from a sequence without repetition repeats nothing.
LEMMA PickedDistinct ==
  ASSUME NEW E, NEW s \in Seq(E), NEW I, Distinct(s)
  PROVE  Distinct(Picked(s, I))
<1>1. PICK t : t = Picked(s, I)
  OBVIOUS
<1>2. t \in Seq(E) /\ Enumerates(t, s, I \cap DOMAIN s)
  BY <1>1, PickedPlaces
<1>3. PICK n \in Nat : n = Len(t) /\ DOMAIN t = 1 .. n
  BY <1>2
<1>4. PICK f \in [1 .. n -> I \cap DOMAIN s] :
        /\ \A k, l \in 1 .. n : k < l => f[k] < f[l]
        /\ \A k \in 1 .. n : t[k] = s[f[k]]
  BY <1>2, <1>3 DEF Enumerates
<1>5. ASSUME NEW k \in 1 .. n, NEW l \in 1 .. n, k < l PROVE t[k] # t[l]
  <2>1. f[k] < f[l] /\ f[k] \in DOMAIN s /\ f[l] \in DOMAIN s /\ DOMAIN s \subseteq Nat
    BY <1>4, <1>5
  <2>2. f[k] # f[l]
    BY <2>1
  <2> QED
    BY <1>4, <2>1, <2>2 DEF Distinct
<1>6. ASSUME NEW k \in 1 .. n, NEW l \in 1 .. n, k # l PROVE t[k] # t[l]
  <2>1. k < l \/ l < k
    BY <1>6
  <2> QED
    BY <1>5, <2>1
<1> QED
  BY <1>1, <1>3, <1>6 DEF Distinct

\* It is as long as the places asked for are many.
LEMMA PickedLength ==
  ASSUME NEW E, NEW s \in Seq(E), NEW I
  PROVE  /\ IsFiniteSet(I \cap DOMAIN s)
         /\ Len(Picked(s, I)) \in Nat /\ Cardinality(I \cap DOMAIN s) = Len(Picked(s, I))
<1>1. PICK t, J : t = Picked(s, I) /\ J = I \cap DOMAIN s
  OBVIOUS
<1>2. t \in Seq(E) /\ Enumerates(t, s, J)
  BY <1>1, PickedPlaces
<1>3. PICK n \in Nat : n = Len(t)
  BY <1>2
<1>4. PICK f \in [1 .. n -> J] :
        /\ \A k, l \in 1 .. n : k < l => f[k] < f[l]
        /\ \A i \in J : \E k \in 1 .. n : f[k] = i
  BY <1>2, <1>3 DEF Enumerates
<1>5. J \subseteq Nat
  BY <1>1
<1>6. \A k, l \in 1 .. n : f[k] = f[l] => k = l
  <2> SUFFICES ASSUME NEW k \in 1 .. n, NEW l \in 1 .. n, f[k] = f[l] PROVE k = l
    OBVIOUS
  <2>1. f[k] \in Nat /\ f[l] \in Nat
    BY <1>4, <1>5
  <2>2. ~(k < l) /\ ~(l < k)
    BY <1>4, <2>1
  <2> QED
    BY <2>2
<1>7. f \in Bijection(1 .. n, J)
  BY <1>4, <1>6 DEF Bijection, Injection, Surjection, IsInjective
<1>8. ExistsBijection(1 .. n, J)
  BY <1>7 DEF ExistsBijection
<1>9. IsFiniteSet(1 .. n) /\ Cardinality(1 .. n) = n
  <2>1. 1 \in Int /\ n \in Int /\ (1 > n => n = 0) /\ n - 1 + 1 = n
    OBVIOUS
  <2> QED
    BY <2>1, FS_Interval
<1> QED
  BY <1>1, <1>3, <1>8, <1>9, FS_Bijection

-----------------------------------------------------------------------------
(* Recursion over the subsets of a finite set, and sums over one.           *)

\* What holds of the empty set, and with one member more of what it holds of,
\* holds of every finite set.
LEMMA FiniteInduction ==
  ASSUME NEW S, IsFiniteSet(S), NEW G \in SUBSET (SUBSET S), {} \in G,
         \A s \in SUBSET S : s # {} => \E x \in s : s \ {x} \in G => s \in G
  PROVE  S \in G
<1> DEFINE K == {k \in Nat : \A s \in SUBSET S : Cardinality(s) = k => s \in G}
<1>1. \A s \in SUBSET S : IsFiniteSet(s)
  BY FS_Subset
<1>2. 0 \in K
  BY <1>1, FS_EmptySet
<1>3. ASSUME NEW k \in Nat, k \in K PROVE k + 1 \in K
  <2> SUFFICES ASSUME NEW s \in SUBSET S, Cardinality(s) = k + 1 PROVE s \in G
    OBVIOUS
  <2>1. s # {} /\ IsFiniteSet(s)
    <3>1. Cardinality({}) = 0
      BY FS_EmptySet
    <3> QED
      BY <1>1, <3>1
  <2>2. PICK x \in s : s \ {x} \in G => s \in G
    BY <2>1
  <2>3. Cardinality(s \ {x}) = k
    <3>1. Cardinality(s \ {x}) = IF x \in s THEN Cardinality(s) - 1 ELSE Cardinality(s)
      BY <2>1, FS_RemoveElement
    <3> QED
      BY <2>2, <3>1
  <2>4. s \ {x} \in G
    BY <1>3, <2>3
  <2> QED
    BY <2>2, <2>4
<1>4. \A k \in Nat : k \in K
  <2> HIDE DEF K
  <2> QED
    BY <1>2, <1>3, SetInduction
<1>5. Cardinality(S) \in Nat /\ S \in SUBSET S
  BY FS_CardinalityType
<1> QED
  BY <1>4, <1>5

\* g of a set is what step makes of one member of it and g of the others.
Unfolds(g, S, base, ch, step) ==
  \A s \in SUBSET S : g[s] = IF s = {} THEN base ELSE step[<<ch[s], g[s \ {ch[s]}]>>]

\* A function defined from a set without one of its members, ch of the set, is
\* defined for every subset of a finite set.
LEMMA RecursionOverSets ==
  ASSUME NEW S, IsFiniteSet(S), NEW R, NEW base \in R, NEW ch, \A s \in SUBSET S : s # {} => ch[s] \in s,
         NEW step \in [S \X R -> R]
  PROVE  \E g \in [SUBSET S -> R] : Unfolds(g, S, base, ch, step)
<1> DEFINE Upto(k) == {s \in SUBSET S : Cardinality(s) <= k}
           Rec(g, k) == g \in [Upto(k) -> R] /\ \A s \in Upto(k) :
                          g[s] = IF s = {} THEN base ELSE step[<<ch[s], g[s \ {ch[s]}]>>]
           K == {k \in Nat : \E g : Rec(g, k)}
<1>1. \A s \in SUBSET S : IsFiniteSet(s) /\ Cardinality(s) \in Nat
  BY FS_Subset, FS_CardinalityType
<1>2. 0 \in K
  <2>1. Upto(0) = {{}}
    <3>1. ASSUME NEW s \in SUBSET S PROVE Cardinality(s) <= 0 <=> s = {}
      BY <1>1, FS_EmptySet
    <3> QED
      BY <3>1
  <2>2. PICK g : g = [s \in {{}} |-> base]
    OBVIOUS
  <2>3. Rec(g, 0)
    BY <2>1, <2>2
  <2>4. \E h : Rec(h, 0)
    BY <2>3
  <2> HIDE DEF Rec
  <2> QED
    BY <2>4
<1>3. ASSUME NEW k \in Nat, k \in K PROVE k + 1 \in K
  <2>1. PICK g : Rec(g, k)
    BY <1>3
  <2>2. ASSUME NEW s \in Upto(k + 1), s # {}
        PROVE  s \ {ch[s]} \in Upto(k) /\ ch[s] \in S
    <3>1. ch[s] \in s /\ Cardinality(s) - 1 <= k
      BY <1>1, <2>2
    <3>2. Cardinality(s \ {ch[s]}) = Cardinality(s) - 1
      BY <1>1, <3>1, FS_RemoveElement
    <3> QED
      BY <3>1, <3>2
  <2>3. PICK h : h = [s \in Upto(k + 1) |->
                        IF s \in Upto(k) THEN g[s]
                        ELSE IF s = {} THEN base ELSE step[<<ch[s], g[s \ {ch[s]}]>>]]
    OBVIOUS
  <2>4. Upto(k) \subseteq Upto(k + 1)
    BY <1>1
  <2>5. \A s \in Upto(k) : h[s] = g[s] /\ g[s] \in R
    BY <2>1, <2>3, <2>4
  <2>6. ASSUME NEW s \in Upto(k + 1)
        PROVE  h[s] = IF s = {} THEN base ELSE step[<<ch[s], h[s \ {ch[s]}]>>]
    <3>1. s # {} => h[s \ {ch[s]}] = g[s \ {ch[s]}]
      BY <2>2, <2>5
    <3>2. CASE s \in Upto(k)
      <4>1. g[s] = IF s = {} THEN base ELSE step[<<ch[s], g[s \ {ch[s]}]>>]
        BY <2>1, <3>2
      <4>2. h[s] = g[s]
        BY <2>5, <3>2
      <4> QED
        BY <3>1, <4>1, <4>2
    <3>3. CASE s \notin Upto(k)
      <4>1. h[s] = IF s = {} THEN base ELSE step[<<ch[s], g[s \ {ch[s]}]>>]
        BY <2>3, <3>3
      <4> QED
        BY <3>1, <4>1
    <3> QED
      BY <3>2, <3>3
  <2>7. ASSUME NEW s \in Upto(k + 1) PROVE h[s] \in R
    <3>1. s # {} => <<ch[s], h[s \ {ch[s]}]>> \in S \X R
      BY <2>2, <2>5
    <3> HIDE DEF Upto
    <3> QED
      BY <2>6, <3>1
  <2>8. Rec(h, k + 1)
    <3> HIDE DEF Upto
    <3>1. DOMAIN h = Upto(k + 1) /\ h = [s \in Upto(k + 1) |-> h[s]]
      BY <2>3
    <3>2. h \in [Upto(k + 1) -> R]
      BY <2>7, <3>1
    <3> QED
      BY <2>6, <3>2
  <2>9. \E x : Rec(x, k + 1)
    BY <2>8
  <2> HIDE DEF Rec
  <2> QED
    BY <2>9
<1>4. \A k \in Nat : k \in K
  <2> HIDE DEF K
  <2> QED
    BY <1>2, <1>3, SetInduction
<1>5. PICK k \in Nat : k = Cardinality(S)
  BY FS_CardinalityType
<1>6. Upto(k) = SUBSET S
  <2>1. \A s \in SUBSET S : Cardinality(s) <= k
    BY <1>5, FS_Subset
  <2> QED
    BY <2>1
<1>7. PICK g : Rec(g, k)
  BY <1>4
<1>8. g \in [SUBSET S -> R] /\ Unfolds(g, S, base, ch, step)
  BY <1>6, <1>7 DEF Unfolds
<1> QED
  BY <1>8

\* h of S is the sum of cnt over S, and h of a subset that of one member and the others'.
AddsUp(h, cnt, S) ==
  /\ SumFunctionOnSet(cnt, S) = h[S] /\ h[{}] = 0
  /\ \A s \in SUBSET S : s # {} => \E x \in s : h[s] = cnt[x] + h[s \ {x}]

\* The sum over a finite set is that of one member of it and the others'.
LEMMA SumUnfolds ==
  ASSUME NEW S, IsFiniteSet(S), NEW cnt \in [S -> Nat]
  PROVE  \E h \in [SUBSET S -> Nat] : AddsUp(h, cnt, S)
<1>1. PICK step : step = [p \in S \X Nat |-> cnt[p[1]] + p[2]]
  OBVIOUS
<1>2. PICK ch : ch = [s \in SUBSET S |-> CHOOSE x \in s : TRUE]
  OBVIOUS
<1>3. \A s \in SUBSET S : ch[s] = (CHOOSE x \in s : TRUE) /\ (s # {} => ch[s] \in s)
  BY <1>2
<1>4. PICK g \in [SUBSET S -> Nat] :
        \A s \in SUBSET S : g[s] = IF s = {} THEN 0 ELSE step[<<ch[s], g[s \ {ch[s]}]>>]
  <2>1. PICK R, base : R = Nat /\ base = 0 /\ base \in R
    OBVIOUS
  <2>2. \A s \in SUBSET S : s # {} => ch[s] \in s
    BY <1>3
  <2>3. step \in [S \X R -> R]
    BY <1>1, <2>1
  <2>4. \E g \in [SUBSET S -> R] : Unfolds(g, S, base, ch, step)
    BY <2>1, <2>2, <2>3, RecursionOverSets
  <2> QED
    BY <2>1, <2>4 DEF Unfolds
<1> DEFINE First(s) == CHOOSE x \in s : TRUE
<1>5. \A s \in SUBSET S : g[s] = IF s = {} THEN 0 ELSE cnt[First(s)] + g[s \ {First(s)}]
  <2> TAKE s \in SUBSET S
  <2>1. ch[s] = First(s)
    BY <1>3
  <2> HIDE DEF First
  <2>2. s # {} => ch[s] \in S /\ g[s \ {ch[s]}] \in Nat
    BY <1>3
  <2>3. s # {} => step[<<ch[s], g[s \ {ch[s]}]>>] = cnt[ch[s]] + g[s \ {ch[s]}]
    BY <1>1, <2>2
  <2> QED
    BY <1>4, <2>1, <2>3
<1>6. g = [s \in SUBSET S |-> IF s = {} THEN 0 ELSE cnt[First(s)] + g[s \ {First(s)}]]
  <2> HIDE DEF First
  <2> QED
    BY <1>4, <1>5
<1>7. PICK h : h = CHOOSE k : k = [s \in SUBSET S |->
                       IF s = {} THEN 0 ELSE cnt[First(s)] + k[s \ {First(s)}]]
  OBVIOUS
<1>8. h = [s \in SUBSET S |-> IF s = {} THEN 0 ELSE cnt[First(s)] + h[s \ {First(s)}]]
  <2> HIDE DEF First
  <2>1. \E k : k = [s \in SUBSET S |-> IF s = {} THEN 0 ELSE cnt[First(s)] + k[s \ {First(s)}]]
    BY <1>6
  <2> QED
    BY <1>7, <2>1
<1>9. SumFunctionOnSet(cnt, S) = h[S]
  BY <1>7 DEF SumFunctionOnSet, FoldFunctionOnSet, MapThenFoldSet
<1>10. h[{}] = 0
  BY <1>8
<1>11. ASSUME NEW s \in SUBSET S, s # {}
       PROVE  First(s) \in s /\ h[s] = cnt[First(s)] + h[s \ {First(s)}]
  BY <1>8, <1>11
<1> HIDE DEF First
<1>12. ASSUME NEW t \in SUBSET S PROVE h[t] \in Nat
  <2> DEFINE G == {s \in SUBSET t : h[s] \in Nat}
  <2>1. {} \in G
    BY <1>10
  <2>2. ASSUME NEW s \in SUBSET t, s # {} PROVE \E x \in s : s \ {x} \in G => s \in G
    <3>1. PICK x : x = First(s)
      OBVIOUS
    <3>2. x \in s /\ h[s] = cnt[x] + h[s \ {x}]
      BY <1>11, <2>2, <3>1
    <3>3. h[s \ {x}] \in Nat => h[s] \in Nat
      BY <3>2
    <3>4. s \ {x} \in G => s \in G
      BY <3>3
    <3> HIDE DEF G
    <3> QED
      BY <3>2, <3>4
  <2>3. G \in SUBSET (SUBSET t) /\ IsFiniteSet(t)
    BY FS_Subset
  <2> HIDE DEF G
  <2>4. t \in G
    BY <2>1, <2>2, <2>3, FiniteInduction
  <2> QED
    BY <2>4 DEF G
<1>13. h \in [SUBSET S -> Nat]
  BY <1>8, <1>12
<1>14. \A s \in SUBSET S : s # {} => \E x \in s : h[s] = cnt[x] + h[s \ {x}]
  BY <1>11
<1> WITNESS h \in [SUBSET S -> Nat]
<1> QED
  BY <1>9, <1>10, <1>14 DEF AddsUp

\* None of the numbers is more than their sum.
LEMMA SumIsNoLess ==
  ASSUME NEW S, IsFiniteSet(S), NEW cnt \in [S -> Nat], NEW a \in S
  PROVE  SumFunctionOnSet(cnt, S) \in Nat /\ cnt[a] <= SumFunctionOnSet(cnt, S)
<1>1. PICK h \in [SUBSET S -> Nat] :
        /\ SumFunctionOnSet(cnt, S) = h[S] /\ h[{}] = 0
        /\ \A s \in SUBSET S : s # {} => \E x \in s : h[s] = cnt[x] + h[s \ {x}]
  <2>1. \E h \in [SUBSET S -> Nat] : AddsUp(h, cnt, S)
    BY SumUnfolds
  <2> QED
    BY <2>1 DEF AddsUp
<1> DEFINE G == {s \in SUBSET S : a \in s => cnt[a] <= h[s]}
<1>2. {} \in G
  OBVIOUS
<1>3. ASSUME NEW s \in SUBSET S, s # {} PROVE \E x \in s : s \ {x} \in G => s \in G
  <2>1. PICK x \in s : h[s] = cnt[x] + h[s \ {x}]
    BY <1>1, <1>3
  <2>2. h[s] \in Nat /\ cnt[x] \in Nat /\ h[s \ {x}] \in Nat /\ cnt[a] \in Nat
    OBVIOUS
  <2>3. s \ {x} \in G => s \in G
    <3>1. CASE x = a
      BY <2>1, <2>2, <3>1
    <3>2. CASE x # a
      BY <2>1, <2>2, <3>2
    <3> QED
      BY <3>1, <3>2
  <2> HIDE DEF G
  <2> QED
    BY <2>3
<1>4. S \in G
  <2>1. G \in SUBSET (SUBSET S)
    OBVIOUS
  <2> HIDE DEF G
  <2> QED
    BY <1>2, <1>3, <2>1, FiniteInduction
<1> QED
  BY <1>1, <1>4

\* What the members of a finite set count, taken together, if nothing is counted
\* under two of them.
LEMMA SumOfParts ==
  ASSUME NEW S, IsFiniteSet(S), NEW n \in Nat, NEW f \in [S -> SUBSET (1 .. n)],
         \A c, d \in S : c # d => f[c] \cap f[d] = {},
         NEW cnt, cnt = [c \in S |-> Cardinality(f[c])]
  PROVE  SumFunctionOnSet(cnt, S) = Cardinality(UNION {f[c] : c \in S})
<1>1. \A I \in SUBSET (1 .. n) : IsFiniteSet(I) /\ Cardinality(I) \in Nat
  <2>1. 1 \in Int /\ n \in Int
    OBVIOUS
  <2>2. IsFiniteSet(1 .. n)
    BY <2>1, FS_Interval
  <2> QED
    BY <2>2, FS_Subset, FS_CardinalityType
<1>2. \A c \in S : cnt[c] = Cardinality(f[c]) /\ cnt[c] \in Nat
  BY <1>1
<1>3. cnt \in [S -> Nat]
  BY <1>2
<1>4. PICK h \in [SUBSET S -> Nat] :
        /\ SumFunctionOnSet(cnt, S) = h[S] /\ h[{}] = 0
        /\ \A s \in SUBSET S : s # {} => \E x \in s : h[s] = cnt[x] + h[s \ {x}]
  <2>1. \E k \in [SUBSET S -> Nat] : AddsUp(k, cnt, S)
    BY <1>3, SumUnfolds
  <2> QED
    BY <2>1 DEF AddsUp
<1> DEFINE All(s) == UNION {f[c] : c \in s}
           G == {s \in SUBSET S : h[s] = Cardinality(All(s))}
<1>5. {} \in G
  <2>1. h[{}] = 0 /\ All({}) = {}
    BY <1>4
  <2> QED
    BY <2>1, FS_EmptySet
<1>6. ASSUME NEW s \in SUBSET S, s # {} PROVE \E x \in s : s \ {x} \in G => s \in G
  <2>1. PICK x \in s : h[s] = cnt[x] + h[s \ {x}]
    BY <1>4, <1>6
  <2>2. x \in s /\ x \in S
    OBVIOUS
  <2>3. h[s] = cnt[x] + h[s \ {x}]
    BY <2>1
  <2>4. ASSUME s \ {x} \in G PROVE s \in G
    <3>1. PICK A, B : A = f[x] /\ B = All(s \ {x})
      OBVIOUS
    <3>2. A \in SUBSET (1 .. n) /\ B \in SUBSET (1 .. n)
      BY <2>2, <3>1
    <3>3. A \cap B = {}
      BY <2>2, <3>1
    <3>4. All(s) = A \cup B
      BY <2>2, <3>1
    <3>5. Cardinality(A \cup B) = Cardinality(A) + Cardinality(B) - Cardinality(A \cap B)
      BY <1>1, <3>2, FS_Union
    <3>6. Cardinality(A \cap B) = 0
      BY <3>3, FS_EmptySet
    <3>7. h[s \ {x}] = Cardinality(B)
      BY <2>4, <3>1
    <3>8. cnt[x] = Cardinality(A) /\ Cardinality(A) \in Nat /\ Cardinality(B) \in Nat
      BY <1>1, <1>2, <2>2, <3>1, <3>2
    <3>9. h[s] = Cardinality(All(s))
      <4> HIDE DEF All
      <4> QED
        BY <2>3, <3>4, <3>5, <3>6, <3>7, <3>8
    <3> QED
      BY <3>9
  <2> HIDE DEF G
  <2> QED
    BY <2>2, <2>4
<1>7. S \in G
  <2>1. G \in SUBSET (SUBSET S)
    OBVIOUS
  <2> HIDE DEF G
  <2> QED
    BY <1>5, <1>6, <2>1, FiniteInduction
<1> QED
  BY <1>4, <1>7

-----------------------------------------------------------------------------
\* Sequences joined make a sequence of the same members; none make none.
LEMMA FlattenType ==
  ASSUME NEW E, NEW seqs \in Seq(Seq(E))
  PROVE  FlattenSeq(seqs) \in Seq(E) /\ (seqs = <<>> => FlattenSeq(seqs) = <<>>)
<1>1. <<>> \in Seq(E) /\ Len(<<>>) = 0
  OBVIOUS
<1>2. CASE seqs = <<>>
  <2>1. FlattenSeq(seqs) = <<>>
    BY <1>1, <1>2 DEF FlattenSeq
  <2> QED
    BY <1>1, <2>1
<1>3. CASE seqs # <<>>
  <2>1. \A s, t \in Seq(E) : s \o t \in Seq(E)
    BY ConcatProperties
  <2> QED
    BY <1>3, <2>1, FlattenIn
<1> QED
  BY <1>2, <1>3

\* One sequence more is appended to what the others make.
LEMMA FlattenAppend ==
  ASSUME NEW E, NEW seqs \in Seq(Seq(E)), NEW x \in Seq(E)
  PROVE  FlattenSeq(Append(seqs, x)) = FlattenSeq(seqs) \o x
<1>1. PICK n \in Nat : n = Len(seqs) /\ DOMAIN seqs = 1 .. n
  OBVIOUS
<1>2. PICK more : more = Append(seqs, x)
  OBVIOUS
<1>3. /\ more \in Seq(Seq(E)) /\ Len(more) = n + 1 /\ more # <<>>
      /\ more[n + 1] = x /\ \A i \in 1 .. n : more[i] = seqs[i]
  BY <1>1, <1>2, SMTT(40)
<1>4. PICK g : /\ DOMAIN g = 1 .. n + 1
               /\ \A i \in 1 .. n + 1 : g[i] = IF i = 1 THEN more[i] ELSE g[i - 1] \o more[i]
               /\ FlattenSeq(more) = g[n + 1]
  BY <1>3, FlattenSteps
<1>5. CASE n = 0
  <2>1. seqs = <<>>
    BY <1>1, <1>5
  <2>2. FlattenSeq(seqs) = <<>>
    BY <2>1, FlattenType
  <2>3. FlattenSeq(more) = x
    BY <1>3, <1>4, <1>5
  <2> QED
    BY <1>2, <2>2, <2>3
<1>6. CASE n # 0
  <2>1. seqs # <<>>
    BY <1>1, <1>6
  <2>2. PICK h : /\ DOMAIN h = 1 .. n
                 /\ \A i \in 1 .. n : h[i] = IF i = 1 THEN seqs[i] ELSE h[i - 1] \o seqs[i]
                 /\ FlattenSeq(seqs) = h[n]
    BY <1>1, <2>1, FlattenSteps
  <2> DEFINE S == {k \in Nat : k \in 1 .. n => g[k] = h[k]}
  <2>3. 0 \in S
    OBVIOUS
  <2>4. ASSUME NEW k \in Nat, k \in S PROVE k + 1 \in S
    <3> SUFFICES ASSUME k + 1 \in 1 .. n PROVE g[k + 1] = h[k + 1]
      OBVIOUS
    <3>1. k + 1 \in 1 .. n + 1 /\ more[k + 1] = seqs[k + 1] /\ (k + 1) - 1 = k
      BY <1>3
    <3>2. /\ g[k + 1] = IF k + 1 = 1 THEN more[k + 1] ELSE g[(k + 1) - 1] \o more[k + 1]
          /\ h[k + 1] = IF k + 1 = 1 THEN seqs[k + 1] ELSE h[(k + 1) - 1] \o seqs[k + 1]
      BY <1>4, <2>2, <3>1
    <3>3. k + 1 # 1 => g[k] = h[k]
      BY <2>4
    <3> QED
      BY <3>1, <3>2, <3>3
  <2>5. \A k \in Nat : k \in S
    <3> HIDE DEF S
    <3> QED
      BY <2>3, <2>4, SetInduction
  <2>6. g[n] = h[n]
    <3>1. n \in S /\ n \in 1 .. n
      <4> HIDE DEF S
      <4> QED
        BY <1>6, <2>5
    <3> QED
      BY <3>1
  <2>7. n + 1 \in 1 .. n + 1 /\ n + 1 # 1 /\ (n + 1) - 1 = n
    BY <1>6
  <2>8. g[n + 1] = g[n] \o more[n + 1]
    BY <1>4, <2>7
  <2> QED
    BY <1>2, <1>3, <1>4, <2>2, <2>6, <2>8
<1> QED
  BY <1>5, <1>6

\* Three sequences are joined from either end.
LEMMA JoinThree ==
  ASSUME NEW E, NEW a \in Seq(E), NEW b \in Seq(E), NEW c \in Seq(E)
  PROVE  a \o b \in Seq(E) /\ b \o c \in Seq(E) /\ (a \o b) \o c = a \o (b \o c)
  BY ConcatAssociative, ConcatProperties

\* What is joined can be joined in two parts.
LEMMA FlattenJoin ==
  ASSUME NEW E, NEW seqs \in Seq(Seq(E)), NEW more \in Seq(Seq(E))
  PROVE  FlattenSeq(seqs \o more) = FlattenSeq(seqs) \o FlattenSeq(more)
<1>1. \A a, b, c \in Seq(E) : (a \o b) \o c = a \o (b \o c)
  BY JoinThree, SMTT(40)
<1> DEFINE Joins(t) == FlattenSeq(seqs \o t) = FlattenSeq(seqs) \o FlattenSeq(t)
           S == {k \in Nat : \A t \in Seq(Seq(E)) : Len(t) = k => Joins(t)}
<1>2. 0 \in S
  <2> SUFFICES ASSUME NEW t \in Seq(Seq(E)), Len(t) = 0 PROVE Joins(t)
    OBVIOUS
  <2>1. t = <<>>
    OBVIOUS
  <2>2. FlattenSeq(t) = <<>> /\ FlattenSeq(seqs) \in Seq(E)
    BY <2>1, FlattenType
  <2>3. seqs \o t = seqs
    BY <2>1
  <2>4. FlattenSeq(seqs) \o <<>> = FlattenSeq(seqs)
    BY <2>2
  <2> QED
    BY <2>2, <2>3, <2>4
<1>3. ASSUME NEW k \in Nat, k \in S PROVE k + 1 \in S
  <2> SUFFICES ASSUME NEW t \in Seq(Seq(E)), Len(t) = k + 1 PROVE Joins(t)
    OBVIOUS
  <2>1. PICK f : f = SubSeq(t, 1, k)
    OBVIOUS
  <2>2. PICK x \in Seq(E) : x = t[k + 1]
    OBVIOUS
  <2>3. f \in Seq(Seq(E)) /\ Len(f) = k /\ \A i \in 1 .. k : f[i] = t[i]
    BY <2>1
  <2>4. t = Append(f, x)
    BY <2>2, <2>3
  <2>5. Joins(f)
    BY <1>3, <2>3
  <2>6. seqs \o t = Append(seqs \o f, x) /\ seqs \o f \in Seq(Seq(E))
    BY <2>3, <2>4, SMTT(40)
  <2>7. FlattenSeq(seqs \o t) = FlattenSeq(seqs \o f) \o x /\ FlattenSeq(t) = FlattenSeq(f) \o x
    BY <2>3, <2>4, <2>6, FlattenAppend
  <2>8. FlattenSeq(seqs) \in Seq(E) /\ FlattenSeq(f) \in Seq(E)
    BY <2>3, FlattenType
  <2>9. (FlattenSeq(seqs) \o FlattenSeq(f)) \o x = FlattenSeq(seqs) \o (FlattenSeq(f) \o x)
    <3>1. PICK a \in Seq(E), b \in Seq(E) : a = FlattenSeq(seqs) /\ b = FlattenSeq(f)
      BY <2>8
    <3>2. (a \o b) \o x = a \o (b \o x)
      BY <1>1
    <3> QED
      BY <3>1, <3>2
  <2> QED
    BY <2>5, <2>7, <2>9
<1>4. \A k \in Nat : k \in S
  <2> HIDE DEF S
  <2> QED
    BY <1>2, <1>3, SetInduction
<1>5. Len(more) \in S
  <2> HIDE DEF S
  <2> QED
    BY <1>4
<1> QED
  BY <1>5

\* One sequence is what it is, and the first of several comes first.
LEMMA FlattenFirst ==
  ASSUME NEW E, NEW seqs \in Seq(Seq(E)), seqs # <<>>
  PROVE  FlattenSeq(seqs) = Head(seqs) \o FlattenSeq(Tail(seqs))
<1>1. PICK x \in Seq(E) : x = Head(seqs)
  OBVIOUS
<1>2. PICK t \in Seq(Seq(E)) : t = Tail(seqs)
  <2>1. PICK Q : Q = Seq(E)
    OBVIOUS
  <2>2. Tail(seqs) \in Seq(Q)
    BY <2>1
  <2> QED
    BY <2>1, <2>2
<1>3. PICK one : one = <<x>>
  OBVIOUS
<1>4. one \in Seq(Seq(E)) /\ seqs = one \o t
  BY <1>1, <1>2, <1>3
<1>5. FlattenSeq(one) = x
  <2>1. <<>> \in Seq(Seq(E)) /\ one = Append(<<>>, x)
    BY <1>3
  <2>2. FlattenSeq(<<>>) = <<>>
    BY <2>1, FlattenType
  <2>3. FlattenSeq(one) = <<>> \o x
    BY <2>1, <2>2, FlattenAppend
  <2> QED
    BY <2>3
<1> QED
  BY <1>1, <1>2, <1>4, <1>5, FlattenJoin

\* What is picked from two sequences that are joined is what is picked from each;
\* J of the places of the second.
LEMMA PickedJoin ==
  ASSUME NEW E, NEW s \in Seq(E), NEW t \in Seq(E), NEW I, NEW J,
         \A k \in DOMAIN t : k \in J <=> Len(s) + k \in I
  PROVE  Picked(s \o t, I) = Picked(s, I) \o Picked(t, J)
<1>1. PICK m \in Nat, n \in Nat : m = Len(s) /\ n = Len(t) /\ DOMAIN s = 1 .. m /\ DOMAIN t = 1 .. n
  OBVIOUS
<1>2. PICK u : u = s \o t
  OBVIOUS
<1>3. /\ u \in Seq(E) /\ DOMAIN u = 1 .. m + n
      /\ \A k \in 1 .. m : u[k] = s[k]
      /\ \A k \in 1 .. n : u[m + k] = t[k]
  BY <1>1, <1>2, ConcatProperties
<1>4. PICK a : a = [i \in DOMAIN s |-> IF i \in I THEN <<s[i]>> ELSE <<>>]
  OBVIOUS
<1>5. PICK b : b = [i \in DOMAIN t |-> IF i \in J THEN <<t[i]>> ELSE <<>>]
  OBVIOUS
<1>6. PICK c : c = [i \in DOMAIN u |-> IF i \in I THEN <<u[i]>> ELSE <<>>]
  OBVIOUS
<1>7. a \in Seq(Seq(E)) /\ Len(a) = m
  <2>1. \A i \in 1 .. m : a[i] \in Seq(E)
    BY <1>1, <1>4
  <2> QED
    BY <1>1, <1>4, <2>1
<1>8. b \in Seq(Seq(E)) /\ Len(b) = n
  <2>1. \A i \in 1 .. n : b[i] \in Seq(E)
    BY <1>1, <1>5
  <2> QED
    BY <1>1, <1>5, <2>1
<1>9. PICK d : d = a \o b
  OBVIOUS
<1>10. /\ d \in Seq(Seq(E)) /\ DOMAIN d = 1 .. m + n
       /\ \A k \in 1 .. m : d[k] = a[k]
       /\ \A k \in 1 .. n : d[m + k] = b[k]
  <2>1. PICK Q : Q = Seq(E)
    OBVIOUS
  <2>2. a \in Seq(Q) /\ b \in Seq(Q)
    BY <1>7, <1>8, <2>1
  <2>3. /\ d \in Seq(Q) /\ Len(d) = m + n /\ DOMAIN d = 1 .. m + n
        /\ \A k \in 1 .. m + n : d[k] = IF k <= m THEN a[k] ELSE b[k - m]
    <3>1. /\ d \in Seq(Q) /\ Len(d) = Len(a) + Len(b)
          /\ \A k \in 1 .. Len(a) + Len(b) : d[k] = IF k <= Len(a) THEN a[k] ELSE b[k - Len(a)]
      BY <1>9, <2>2, ConcatProperties
    <3> QED
      BY <1>7, <1>8, <3>1
  <2>4. \A k \in 1 .. m : d[k] = a[k]
    BY <2>3
  <2>5. \A k \in 1 .. n : d[m + k] = b[k]
    <3> TAKE k \in 1 .. n
    <3>1. m + k \in 1 .. m + n /\ ~(m + k <= m) /\ (m + k) - m = k
      OBVIOUS
    <3> QED
      BY <2>3, <3>1
  <2> QED
    BY <2>1, <2>3, <2>4, <2>5
<1>11. ASSUME NEW i \in 1 .. m + n PROVE c[i] = d[i]
  <2>1. CASE i \in 1 .. m
    BY <1>1, <1>3, <1>4, <1>6, <1>10, <2>1
  <2>2. CASE i \notin 1 .. m
    <3>1. PICK k \in 1 .. n : i = m + k
      <4>1. i - m \in 1 .. n /\ i = m + (i - m)
        BY <2>2
      <4> QED
        BY <4>1
    <3>2. k \in J <=> i \in I
      BY <1>1, <3>1
    <3>3. u[i] = t[k] /\ d[i] = b[k]
      BY <1>3, <1>10, <3>1
    <3>4. c[i] = (IF i \in I THEN <<u[i]>> ELSE <<>>) /\ b[k] = (IF k \in J THEN <<t[k]>> ELSE <<>>)
      BY <1>1, <1>3, <1>5, <1>6
    <3> QED
      BY <3>2, <3>3, <3>4
  <2> QED
    BY <2>1, <2>2
<1>12. c = d
  <2>1. DOMAIN c = 1 .. m + n /\ c = [i \in 1 .. m + n |-> c[i]]
    BY <1>3, <1>6
  <2>2. d = [i \in 1 .. m + n |-> d[i]]
    BY <1>10
  <2> QED
    BY <1>11, <2>1, <2>2
<1>13. FlattenSeq(d) = FlattenSeq(a) \o FlattenSeq(b)
  BY <1>7, <1>8, <1>9, FlattenJoin
<1> QED
  BY <1>2, <1>4, <1>5, <1>6, <1>12, <1>13 DEF Picked

\* The same places of a sequence are picked.
LEMMA PickedSame ==
  ASSUME NEW s, NEW I, NEW J, \A i \in DOMAIN s : i \in I <=> i \in J
  PROVE  Picked(s, I) = Picked(s, J)
<1>1. [i \in DOMAIN s |-> IF i \in I THEN <<s[i]>> ELSE <<>>]
        = [i \in DOMAIN s |-> IF i \in J THEN <<s[i]>> ELSE <<>>]
  OBVIOUS
<1> QED
  BY <1>1 DEF Picked

\* One member more is picked, or it is not.
LEMMA PickedAppend ==
  ASSUME NEW E, NEW s \in Seq(E), NEW x \in E, NEW I, NEW J, \A i \in DOMAIN s : i \in I <=> i \in J
  PROVE  Picked(Append(s, x), I) = IF Len(s) + 1 \in I THEN Append(Picked(s, J), x) ELSE Picked(s, J)
<1>1. PICK n \in Nat : n = Len(s)
  OBVIOUS
<1>2. PICK one : one = <<x>>
  OBVIOUS
<1>3. one \in Seq(E) /\ DOMAIN one = {1} /\ one[1] = x /\ Append(s, x) = s \o one
  BY <1>2
<1>4. PICK K : K = IF n + 1 \in I THEN {1} ELSE {}
  OBVIOUS
<1>5. Picked(s \o one, I) = Picked(s, I) \o Picked(one, K)
  <2>1. \A k \in DOMAIN one : k \in K <=> Len(s) + k \in I
    BY <1>1, <1>3, <1>4
  <2> QED
    BY <1>3, <2>1, PickedJoin
<1>6. Picked(s, I) = Picked(s, J) /\ Picked(s, J) \in Seq(E)
  BY PickedSame, PickedPlaces
<1>7. Picked(one, K) = IF n + 1 \in I THEN <<x>> ELSE <<>>
  <2>1. PICK part : part = IF n + 1 \in I THEN <<x>> ELSE <<>>
    OBVIOUS
  <2>2. part \in Seq(E)
    BY <2>1
  <2>3. [i \in DOMAIN one |-> IF i \in K THEN <<one[i]>> ELSE <<>>] = <<part>>
    <3>1. PICK f : f = [i \in DOMAIN one |-> IF i \in K THEN <<one[i]>> ELSE <<>>]
      OBVIOUS
    <3>2. DOMAIN f = {1} /\ f[1] = part
      BY <1>3, <1>4, <2>1, <3>1
    <3>3. f = [i \in 1 .. 1 |-> f[i]] /\ 1 .. 1 = {1}
      BY <1>3, <3>1
    <3>4. f = <<part>>
      BY <3>2, <3>3
    <3> QED
      BY <3>1, <3>4
  <2>4. PICK seqs : seqs = <<part>>
    OBVIOUS
  <2>5. /\ seqs \in Seq(Seq(E)) /\ seqs # <<>> /\ Head(seqs) = part
        /\ Tail(seqs) = <<>> /\ <<>> \in Seq(Seq(E))
    BY <2>2, <2>4
  <2>6. FlattenSeq(seqs) = part \o FlattenSeq(<<>>) /\ FlattenSeq(<<>>) = <<>>
    BY <2>5, FlattenFirst, FlattenType
  <2>7. FlattenSeq(seqs) = part
    BY <2>2, <2>6
  <2> QED
    BY <2>1, <2>3, <2>4, <2>7 DEF Picked
<1>8. PICK p \in Seq(E) : p = Picked(s, J)
  BY <1>6
<1>9. p \o <<x>> = Append(p, x) /\ p \o <<>> = p
  OBVIOUS
<1> QED
  BY <1>1, <1>3, <1>5, <1>6, <1>7, <1>8, <1>9

\* Of one place more, it or not.
LEMMA PlacesAppend ==
  ASSUME NEW n \in Nat, NEW I, NEW J, \A i \in 1 .. n : i \in I <=> i \in J
  PROVE  Picked([i \in 1 .. n + 1 |-> i], I) =
           IF n + 1 \in I THEN Append(Picked([i \in 1 .. n |-> i], J), n + 1)
                          ELSE Picked([i \in 1 .. n |-> i], J)
<1>1. PICK s : s = [i \in 1 .. n |-> i]
  OBVIOUS
<1>2. s \in Seq(Nat) /\ Len(s) = n /\ DOMAIN s = 1 .. n
  BY <1>1
<1>3. PICK t : t = [i \in 1 .. n + 1 |-> i]
  OBVIOUS
<1>4. t = Append(s, n + 1)
  <2>1. PICK g : g = Append(s, n + 1)
    OBVIOUS
  <2>2. g \in Seq(Nat) /\ Len(g) = n + 1 /\ g[n + 1] = n + 1 /\ \A k \in 1 .. n : g[k] = k
    BY <1>1, <1>2, <2>1
  <2>3. \A k \in 1 .. n + 1 : k = n + 1 \/ k \in 1 .. n
    OBVIOUS
  <2>4. \A k \in 1 .. n + 1 : g[k] = k
    BY <2>2, <2>3
  <2>5. g = [k \in 1 .. n + 1 |-> g[k]]
    BY <2>2
  <2> QED
    BY <1>3, <2>1, <2>4, <2>5
<1>5. PICK x \in Nat : x = n + 1
  OBVIOUS
<1>6. \A i \in DOMAIN s : i \in I <=> i \in J
  BY <1>2
<1>7. Picked(Append(s, x), I) = IF Len(s) + 1 \in I THEN Append(Picked(s, J), x) ELSE Picked(s, J)
  BY <1>2, <1>6, PickedAppend
<1> QED
  BY <1>1, <1>2, <1>3, <1>4, <1>5, <1>7

\* All of a sequence.
LEMMA PickedAll ==
  ASSUME NEW E, NEW s \in Seq(E), NEW I, DOMAIN s \subseteq I
  PROVE  Picked(s, I) = s
<1> DEFINE All(t) == \A J : DOMAIN t \subseteq J => Picked(t, J) = t
           S == {k \in Nat : \A t \in Seq(E) : Len(t) = k => All(t)}
<1>1. 0 \in S
  <2> SUFFICES ASSUME NEW t \in Seq(E), Len(t) = 0, NEW J PROVE Picked(t, J) = t
    OBVIOUS
  <2>1. t = <<>> /\ DOMAIN t = {}
    OBVIOUS
  <2>2. [i \in DOMAIN t |-> IF i \in J THEN <<t[i]>> ELSE <<>>] = <<>> /\ <<>> \in Seq(Seq(E))
    BY <2>1
  <2> QED
    BY <2>1, <2>2, FlattenType DEF Picked
<1>2. ASSUME NEW k \in Nat, k \in S PROVE k + 1 \in S
  <2> SUFFICES ASSUME NEW t \in Seq(E), Len(t) = k + 1, NEW J, DOMAIN t \subseteq J PROVE Picked(t, J) = t
    OBVIOUS
  <2>1. PICK f : f = SubSeq(t, 1, k)
    OBVIOUS
  <2>2. PICK x \in E : x = t[k + 1]
    OBVIOUS
  <2>3. f \in Seq(E) /\ Len(f) = k /\ DOMAIN f = 1 .. k /\ t = Append(f, x)
    BY <2>1, <2>2
  <2>4. DOMAIN t = 1 .. k + 1 /\ k + 1 \in 1 .. k + 1 /\ 1 .. k \subseteq 1 .. k + 1
    OBVIOUS
  <2>5. DOMAIN f \subseteq J /\ Len(f) + 1 \in J
    BY <2>3, <2>4
  <2>6. Picked(f, J) = f
    BY <1>2, <2>3, <2>5
  <2>7. Picked(Append(f, x), J) = Append(Picked(f, J), x)
    BY <2>3, <2>5, PickedAppend
  <2> QED
    BY <2>3, <2>6, <2>7
<1>3. \A k \in Nat : k \in S
  <2> HIDE DEF S
  <2> QED
    BY <1>1, <1>2, SetInduction
<1>4. Len(s) \in S
  <2> HIDE DEF S
  <2> QED
    BY <1>3
<1> QED
  BY <1>4

\* No place, no member.
LEMMA PickedNone ==
  ASSUME NEW E, NEW s \in Seq(E)
  PROVE  Picked(s, {}) = <<>>
<1>1. PICK t : t = Picked(s, {})
  OBVIOUS
<1>2. t \in Seq(E) /\ Len(t) \in Nat /\ Cardinality({} \cap DOMAIN s) = Len(t)
  BY <1>1, PickedLength, PickedPlaces
<1>3. {} \cap DOMAIN s = {} /\ Cardinality({}) = 0
  BY FS_EmptySet
<1> QED BY <1>1, <1>2, <1>3

\* Iterator::map over what is known of the members of s.
Mapped(s, g) == [k \in 1 .. Len(s) |-> g[s[k]]]

\* What is mapped is of the values of the function.
LEMMA MappedType ==
  ASSUME NEW E, NEW D, NEW g \in [E -> D], NEW s \in Seq(E)
  PROVE  Mapped(s, g) \in Seq(D)
<1>1. \A k \in 1 .. Len(s) : g[s[k]] \in D
  OBVIOUS
<1> QED BY <1>1 DEF Mapped

\* What is joined can be mapped in two parts.
LEMMA MappedJoin ==
  ASSUME NEW E, NEW D, NEW g \in [E -> D], NEW s \in Seq(E), NEW t \in Seq(E)
  PROVE  Mapped(s \o t, g) = Mapped(s, g) \o Mapped(t, g)
<1>1. PICK m \in Nat, n \in Nat : m = Len(s) /\ n = Len(t)
  OBVIOUS
<1>2. PICK u : u = s \o t
  OBVIOUS
<1>3. /\ u \in Seq(E) /\ Len(u) = m + n
      /\ \A k \in 1 .. m : u[k] = s[k]
      /\ \A k \in 1 .. n : u[m + k] = t[k]
  BY <1>1, <1>2
<1>4. PICK a : a = Mapped(s, g)
  OBVIOUS
<1>5. PICK b : b = Mapped(t, g)
  OBVIOUS
<1>6. a \in Seq(D) /\ Len(a) = m /\ \A k \in 1 .. m : a[k] = g[s[k]]
  <2>1. \A k \in 1 .. m : s[k] \in E /\ g[s[k]] \in D
    BY <1>1
  <2>2. a = [k \in 1 .. m |-> g[s[k]]]
    BY <1>1, <1>4 DEF Mapped
  <2> QED BY <2>1, <2>2
<1>7. b \in Seq(D) /\ Len(b) = n /\ \A k \in 1 .. n : b[k] = g[t[k]]
  <2>1. \A k \in 1 .. n : t[k] \in E /\ g[t[k]] \in D
    BY <1>1
  <2>2. b = [k \in 1 .. n |-> g[t[k]]]
    BY <1>1, <1>5 DEF Mapped
  <2> QED BY <2>1, <2>2
<1>8. PICK c : c = a \o b
  OBVIOUS
<1>9. /\ c \in Seq(D) /\ Len(c) = m + n
      /\ \A k \in 1 .. m : c[k] = a[k]
      /\ \A k \in 1 .. n : c[m + k] = b[k]
  <2>1. a \in Seq(D) /\ b \in Seq(D) /\ c = a \o b
    BY <1>6, <1>7, <1>8
  <2>2. c \in Seq(D) /\ Len(c) = Len(a) + Len(b)
    BY <2>1
  <2>3. \A k \in 1 .. Len(a) : c[k] = a[k]
    BY <2>1
  <2>4. \A k \in 1 .. Len(b) : c[Len(a) + k] = b[k]
    BY <2>1
  <2> QED BY <1>6, <1>7, <2>2, <2>3, <2>4
<1>10. ASSUME NEW k \in 1 .. m + n PROVE c[k] = g[u[k]]
  <2>1. CASE k <= m
    <3>1. k \in 1 .. m
      BY <2>1
    <3>2. c[k] = a[k]
      BY <1>9, <3>1
    <3>3. a[k] = g[s[k]]
      BY <1>6, <3>1
    <3>4. u[k] = s[k]
      BY <1>3, <3>1
    <3> QED BY <3>2, <3>3, <3>4
  <2>2. CASE k > m
    <3>1. PICK j \in 1 .. n : k = m + j
      <4>1. k - m \in 1 .. n /\ k = m + (k - m)
        BY <2>2
      <4> QED BY <4>1
    <3>2. c[k] = b[j]
      BY <1>9, <3>1
    <3>3. b[j] = g[t[j]]
      BY <1>7
    <3>4. u[k] = t[j]
      BY <1>3, <3>1
    <3> QED BY <3>2, <3>3, <3>4
  <2> QED BY <2>1, <2>2
<1>11. c = [k \in 1 .. m + n |-> c[k]]
  BY <1>9
<1>12. Mapped(u, g) = [k \in 1 .. m + n |-> g[u[k]]]
  BY <1>3 DEF Mapped
<1>13. c = Mapped(u, g)
  BY <1>10, <1>11, <1>12
<1> QED BY <1>2, <1>4, <1>5, <1>6, <1>8, <1>13

\* Joined first or mapped first.
LEMMA FlattenMapped ==
  ASSUME NEW E, NEW D, NEW g \in [E -> D], NEW seqs \in Seq(Seq(E))
  PROVE  FlattenSeq([i \in 1 .. Len(seqs) |-> Mapped(seqs[i], g)]) = Mapped(FlattenSeq(seqs), g)
<1> DEFINE Good(q) == FlattenSeq([i \in 1 .. Len(q) |-> Mapped(q[i], g)]) = Mapped(FlattenSeq(q), g)
           S == {k \in Nat : \A q \in Seq(Seq(E)) : Len(q) = k => Good(q)}
<1>1. 0 \in S
  <2> SUFFICES ASSUME NEW q \in Seq(Seq(E)), Len(q) = 0 PROVE Good(q)
    OBVIOUS
  <2>1. q = <<>>
    OBVIOUS
  <2>2. FlattenSeq(q) = <<>>
    BY <2>1, FlattenType
  <2>3. <<>> \in Seq(Seq(D))
    OBVIOUS
  <2>4. FlattenSeq(<<>>) = <<>>
    BY <2>3, FlattenType
  <2>5. [i \in 1 .. Len(q) |-> Mapped(q[i], g)] = <<>>
    BY <2>1
  <2>6. Mapped(<<>>, g) = <<>>
    BY DEF Mapped
  <2> QED BY <2>2, <2>4, <2>5, <2>6
<1>2. ASSUME NEW k \in Nat, k \in S PROVE k + 1 \in S
  <2> SUFFICES ASSUME NEW q \in Seq(Seq(E)), Len(q) = k + 1 PROVE Good(q)
    OBVIOUS
  <2>1. PICK Q : Q = Seq(E)
    OBVIOUS
  <2>2. PICK f : f = SubSeq(q, 1, k)
    OBVIOUS
  <2>3. PICK x \in Q : x = q[k + 1]
    BY <2>1
  <2>4. q \in Seq(Q)
    BY <2>1
  <2>5. f \in Seq(Q) /\ Len(f) = k /\ q = Append(f, x)
    BY <2>2, <2>3, <2>4
  <2>6. \A i \in 1 .. k : f[i] = q[i] /\ f[i] \in Q
    BY <2>2, <2>4, <2>5
  <2>7. PICK mf : mf = [i \in 1 .. k |-> Mapped(f[i], g)]
    OBVIOUS
  <2>8. mf \in Seq(Seq(D)) /\ Len(mf) = k
    <3>1. \A i \in 1 .. k : Mapped(f[i], g) \in Seq(D)
      BY <2>1, <2>6, MappedType
    <3>2. PICK P : P = Seq(D)
      OBVIOUS
    <3>3. mf \in Seq(P) /\ Len(mf) = k
      BY <2>7, <3>1, <3>2
    <3> QED BY <3>2, <3>3
  <2>9. FlattenSeq(mf) = Mapped(FlattenSeq(f), g)
    BY <1>2, <2>1, <2>5, <2>7
  <2>10. [i \in 1 .. Len(q) |-> Mapped(q[i], g)] = Append(mf, Mapped(x, g))
    <3>1. PICK y : y = Mapped(x, g)
      OBVIOUS
    <3>2. PICK P : P = Seq(D)
      OBVIOUS
    <3>3. mf \in Seq(P) /\ y \in P
      <4>1. x \in Seq(E)
        BY <2>1, <2>3
      <4>2. Mapped(x, g) \in Seq(D)
        BY <4>1, MappedType
      <4> QED BY <2>8, <3>1, <3>2, <4>2
    <3>4. PICK z : z = Append(mf, y)
      OBVIOUS
    <3>5. /\ z \in Seq(P) /\ Len(z) = k + 1 /\ z[k + 1] = y
          /\ \A i \in 1 .. k : z[i] = mf[i]
      BY <2>8, <3>3, <3>4
    <3>6. \A i \in 1 .. k + 1 : z[i] = Mapped(q[i], g)
      BY <2>3, <2>6, <2>7, <3>1, <3>5
    <3>7. z = [i \in 1 .. k + 1 |-> z[i]]
      BY <3>5
    <3>8. z = [i \in 1 .. Len(q) |-> Mapped(q[i], g)]
      BY <3>6, <3>7
    <3> QED BY <3>1, <3>4, <3>8
  <2>11. FlattenSeq(Append(mf, Mapped(x, g))) = FlattenSeq(mf) \o Mapped(x, g)
    <3>1. Mapped(x, g) \in Seq(D)
      BY <2>1, <2>3, MappedType
    <3> QED BY <2>8, <3>1, FlattenAppend
  <2>12. FlattenSeq(f) \in Seq(E) /\ FlattenSeq(q) = FlattenSeq(f) \o x
    BY <2>1, <2>3, <2>5, FlattenType, FlattenAppend
  <2>13. Mapped(FlattenSeq(q), g) = Mapped(FlattenSeq(f), g) \o Mapped(x, g)
    <3>1. PICK h : h = FlattenSeq(f)
      OBVIOUS
    <3>2. h \in Seq(E) /\ x \in Seq(E)
      BY <2>1, <2>3, <2>12, <3>1
    <3>3. Mapped(h \o x, g) = Mapped(h, g) \o Mapped(x, g)
      BY <3>2, MappedJoin
    <3> QED BY <2>12, <3>1, <3>3
  <2> QED BY <2>9, <2>10, <2>11, <2>13
<1>3. \A k \in Nat : k \in S
  <2> HIDE DEF S
  <2> QED
    BY <1>1, <1>2, SetInduction
<1>4. Len(seqs) \in S
  <2> HIDE DEF S
  <2> QED
    BY <1>3
<1> QED
  BY <1>4

\* Sequences that share nothing, each of distinct members, joined one after the
\* other: the members are distinct, and theirs.
LEMMA JoinsAreDistinct ==
  ASSUME NEW E, NEW n \in Nat \ {0}, NEW ss, \A i \in 1 .. n : ss[i] \in Seq(E) /\ Distinct(ss[i]),
         \A k, l \in 1 .. n : k # l => ToSet(ss[k]) \cap ToSet(ss[l]) = {},
         NEW g, \A i \in 1 .. n : g[i] = IF i = 1 THEN ss[i] ELSE g[i - 1] \o ss[i]
  PROVE  Distinct(g[n]) /\ \A x \in ToSet(g[n]) : \E k \in 1 .. n : x \in ToSet(ss[k])
<1> DEFINE Good(k) == /\ g[k] \in Seq(E) /\ Distinct(g[k])
                      /\ \A x \in ToSet(g[k]) : \E j \in 1 .. k : x \in ToSet(ss[j])
           S == {k \in Nat : k \in 1 .. n => Good(k)}
<1>1. 0 \in S
  OBVIOUS
<1>2. ASSUME NEW k \in Nat, k \in S PROVE k + 1 \in S
  <2> SUFFICES ASSUME k + 1 \in 1 .. n PROVE Good(k + 1)
    OBVIOUS
  <2>1. CASE k = 0
    <3>1. k + 1 = 1 /\ 1 \in 1 .. n
      BY <2>1
    <3>2. g[1] = ss[1]
      BY <3>1
    <3>3. 1 \in 1 .. 1
      OBVIOUS
    <3>4. Good(1)
      BY <3>1, <3>2, <3>3
    <3> QED
      BY <3>1, <3>4
  <2>2. CASE k # 0
    <3>1. k \in 1 .. n /\ k + 1 # 1 /\ (k + 1) - 1 = k
      BY <2>2
    <3>2. g[k + 1] = g[k] \o ss[k + 1]
      BY <3>1
    <3>3. Good(k)
      BY <1>2, <3>1
    <3>4. PICK s \in Seq(E) : s = ss[k + 1] /\ Distinct(s)
      OBVIOUS
    <3>5. PICK t \in Seq(E) : t = g[k]
      BY <3>3
    <3>6. ToSet(t) \cap ToSet(s) = {}
      <4>1. \A j \in 1 .. k : j \in 1 .. n /\ j # k + 1
        BY <3>1
      <4>2. \A j \in 1 .. k : ToSet(ss[j]) \cap ToSet(s) = {}
        BY <3>4, <4>1
      <4> QED
        BY <3>3, <3>5, <4>2
    <3>7. t \o s \in Seq(E) /\ Distinct(t \o s) /\ ToSet(t \o s) = ToSet(t) \cup ToSet(s)
      BY <3>3, <3>4, <3>5, <3>6, JoinedMembers
    <3>8. \A x \in ToSet(t \o s) : \E j \in 1 .. k + 1 : x \in ToSet(ss[j])
      <4>1. k + 1 \in 1 .. k + 1 /\ \A j \in 1 .. k : j \in 1 .. k + 1
        BY <3>1
      <4> QED
        BY <3>3, <3>4, <3>5, <3>7, <4>1
    <3> QED
      BY <3>2, <3>4, <3>5, <3>7, <3>8
  <2> QED
    BY <2>1, <2>2
<1>3. \A k \in Nat : k \in S
  <2> HIDE DEF S
  <2> QED
    BY <1>1, <1>2, SetInduction
<1>4. n \in Nat /\ n \in 1 .. n
  OBVIOUS
<1>5. n \in S
  BY <1>3, <1>4
<1>6. Good(n)
  BY <1>4, <1>5
<1> QED
  BY <1>6

\* So what FlattenSeq makes of them.
LEMMA FlattenDistinct ==
  ASSUME NEW E, NEW seqs \in Seq(Seq(E)), \A k \in DOMAIN seqs : Distinct(seqs[k]),
         \A k, l \in DOMAIN seqs : k # l => ToSet(seqs[k]) \cap ToSet(seqs[l]) = {}
  PROVE  /\ Distinct(FlattenSeq(seqs))
         /\ \A x \in ToSet(FlattenSeq(seqs)) : \E k \in DOMAIN seqs : x \in ToSet(seqs[k])
<1>1. CASE seqs = <<>>
  <2>1. PICK t : t = FlattenSeq(seqs)
    OBVIOUS
  <2>2. t = <<>>
    BY <1>1, <2>1, FlattenType
  <2>3. DOMAIN t = {}
    BY <2>2
  <2>4. Distinct(t) /\ ToSet(t) = {}
    BY <2>3 DEF Distinct, ToSet
  <2> QED
    BY <2>1, <2>4
<1>2. CASE seqs # <<>>
  <2>1. PICK g : /\ DOMAIN g = 1 .. Len(seqs)
                 /\ \A i \in 1 .. Len(seqs) : g[i] = IF i = 1 THEN seqs[i] ELSE g[i - 1] \o seqs[i]
                 /\ FlattenSeq(seqs) = g[Len(seqs)]
    BY <1>2, FlattenSteps
  <2>2. PICK n \in Nat \ {0} : n = Len(seqs) /\ DOMAIN seqs = 1 .. n
    BY <1>2
  <2>3. \A i \in 1 .. n : seqs[i] \in Seq(E)
    <3>1. PICK Q : Q = Seq(E)
      OBVIOUS
    <3> QED
      BY <2>2, <3>1
  <2>4. /\ \A i \in 1 .. n : seqs[i] \in Seq(E) /\ Distinct(seqs[i])
        /\ \A k, l \in 1 .. n : k # l => ToSet(seqs[k]) \cap ToSet(seqs[l]) = {}
    BY <2>2, <2>3
  <2>5. /\ \A i \in 1 .. n : g[i] = IF i = 1 THEN seqs[i] ELSE g[i - 1] \o seqs[i]
        /\ FlattenSeq(seqs) = g[n]
    BY <2>1, <2>2
  <2>6. Distinct(g[n]) /\ \A x \in ToSet(g[n]) : \E k \in 1 .. n : x \in ToSet(seqs[k])
    BY <2>4, <2>5, JoinsAreDistinct
  <2> QED
    BY <2>2, <2>5, <2>6
<1> QED
  BY <1>1, <1>2

-----------------------------------------------------------------------------
(* Counting.                                                                *)

\* How often x is in a sequence.
HowOften(s, x) == Cardinality({k \in DOMAIN s : s[k] = x})

\* It is a number, none for a sequence without places.
LEMMA HowOftenType ==
  ASSUME NEW E, NEW s \in Seq(E), NEW x
  PROVE  /\ IsFiniteSet({k \in DOMAIN s : s[k] = x}) /\ HowOften(s, x) \in Nat
         /\ (\A k \in DOMAIN s : s[k] # x) => HowOften(s, x) = 0
<1>1. PICK n \in Nat : n = Len(s) /\ DOMAIN s = 1 .. n
  OBVIOUS
<1>2. PICK K : K = {k \in DOMAIN s : s[k] = x}
  OBVIOUS
<1>3. K \in SUBSET (1 .. n)
  BY <1>1, <1>2
<1>4. 1 \in Int /\ n \in Int
  OBVIOUS
<1>5. IsFiniteSet(K) /\ Cardinality(K) \in Nat
  BY <1>3, <1>4, FS_Interval, FS_Subset, FS_CardinalityType
<1>6. (\A k \in DOMAIN s : s[k] # x) => Cardinality(K) = 0
  <2>1. (\A k \in DOMAIN s : s[k] # x) => K = {}
    BY <1>2
  <2> QED
    BY <2>1, FS_EmptySet
<1> QED
  BY <1>2, <1>5, <1>6 DEF HowOften

\* In two sequences joined, as often as in both.
LEMMA HowOftenJoined ==
  ASSUME NEW E, NEW s \in Seq(E), NEW t \in Seq(E), NEW x
  PROVE  HowOften(s \o t, x) = HowOften(s, x) + HowOften(t, x)
<1>1. PICK m \in Nat, n \in Nat : m = Len(s) /\ n = Len(t) /\ DOMAIN s = 1 .. m /\ DOMAIN t = 1 .. n
  OBVIOUS
<1>2. PICK u : u = s \o t
  OBVIOUS
<1>3. /\ u \in Seq(E) /\ DOMAIN u = 1 .. m + n
      /\ \A k \in 1 .. m : u[k] = s[k]
      /\ \A k \in 1 .. n : u[m + k] = t[k]
  BY <1>1, <1>2
<1>4. PICK K, L, M : /\ K = {k \in DOMAIN s : s[k] = x} /\ L = {k \in DOMAIN t : t[k] = x}
                     /\ M = {k \in 1 .. m + n : k > m /\ u[k] = x}
  OBVIOUS
<1>5. IsFiniteSet(K) /\ IsFiniteSet(L) /\ Cardinality(K) \in Nat /\ Cardinality(L) \in Nat
  BY <1>4, HowOftenType, FS_CardinalityType
<1>6. IsFiniteSet(M) /\ Cardinality(M) = Cardinality(L)
  <2>1. PICK f : f = [k \in L |-> m + k]
    OBVIOUS
  <2>2. \A k \in L : k \in 1 .. n /\ t[k] = x
    BY <1>1, <1>4
  <2>3. \A k \in 1 .. n : m + k \in 1 .. m + n /\ m + k > m
    OBVIOUS
  <2>4. \A k \in L : f[k] \in M
    BY <1>3, <1>4, <2>1, <2>2, <2>3
  <2>5. ASSUME NEW k \in M PROVE \E j \in L : f[j] = k
    <3>1. k \in 1 .. m + n /\ k > m /\ u[k] = x
      BY <1>4
    <3>2. k - m \in 1 .. n /\ m + (k - m) = k
      BY <3>1
    <3>3. k - m \in L
      BY <1>1, <1>3, <1>4, <3>1, <3>2
    <3> QED
      BY <2>1, <3>2, <3>3
  <2>6. \A k, j \in L : f[k] = f[j] => k = j
    BY <2>1, <2>2
  <2>7. f \in [L -> M]
    BY <2>1, <2>4
  <2>8. f \in Bijection(L, M)
    BY <2>5, <2>6, <2>7 DEF Bijection, Injection, Surjection, IsInjective
  <2> QED
    BY <1>5, <2>8, FS_Bijection DEF ExistsBijection
<1>7. {k \in DOMAIN u : u[k] = x} = K \cup M
  BY <1>1, <1>3, <1>4
<1>8. K \cap M = {}
  BY <1>1, <1>4
<1>9. Cardinality(K \cup M) = Cardinality(K) + Cardinality(L)
  <2>1. Cardinality(K \cap M) = 0
    BY <1>8, FS_EmptySet
  <2>2. Cardinality(K \cup M) = Cardinality(K) + Cardinality(M) - Cardinality(K \cap M)
    BY <1>5, <1>6, FS_Union
  <2> QED
    BY <1>5, <1>6, <2>1, <2>2
<1> QED
  BY <1>2, <1>4, <1>7, <1>9 DEF HowOften

\* The first place of a sequence, and one more at its end.
LEMMA HowOftenInTurn ==
  ASSUME NEW E, NEW s \in Seq(E), NEW x
  PROVE  /\ s # <<>> => HowOften(s, x) = HowOften(Tail(s), x) + (IF Head(s) = x THEN 1 ELSE 0)
         /\ \A y \in E : HowOften(Append(s, y), x) = HowOften(s, x) + (IF y = x THEN 1 ELSE 0)
<1>1. ASSUME NEW y \in E PROVE HowOften(<<y>>, x) = IF y = x THEN 1 ELSE 0
  <2>1. PICK one : one = <<y>>
    OBVIOUS
  <2>2. one \in Seq(E) /\ DOMAIN one = {1} /\ one[1] = y
    BY <2>1
  <2>3. CASE y = x
    <3>1. {k \in DOMAIN one : one[k] = x} = {1}
      BY <2>2, <2>3
    <3>2. Cardinality({1}) = 1
      BY FS_Singleton
    <3> QED
      BY <2>1, <2>3, <3>1, <3>2 DEF HowOften
  <2>4. CASE y # x
    BY <2>1, <2>2, <2>4, HowOftenType
  <2> QED
    BY <2>3, <2>4
<1>2. ASSUME s # <<>>
      PROVE  HowOften(s, x) = HowOften(Tail(s), x) + (IF Head(s) = x THEN 1 ELSE 0)
  <2>1. PICK y \in E : y = Head(s)
    BY <1>2
  <2>12. Tail(s) \in Seq(E)
    BY <1>2
  <2>5. PICK t \in Seq(E) : t = Tail(s)
    BY <2>12
  <2>6. PICK n \in Nat : n = Len(s) /\ DOMAIN s = 1 .. n /\ n > 0
    BY <1>2
  <2>7. /\ Len(t) = n - 1 /\ DOMAIN t = 1 .. n - 1
        /\ \A k \in 1 .. n - 1 : t[k] = s[k + 1]
    BY <1>2, <2>5, <2>6
  <2>8. s[1] = y
    BY <1>2, <2>1
  <2>13. <<y>> \o t \in Seq(E)
    OBVIOUS
  <2>9. PICK u \in Seq(E) : u = <<y>> \o t
    BY <2>13
  <2>10. Len(u) = n /\ u[1] = y /\ \A k \in 2 .. n : u[k] = t[k - 1]
    BY <2>6, <2>7, <2>9
  <2>11. \A k \in 1 .. n : u[k] = s[k]
    <3> SUFFICES ASSUME NEW k \in 1 .. n PROVE u[k] = s[k]
      OBVIOUS
    <3>1. CASE k = 1
      BY <2>8, <2>10, <3>1
    <3>2. CASE k # 1
      <4>1. k \in 2 .. n /\ k - 1 \in 1 .. n - 1 /\ (k - 1) + 1 = k
        BY <2>6, <3>2
      <4> QED
        BY <2>7, <2>10, <4>1
    <3> QED
      BY <3>1, <3>2
  <2>2. <<y>> \in Seq(E) /\ s = <<y>> \o t
    <3>1. u = s
      BY <2>6, <2>10, <2>11
    <3> QED
      BY <2>9, <3>1
  <2>3. HowOften(s, x) = HowOften(<<y>>, x) + HowOften(t, x)
    BY <2>2, HowOftenJoined
  <2>4. HowOften(t, x) \in Nat
    BY HowOftenType
  <2> QED
    BY <1>1, <2>1, <2>3, <2>4, <2>5
<1>3. ASSUME NEW y \in E
      PROVE  HowOften(Append(s, y), x) = HowOften(s, x) + (IF y = x THEN 1 ELSE 0)
  <2>1. <<y>> \in Seq(E) /\ Append(s, y) = s \o <<y>>
    OBVIOUS
  <2>2. HowOften(s \o <<y>>, x) = HowOften(s, x) + HowOften(<<y>>, x)
    BY <2>1, HowOftenJoined
  <2> QED
    BY <1>1, <2>1, <2>2
<1> QED
  BY <1>2, <1>3

\* At most once among distinct members.
LEMMA HowOftenDistinct ==
  ASSUME NEW E, NEW s \in Seq(E), Distinct(s), NEW x
  PROVE  HowOften(s, x) <= 1
<1>1. PICK K : K = {k \in DOMAIN s : s[k] = x}
  OBVIOUS
<1>2. \A k, l \in K : k = l
  BY <1>1 DEF Distinct
<1>3. HowOften(s, x) = Cardinality(K)
  BY <1>1 DEF HowOften
<1>4. CASE K = {}
  <2>1. Cardinality(K) = 0
    BY <1>4, FS_EmptySet
  <2> QED
    BY <1>3, <2>1
<1>5. CASE K # {}
  <2>1. PICK k : k \in K
    BY <1>5
  <2>2. K = {k}
    BY <1>2, <2>1
  <2>3. Cardinality(K) = 1
    BY <2>2, FS_Singleton
  <2> QED
    BY <1>3, <2>3
<1> QED
  BY <1>4, <1>5

-----------------------------------------------------------------------------
(* Totals over a finite set.                                                *)

\* What f counts for the members of S, as many pairs.
Tally(f, S) == UNION {{w} \X (1 .. f[w]) : w \in S}
Total(f, S) == Cardinality(Tally(f, S))

\* A total is a number.
LEMMA TotalType ==
  ASSUME NEW S, IsFiniteSet(S), NEW f, \A w \in S : f[w] \in Nat
  PROVE  IsFiniteSet(Tally(f, S)) /\ Total(f, S) \in Nat
<1>1. PICK g : g = [w \in S |-> {w} \X (1 .. f[w])]
  OBVIOUS
<1>2. PICK T : T = {{w} \X (1 .. f[w]) : w \in S}
  OBVIOUS
<1>3. g \in Surjection(S, T)
  <2>1. \A w \in S : g[w] = {w} \X (1 .. f[w])
    BY <1>1
  <2>2. g \in [S -> T]
    BY <1>1, <1>2
  <2>3. \A t \in T : \E w \in S : g[w] = t
    BY <1>2, <2>1
  <2> QED
    BY <2>2, <2>3 DEF Surjection
<1>4. IsFiniteSet(T)
  BY <1>3, FS_Surjection
<1>5. ASSUME NEW w \in S PROVE IsFiniteSet({w} \X (1 .. f[w]))
  <2>1. 1 \in Int /\ f[w] \in Int
    OBVIOUS
  <2>2. IsFiniteSet(1 .. f[w]) /\ IsFiniteSet({w})
    BY <2>1, FS_Interval, FS_Singleton
  <2> QED
    BY <2>2, FS_Product
<1>6. \A t \in T : IsFiniteSet(t)
  BY <1>2, <1>5
<1>7. IsFiniteSet(UNION T)
  BY <1>4, <1>6, FS_UNION
<1> QED
  BY <1>2, <1>7, FS_CardinalityType DEF Total, Tally

\* What one member counts, apart from the rest.
LEMMA TotalSplit ==
  ASSUME NEW S, IsFiniteSet(S), NEW f, \A w \in S : f[w] \in Nat, NEW p \in S
  PROVE  Total(f, S) = Total(f, S \ {p}) + f[p]
<1>1. PICK Q : Q = S \ {p}
  OBVIOUS
<1>2. PICK R, M : R = Tally(f, Q) /\ M = {p} \X (1 .. f[p])
  OBVIOUS
<1>3. IsFiniteSet(R) /\ Total(f, Q) = Cardinality(R) /\ Cardinality(R) \in Nat
  <2>1. IsFiniteSet(Q) /\ \A w \in Q : f[w] \in Nat
    BY <1>1, FS_Subset
  <2> QED
    BY <1>2, <2>1, TotalType DEF Total
<1>4. IsFiniteSet(M) /\ Cardinality(M) = f[p]
  <2>1. PICK n \in Nat : n = f[p]
    OBVIOUS
  <2>2. 1 \in Int /\ n \in Int /\ (1 > n => n = 0) /\ n - 1 + 1 = n
    OBVIOUS
  <2>3. IsFiniteSet(1 .. n) /\ Cardinality(1 .. n) = n
    BY <2>2, FS_Interval
  <2>4. IsFiniteSet({p}) /\ Cardinality({p}) = 1
    BY FS_Singleton
  <2>5. IsFiniteSet({p} \X (1 .. n)) /\ Cardinality({p} \X (1 .. n)) = 1 * n
    BY <2>3, <2>4, FS_Product, ZenonT(40)
  <2>6. 1 * n = n
    OBVIOUS
  <2> QED
    BY <1>2, <2>1, <2>5, <2>6
<1>5. Tally(f, S) = R \cup M
  <2>1. \A x : x \in Tally(f, S) <=> \E w \in S : x \in {w} \X (1 .. f[w])
    BY DEF Tally
  <2>2. \A x : x \in R <=> \E w \in Q : x \in {w} \X (1 .. f[w])
    BY <1>2 DEF Tally
  <2> QED
    BY <1>1, <1>2, <2>1, <2>2
<1>6. R \cap M = {}
  <2>1. \A x \in R : x[1] # p
    BY <1>1, <1>2 DEF Tally
  <2>2. \A x \in M : x[1] = p
    BY <1>2
  <2> QED
    BY <2>1, <2>2
<1>7. Cardinality(R \cup M) = Cardinality(R) + Cardinality(M)
  <2>1. Cardinality(R \cap M) = 0
    BY <1>6, FS_EmptySet
  <2>2. Cardinality(R \cup M) = Cardinality(R) + Cardinality(M) - Cardinality(R \cap M)
    BY <1>3, <1>4, FS_Union
  <2> QED
    BY <1>3, <1>4, <2>1, <2>2
<1> QED
  BY <1>1, <1>3, <1>4, <1>5, <1>7 DEF Total

\* Totals of counts that agree are the same.
LEMMA TotalSame ==
  ASSUME NEW S, NEW f, NEW g, \A w \in S : f[w] = g[w]
  PROVE  Total(f, S) = Total(g, S)
<1>1. {{w} \X (1 .. f[w]) : w \in S} = {{w} \X (1 .. g[w]) : w \in S}
  OBVIOUS
<1> QED
  BY <1>1 DEF Total, Tally

\* The count of one member changes the total by as much.
LEMMA TotalOne ==
  ASSUME NEW S, IsFiniteSet(S), NEW f, \A w \in S : f[w] \in Nat,
         NEW g, \A w \in S : g[w] \in Nat, NEW p \in S, \A w \in S \ {p} : g[w] = f[w]
  PROVE  Total(g, S) + f[p] = Total(f, S) + g[p]
<1>1. Total(f, S) = Total(f, S \ {p}) + f[p]
  BY TotalSplit
<1>2. Total(g, S) = Total(g, S \ {p}) + g[p]
  BY TotalSplit
<1>3. Total(f, S \ {p}) = Total(g, S \ {p})
  BY TotalSame
<1>4. Total(f, S \ {p}) \in Nat
  <2>1. PICK Q : Q = S \ {p}
    OBVIOUS
  <2>2. IsFiniteSet(Q) /\ \A w \in Q : f[w] \in Nat
    BY <2>1, FS_Subset
  <2> QED
    BY <2>1, <2>2, TotalType
<1> QED
  BY <1>1, <1>2, <1>3, <1>4

\* A single member that counts.
LEMMA TotalAlone ==
  ASSUME NEW S, IsFiniteSet(S), NEW f, \A w \in S : f[w] \in Nat,
         NEW p \in S, \A w \in S \ {p} : f[w] = 0
  PROVE  Total(f, S) = f[p]
<1>1. Total(f, S) = Total(f, S \ {p}) + f[p]
  BY TotalSplit
<1>2. Tally(f, S \ {p}) = {}
  <2>1. 1 .. 0 = {}
    OBVIOUS
  <2>2. \A w \in S \ {p} : {w} \X (1 .. f[w]) = {}
    BY <2>1
  <2> QED
    BY <2>2 DEF Tally
<1>3. Total(f, S \ {p}) = 0
  BY <1>2, FS_EmptySet DEF Total
<1> QED
  BY <1>1, <1>3

-----------------------------------------------------------------------------
(* Subsets.                                                                 *)

\* There are more subsets of a larger set, and at least one.
LEMMA MoreSubsets ==
  ASSUME NEW T, IsFiniteSet(T), NEW S \in SUBSET T
  PROVE  /\ Cardinality(SUBSET S) \in Nat /\ Cardinality(SUBSET T) \in Nat
         /\ 1 <= Cardinality(SUBSET S) /\ Cardinality(SUBSET S) <= Cardinality(SUBSET T)
<1>1. IsFiniteSet(S)
  BY FS_Subset
<1>2. IsFiniteSet(SUBSET S) /\ IsFiniteSet(SUBSET T)
  BY <1>1, FS_SUBSET
<1>3. Cardinality(SUBSET S) \in Nat /\ Cardinality(SUBSET T) \in Nat
  BY <1>2, FS_CardinalityType
<1>4. Cardinality(SUBSET S) # 0
  <2>1. SUBSET S # {}
    OBVIOUS
  <2> QED
    BY <1>2, <2>1, FS_EmptySet
<1>5. SUBSET S \in SUBSET (SUBSET T)
  OBVIOUS
<1>6. Cardinality(SUBSET S) <= Cardinality(SUBSET T)
  BY <1>2, <1>5, FS_Subset
<1> QED
  BY <1>3, <1>4, <1>6

\* One member more doubles them.
LEMMA TwiceAsManySubsets ==
  ASSUME NEW S, IsFiniteSet(S), NEW p, p \notin S
  PROVE  Cardinality(SUBSET (S \cup {p})) = Cardinality(SUBSET S) + Cardinality(SUBSET S)
<1>1. PICK A, B : A = SUBSET S /\ B = {t \cup {p} : t \in SUBSET S}
  OBVIOUS
<1>2. IsFiniteSet(A) /\ Cardinality(A) \in Nat
  BY <1>1, FS_SUBSET, FS_CardinalityType
<1>3. PICK f : f = [t \in A |-> t \cup {p}]
  OBVIOUS
<1>4. f \in [A -> B] /\ \A t \in A : f[t] = t \cup {p}
  BY <1>1, <1>3
<1>5. \A t, u \in A : f[t] = f[u] => t = u
  <2> SUFFICES ASSUME NEW t \in A, NEW u \in A, f[t] = f[u] PROVE t = u
    OBVIOUS
  <2>1. t \cup {p} = u \cup {p} /\ p \notin t /\ p \notin u
    BY <1>1, <1>4
  <2> QED
    BY <2>1
<1>6. \A b \in B : \E t \in A : f[t] = b
  BY <1>1, <1>4
<1>7. f \in Bijection(A, B)
  BY <1>4, <1>5, <1>6 DEF Bijection, Injection, Surjection, IsInjective
<1>8. IsFiniteSet(B) /\ Cardinality(B) = Cardinality(A)
  BY <1>2, <1>7, FS_Bijection DEF ExistsBijection
<1>9. SUBSET (S \cup {p}) = A \cup B
  <2>1. ASSUME NEW t \in SUBSET (S \cup {p}) PROVE t \in A \cup B
    <3>1. CASE p \in t
      <4>1. t \ {p} \in SUBSET S /\ t = (t \ {p}) \cup {p}
        BY <3>1
      <4> QED
        BY <1>1, <4>1
    <3>2. CASE p \notin t
      BY <1>1, <3>2
    <3> QED
      BY <3>1, <3>2
  <2> QED
    BY <1>1, <2>1
<1>10. A \cap B = {}
  BY <1>1
<1>11. Cardinality(A \cup B) = Cardinality(A) + Cardinality(B)
  <2>1. Cardinality(A \cap B) = 0
    BY <1>10, FS_EmptySet
  <2>2. Cardinality(A \cup B) = Cardinality(A) + Cardinality(B) - Cardinality(A \cap B)
    BY <1>2, <1>8, FS_Union
  <2> QED
    BY <1>2, <1>8, <2>1, <2>2
<1> QED
  BY <1>1, <1>8, <1>9, <1>11


-----------------------------------------------------------------------------
(* The order a stable sort by a key gives.                                 *)

\* What stands before a row in its order, of those that are sorted by a key.
SortsBefore(s, key, i) == {j \in DOMAIN s : key[j] < key[i] \/ (key[j] = key[i] /\ j < i)}

\* A stable sort loses no row and invents none.
LEMMA SortedMembers ==
  ASSUME NEW E, NEW s \in Seq(E), NEW key, \A i \in DOMAIN s : key[i] \in Int
  PROVE  SortedBy(s, key) \in Seq(E) /\ ToSet(SortedBy(s, key)) = ToSet(s)
<1>1. PICK n \in Nat : n = Len(s) /\ DOMAIN s = 1 .. n
  OBVIOUS
<1> DEFINE D == 1 .. n
           B(i) == SortsBefore(s, key, i)
           rank == [i \in D |-> Cardinality(B(i))]
<1>2. \A i \in D : key[i] \in Int /\ i \in Int
  BY <1>1
<1>3. IsFiniteSet(D) /\ Cardinality(D) = n
  BY FS_Interval
<1>4. ASSUME NEW i \in D
      PROVE  IsFiniteSet(B(i)) /\ Cardinality(B(i)) \in 0 .. n - 1
  <2>1. B(i) \subseteq D \ {i}
    BY <1>1, <1>2 DEF SortsBefore
  <2>2. IsFiniteSet(D \ {i}) /\ Cardinality(D \ {i}) = n - 1
    BY <1>3, FS_RemoveElement
  <2>3. IsFiniteSet(B(i)) /\ Cardinality(B(i)) <= Cardinality(D \ {i})
    BY <2>1, <2>2, FS_Subset
  <2>4. Cardinality(B(i)) \in Nat
    BY <2>3, FS_CardinalityType
  <2> QED BY <2>2, <2>3, <2>4
<1>5. ASSUME NEW i \in D, NEW j \in D, i # j
      PROVE  rank[i] # rank[j]
  <2>1. ASSUME NEW x \in D, NEW y \in D, x \in B(y)
        PROVE  Cardinality(B(x)) < Cardinality(B(y))
    <3>1. B(x) \subseteq B(y) \ {x}
      BY <1>1, <1>2, <2>1 DEF SortsBefore
    <3>2. IsFiniteSet(B(y)) /\ IsFiniteSet(B(y) \ {x}) /\ Cardinality(B(y) \ {x}) = Cardinality(B(y)) - 1
      BY <1>4, <2>1, FS_RemoveElement
    <3>3. Cardinality(B(x)) <= Cardinality(B(y) \ {x})
      BY <3>1, <3>2, FS_Subset
    <3> HIDE DEF B
    <3> QED BY <1>4, <3>2, <3>3
  <2>2. i \in B(j) \/ j \in B(i)
    BY <1>1, <1>2, <1>5 DEF SortsBefore
  <2>3. CASE i \in B(j)
    <3>1. Cardinality(B(i)) < Cardinality(B(j))
      BY <2>1, <2>3
    <3> QED BY <1>4, <3>1
  <2>4. CASE j \in B(i)
    <3>1. Cardinality(B(j)) < Cardinality(B(i))
      BY <2>1, <2>4
    <3> QED BY <1>4, <3>1
  <2> QED BY <2>2, <2>3, <2>4
<1>6. rank \in Injection(D, 0 .. n - 1)
  <2>1. rank \in [D -> 0 .. n - 1]
    BY <1>4
  <2> QED BY <1>5, <2>1 DEF Injection, IsInjective
<1>7. IsFiniteSet(0 .. n - 1) /\ Cardinality(0 .. n - 1) = n
  BY FS_Interval
<1>8. rank \in Surjection(D, 0 .. n - 1)
  BY <1>3, <1>6, <1>7, FS_Injection
<1>9. ASSUME NEW k \in D
      PROVE  \E i \in D : Cardinality(B(i)) = k - 1
  <2>1. k - 1 \in 0 .. n - 1
    BY <1>1
  <2>2. PICK i \in D : rank[i] = k - 1
    BY <1>8, <2>1 DEF Surjection
  <2> QED BY <2>2
<1> DEFINE Of(k) == CHOOSE i \in D : Cardinality(B(i)) = k - 1
<1>10. \A k \in D : Of(k) \in D /\ Cardinality(B(Of(k))) = k - 1
  BY <1>9
<1>11. SortedBy(s, key) = [k \in D |-> s[Of(k)]]
  BY <1>1 DEF SortedBy, SortsBefore
<1>12. ASSUME NEW i \in D PROVE \E k \in D : Of(k) = i
  <2>1. PICK k \in D : k = Cardinality(B(i)) + 1
    BY <1>1, <1>4
  <2>2. Cardinality(B(Of(k))) = Cardinality(B(i)) /\ Of(k) \in D
    BY <1>4, <1>10, <2>1
  <2>3. rank[Of(k)] = rank[i]
    BY <2>2
  <2> QED BY <1>5, <2>2, <2>3
<1> HIDE DEF Of
<1>13. SortedBy(s, key) \in Seq(E)
  <2>1. \A k \in 1 .. n : s[Of(k)] \in E
    BY <1>1, <1>10
  <2> QED BY <1>1, <1>11, <2>1
<1>14. ToSet(SortedBy(s, key)) = ToSet(s)
  <2> DEFINE t == SortedBy(s, key)
  <2>1. DOMAIN t = D /\ \A k \in D : t[k] = s[Of(k)]
    BY <1>11
  <2> HIDE DEF t
  <2>2. ToSet(t) = {t[k] : k \in D} /\ ToSet(s) = {s[i] : i \in D}
    BY <1>1, <2>1 DEF ToSet
  <2>3. \A k \in D : t[k] \in ToSet(s)
    BY <1>10, <2>1, <2>2
  <2>4. \A i \in D : s[i] \in ToSet(t)
    BY <1>12, <2>1, <2>2
  <2> QED BY <2>2, <2>3, <2>4 DEF t
<1> QED BY <1>13, <1>14

=============================================================================
